--------------------------- MODULE BoundaryChain ----------------------------
(***************************************************************************)
(* Live capsules attest themselves again and again, each attestation       *)
(* naming the hash of the one before; a reader collects some of them, in   *)
(* any order and not always unaltered, and walks them with                 *)
(* verify_boundary_chain (boundary.rs, stage 4).                           *)
(*                                                                         *)
(* The attesting issuer and the authority whose keys rotate are not in     *)
(* this repository; they are modelled from sign_doc and make_successor of  *)
(* tests/boundary_attestation.rs and from the manifest's schema.           *)
(***************************************************************************)
EXTENDS BoundaryAttestation, Integers, FiniteSets

CONSTANTS
  Capsules,
  AuthorityWritten,  \* capsule -> the authority_id its attestations carry, or NoValue
  Events,            \* what may happen in a capsule
  Activity,          \* capsule -> what has happened in it, in order, by each attestation
  Versions,          \* a sequence: signing key versions, in the order of rotation
  ForeignKey,        \* a key no manifest publishes
  IndexModulus,      \* 2^64
  Lapses,            \* time that may pass between attestations: 0 is too short
  Edits,             \* [field, value]: what may be written over a field
  Seals,             \* how an edited document is closed again
  Disclosures,       \* activity trails that may be disclosed
  MaxIssued,         \* bound: capsule -> attestations
  MaxSupplied,       \* bound: documents given to the walk
  MaxChanges         \* bound: edits

ASSUME IndexModulusAssumption == IndexModulus \in Nat \ {0}
ASSUME LapsesAssumption == Lapses \subseteq Nat
ASSUME VersionsAssumption == Len(Versions) \in Nat \ {0} /\ DOMAIN Versions = 1 .. Len(Versions)
ASSUME KeysAssumption == \A i \in DOMAIN Versions : ForeignKey # <<"key of", Versions[i]>>
ASSUME ActivityAssumption ==
  \A c \in Capsules : MaxIssued[c] \in Nat
                         /\ \A n \in 1 .. MaxIssued[c] : Activity[c][n] \in Seq(Events)
ASSUME SealsAssumption == Seals \subseteq {"untouched", "rehashed", "unsigned", "foreign"}
ASSUME DisclosuresAssumption == Disclosures \subseteq Seq(Events)

\* A capsule attests under the authority that publishes the manifest, which a
\* document need not name, and not so often that its index wraps around.
ASSUME AuthorityAssumption == \A c \in Capsules : AuthorityWritten[c] \in {NoValue, DefaultAuthority}
ASSUME MaxIssuedAssumption == \A c \in Capsules : MaxIssued[c] < IndexModulus

\* What the manifest lists, and what a lookup answers with.
KeyVersionRecords ==
  [signing_key_version : {Versions[i] : i \in DOMAIN Versions},
   public_key : {<<"key of", Versions[i]>> : i \in DOMAIN Versions}]
KeyLookupResults == [record : KeyVersionRecords, revoked : BOOLEAN, status : {"Active", "Archived"}]

\* What is there is not the absence of it, and a time is not unparseable.
ASSUME PresenceAssumption ==
  /\ NoValue \notin Nat \cup Capsules \cup KeyVersionRecords \cup KeyLookupResults
                   \cup {"1.0", GenesisHash, ObservationMethods}
  /\ \A i \in DOMAIN Versions : <<"key of", Versions[i]>> # NoValue
  /\ \A c \in Capsules : \A n \in 1 .. MaxIssued[c] :
       RecomputeActivityCommitment(Activity[c][n]) # NoValue
  /\ Unparseable \notin Nat

\* A signature is only ever lost, what Seals do apart, and an index that is no
\* number is none.
ASSUME EditsAssumption ==
  \A e \in Edits :
    /\ e.field = "signature" => e.value = NoValue
    /\ e.field = "attestation_index" => e.value \in Nat \cup {NoValue}

VARIABLES
  phase,                   \* "issue", "supply", "documents", "linkage", "done"
  clock,
  issued,                  \* capsule -> the documents attested, as signed
  manifest,                \* the published trust-chain manifest
  held,                    \* the reader's copy of it, NoValue without one
  changes,                 \* edits so far
  docs,                    \* the documents supplied
  ordered,                 \* the same by attestation_index
  at,                      \* documents verified, then linked
  per_document,
  all_signatures_checked,
  genesis_anchored,
  result,                  \* BoundaryChainResult, NoValue before it
  disclosed                \* a trail verified after the walk, NoValue before

world == <<clock, issued, manifest>>
supply == <<held, changes, docs>>
walk == <<ordered, at, per_document, all_signatures_checked, genesis_anchored, result>>
vars == <<phase, world, supply, walk, disclosed>>

Init ==
  /\ phase = "issue"
  /\ clock = 0
  /\ issued = [c \in Capsules |-> <<>>]
  /\ manifest = [a \in {DefaultAuthority} |->
       AuthorityRecord(<<KeyVersionRecord(Versions[1], <<"key of", Versions[1]>>)>>, <<>>, FALSE)]
  /\ held = NoValue
  /\ changes = 0
  /\ docs = <<>>
  /\ ordered = <<>>
  /\ at = 0
  /\ per_document = <<>>
  /\ all_signatures_checked = TRUE
  /\ genesis_anchored = FALSE
  /\ result = NoValue
  /\ disclosed = NoValue

-----------------------------------------------------------------------------
(* Issuer and authority.                                                   *)

Authority == manifest[DefaultAuthority]
CurrentVersion == Authority.active_versions[1].signing_key_version

\* The hash is computed and signed last.
Seal(d, key) ==
  [d EXCEPT !.canonical_hash = RecomputeCanonicalHash(d),
            !.public_key     = key,
            !.signature      = Sign(key, RecomputeCanonicalHash(d))]

Attestation(c, time) ==
  LET n     == Len(issued[c])
      trail == Activity[c][n + 1]
  IN  [kind                  |-> Kind,
       version               |-> "1.0",
       capsule_id            |-> c,
       attestation_index     |-> n + 1,
       cutoff_ts             |-> time,
       activity_commitment   |-> RecomputeActivityCommitment(trail),
       activity_event_count  |-> Len(trail),
       prev_attestation_hash |-> IF n = 0 THEN GenesisHash
                                 ELSE RecomputeCanonicalHash(issued[c][n]),
       hash_algorithm        |-> "sha512",
       signature_algorithm   |-> "Ed25519",
       continuation          |-> ContinuationStatement,
       boundary_evidence     |-> ObservationMethods,
       authority_id          |-> AuthorityWritten[c],
       signing_key_version   |-> CurrentVersion,
       canonical_hash        |-> NoValue,
       signature             |-> NoValue,
       public_key            |-> NoValue]

Attest(c) ==
  \E lapse \in Lapses :
    /\ Len(issued[c]) < MaxIssued[c]
    /\ clock' = clock + lapse
    /\ issued' = [issued EXCEPT ![c] =
                   Append(@, Seal(Attestation(c, clock'), <<"key of", CurrentVersion>>))]
    /\ UNCHANGED <<phase, manifest, supply, walk, disclosed>>

\* The active version is archived, the next one takes its place.
Rotate(i) ==
  /\ i \in 1 .. Len(Versions) - 1
  /\ Versions[i] = CurrentVersion
  /\ manifest' = [manifest EXCEPT ![DefaultAuthority] =
       AuthorityRecord(<<KeyVersionRecord(Versions[i + 1], <<"key of", Versions[i + 1]>>)>>,
                       Authority.archived_versions \o Authority.active_versions,
                       Authority.revoked)]
  /\ UNCHANGED <<phase, clock, issued, supply, walk, disclosed>>

Revoke ==
  /\ ~Authority.revoked
  /\ manifest' = [manifest EXCEPT ![DefaultAuthority].revoked = TRUE]
  /\ UNCHANGED <<phase, clock, issued, supply, walk, disclosed>>

FetchManifest ==
  /\ held = NoValue
  /\ held' = manifest
  /\ UNCHANGED <<phase, world, changes, docs, walk, disclosed>>

Collect ==
  /\ phase' = "supply"
  /\ UNCHANGED <<world, supply, walk, disclosed>>

-----------------------------------------------------------------------------
(* The documents on their way to the walk.                                 *)

Take(c, i) ==
  /\ changes = 0
  /\ Len(docs) < MaxSupplied
  /\ docs' = Append(docs, issued[c][i])
  /\ UNCHANGED <<phase, world, held, changes, walk, disclosed>>

\* An edited document is left as it is, is given its new hash, loses its
\* signature with it, or is signed anew by somebody who is not the issuer.
Closed(d, seal) ==
  CASE seal = "untouched" -> d
    [] seal = "rehashed"  -> [d EXCEPT !.canonical_hash = RecomputeCanonicalHash(d)]
    [] seal = "unsigned"  -> [d EXCEPT !.canonical_hash = RecomputeCanonicalHash(d),
                                       !.signature      = NoValue]
    [] seal = "foreign"   -> Seal(d, ForeignKey)

Change(i, d) ==
  /\ changes < MaxChanges
  /\ \E seal \in Seals : docs' = [docs EXCEPT ![i] = Closed(d, seal)]
  /\ changes' = changes + 1
  /\ UNCHANGED <<phase, world, held, walk, disclosed>>

Edit(i, e) == Change(i, [docs[i] EXCEPT ![e.field] = e.value])

\* The link is rewritten to another document of the supply.
Relink(i, j) ==
  Change(i, [docs[i] EXCEPT !.prev_attestation_hash = RecomputeCanonicalHash(docs[j])])

-----------------------------------------------------------------------------
(* verify_boundary_chain.                                                  *)

\* unwrap_or(0)
IndexOf(d) == IF d.attestation_index = NoValue THEN 0 ELSE d.attestation_index

\* A stable sort.
Rank(i) ==
  Cardinality({j \in DOMAIN docs :
    \/ IndexOf(docs[j]) < IndexOf(docs[i])
    \/ IndexOf(docs[j]) = IndexOf(docs[i]) /\ j <= i})

Submit ==
  /\ phase' = "documents"
  /\ ordered' = [k \in DOMAIN docs |-> docs[CHOOSE i \in DOMAIN docs : Rank(i) = k]]
  /\ UNCHANGED <<world, supply, at, per_document, all_signatures_checked, genesis_anchored,
                 result, disclosed>>

FailChain(failure, index, verdicts, checked) ==
  /\ phase' = "done"
  /\ result' = [valid |-> FALSE, failure_reason |-> failure, failed_at_index |-> index,
                per_document |-> verdicts, chain_span |-> NoValue,
                genesis_anchored |-> FALSE, all_signatures_checked |-> checked]
  /\ UNCHANGED <<world, supply, ordered, at, all_signatures_checked, genesis_anchored, disclosed>>

\* Mutant: the first document's signature stands for all of them.
VerifyDocumentFirstCounts ==
  LET verdict == VerifyBoundaryAttestation(ordered[at + 1], held)
  IN  /\ at < Len(ordered)
      /\ per_document' = Append(per_document, verdict)
      /\ \/ /\ ~verdict.valid
            /\ FailChain(verdict.failure_reason, verdict.metadata.attestation_index,
                         per_document', FALSE)
         \/ /\ verdict.valid
            /\ at' = at + 1
            /\ all_signatures_checked' =
                 IF at = 0 THEN verdict.signature_checked ELSE all_signatures_checked
            /\ UNCHANGED <<phase, world, supply, ordered, genesis_anchored, result, disclosed>>

VerifyDocument ==
  LET verdict == VerifyBoundaryAttestation(ordered[at + 1], held)
  IN  /\ at < Len(ordered)
      /\ per_document' = Append(per_document, verdict)
      /\ \/ /\ ~verdict.valid
            /\ FailChain(verdict.failure_reason, verdict.metadata.attestation_index,
                         per_document', FALSE)
         \/ /\ verdict.valid
            /\ at' = at + 1
            /\ all_signatures_checked' = (all_signatures_checked /\ verdict.signature_checked)
            /\ UNCHANGED <<phase, world, supply, ordered, genesis_anchored, result, disclosed>>

BeginLinkage ==
  /\ at = Len(ordered)
  /\ phase' = "linkage"
  /\ at' = 0
  /\ UNCHANGED <<world, supply, ordered, per_document, all_signatures_checked, genesis_anchored,
                 result, disclosed>>

CapsuleCheck(k) ==
  Check("CapsuleIdMismatch", ordered[k].capsule_id = ordered[1].capsule_id)

CutoffCheck(k) ==
  Check("CutoffTimestampUnparseable", ordered[k].cutoff_ts # Unparseable)

\* Mutant: every chain has to begin at the origin.
HeadChecksOfOrigin(k) ==
  <<CapsuleCheck(k),
    Check("GenesisPrevHashMismatch", ordered[k].prev_attestation_hash = GenesisHash),
    CutoffCheck(k)>>

\* The first document: a suffix's link points at nothing that is held.
HeadChecks(k) ==
  <<CapsuleCheck(k),
    Check("GenesisPrevHashMismatch",
          ordered[k].attestation_index = 1 => ordered[k].prev_attestation_hash = GenesisHash),
    CutoffCheck(k)>>

\* Mutant: the link is not compared.
UnlinkedChecks(k) ==
  LET prev == ordered[k - 1]
      d    == ordered[k]
  IN  <<CapsuleCheck(k),
        Check("IndexNotStrictlyIncremented",
              d.attestation_index = (prev.attestation_index + 1) % IndexModulus),
        CutoffCheck(k)>>

SuccessorChecks(k) ==
  LET prev == ordered[k - 1]
      d    == ordered[k]
  IN  <<CapsuleCheck(k),
        Check("IndexNotStrictlyIncremented",
              d.attestation_index = (prev.attestation_index + 1) % IndexModulus),
        Check("PrevAttestationHashMismatch",
              d.prev_attestation_hash = RecomputeCanonicalHash(prev)),
        CutoffCheck(k),
        Check("CutoffNotIncreasing",
              d.cutoff_ts # Unparseable => d.cutoff_ts > prev.cutoff_ts)>>

LinkFailure(k) == FirstFailure(IF k = 1 THEN HeadChecks(k) ELSE SuccessorChecks(k))

Link ==
  /\ at < Len(ordered)
  /\ \/ /\ LinkFailure(at + 1) = NoValue
        /\ at' = at + 1
        /\ genesis_anchored' = (genesis_anchored \/ (at = 0 /\ ordered[1].attestation_index = 1))
        /\ UNCHANGED <<phase, world, supply, ordered, per_document, all_signatures_checked,
                       result, disclosed>>
     \/ /\ LinkFailure(at + 1) # NoValue
        /\ FailChain(LinkFailure(at + 1), ordered[at + 1].attestation_index,
                     per_document, all_signatures_checked)
        /\ UNCHANGED per_document

Span ==
  IF ordered = <<>> THEN NoValue
  ELSE <<ordered[1].attestation_index, ordered[Len(ordered)].attestation_index>>

Conclude ==
  /\ at = Len(ordered)
  /\ phase' = "done"
  /\ result' = [valid |-> TRUE, failure_reason |-> NoValue, failed_at_index |-> NoValue,
                per_document |-> per_document, chain_span |-> Span,
                genesis_anchored |-> genesis_anchored,
                all_signatures_checked |-> all_signatures_checked]
  /\ UNCHANGED <<world, supply, ordered, at, per_document, all_signatures_checked,
                 genesis_anchored, disclosed>>

\* The events up to an attestation are disclosed; the command line takes them
\* for a single document only (main.rs, boundary_verify).
Disclose(k, events) ==
  /\ Len(ordered) = 1
  /\ per_document[k].valid
  /\ disclosed = NoValue
  /\ disclosed' = [k |-> k, events |-> events,
                   failure |-> VerifyDisclosedActivityTrail(ordered[k], events)]
  /\ UNCHANGED <<phase, world, supply, walk>>

\* The exit code of boundary_verify (main.rs).  A single document is not walked
\* as a chain; what decides is its own verdict and the disclosed trail.
ExitOf(valid, checked) == CASE ~valid -> 1 [] valid /\ ~checked -> 3 [] valid /\ checked -> 0

BoundaryVerify ==
  IF Len(docs) = 1
    THEN LET verdict == per_document[1]
         IN  ExitOf(verdict.valid /\ (disclosed # NoValue => disclosed.failure = NoValue),
                    verdict.signature_checked)
    ELSE ExitOf(result.valid, result.all_signatures_checked)

-----------------------------------------------------------------------------

Issuing ==
  \/ \E c \in Capsules : Attest(c)
  \/ \E i \in DOMAIN Versions : Rotate(i)
  \/ Revoke
  \/ FetchManifest
  \/ Collect

Supplying ==
  \/ \E c \in Capsules : \E i \in DOMAIN issued[c] : Take(c, i)
  \/ \E i \in DOMAIN docs : (\E e \in Edits : Edit(i, e)) \/ (\E j \in DOMAIN docs : Relink(i, j))
  \/ Submit

Walking ==
  \/ phase = "documents" /\ (VerifyDocument \/ BeginLinkage)
  \/ phase = "linkage" /\ (Link \/ Conclude)

Next ==
  \/ phase = "issue" /\ Issuing
  \/ phase = "supply" /\ Supplying
  \/ Walking
  \/ phase = "done" /\ \E k \in DOMAIN ordered, events \in Disclosures : Disclose(k, events)
  \/ phase = "done" /\ UNCHANGED vars

Spec == Init /\ [][Next]_vars
-----------------------------------------------------------------------------
(* Properties.                                                             *)

\* The document reads, in every field of its view, as one that was attested.
IsAttestation(d, c, n) == n \in DOMAIN issued[c] /\ View(d) = View(issued[c][n])

\* In a valid chain an anchored document vouches for every one before it,
\* unsigned ones too: they are the attestations of one capsule, each of them,
\* in their places, and from the first one on if the chain says so.
LinkPinsThePast ==
  result # NoValue /\ result.valid =>
    \A k \in DOMAIN ordered : per_document[k].trust_anchored =>
      LET lo == result.chain_span[1]
      IN  /\ result.genesis_anchored <=> lo = 1
          /\ \E c \in Capsules : \A j \in 1 .. k : IsAttestation(ordered[j], c, lo + j - 1)

\* main.rs, 696-704: exit code 0, with a manifest, says that every document was
\* attested by an issuer the manifest does not revoke, reads unchanged, and that
\* several are successive ones of one capsule: no signature is counted as
\* checked that the manifest did not vouch for.
ExitZeroIsEarned ==
  result # NoValue /\ docs # <<>> /\ BoundaryVerify = 0 /\ held # NoValue =>
    /\ ~held[DefaultAuthority].revoked
    /\ \E c \in Capsules : \E lo \in DOMAIN issued[c] :
         \A j \in DOMAIN ordered : IsAttestation(ordered[j], c, lo + j - 1)

\* The supply is attestations lo to hi of c, each once, in any order.
Contiguous(c, lo, hi) ==
  /\ Len(docs) = hi - lo + 1
  /\ {docs[i] : i \in DOMAIN docs} = {issued[c][n] : n \in lo .. hi}

\* boundary.rs, 488-492: unaltered attestations without a gap, of distinct
\* times and under keys the manifest held knows and does not revoke, pass in
\* whatever order they come, with all their signatures, and with their span.
GenuineChainAccepted ==
  result # NoValue /\ changes = 0 =>
    \A c \in Capsules : \A lo, hi \in DOMAIN issued[c] :
      /\ lo <= hi
      /\ Contiguous(c, lo, hi)
      /\ \A n \in lo + 1 .. hi : issued[c][n - 1].cutoff_ts < issued[c][n].cutoff_ts
      /\ held # NoValue =>
           /\ ~held[DefaultAuthority].revoked
           /\ \A n \in lo .. hi : issued[c][n].public_key \in PublishedKeys(held)
      => /\ result.valid
         /\ result.all_signatures_checked
         /\ result.chain_span = <<lo, hi>>
         /\ result.genesis_anchored <=> lo = 1
         /\ held # NoValue => \A k \in DOMAIN ordered : per_document[k].trust_anchored

\* boundary.rs, 674-677: a trail that passes against an anchored attestation
\* is all that happened in its capsule up to then, in its order.
DisclosedTrailIsIssued ==
  disclosed # NoValue =>
    LET k == disclosed.k
    IN  disclosed.failure = NoValue /\ k \in DOMAIN per_document /\ per_document[k].trust_anchored =>
          \E c \in Capsules : \E n \in DOMAIN issued[c] :
            /\ IsAttestation(ordered[k], c, n)
            /\ disclosed.events = Activity[c][n]
=============================================================================
