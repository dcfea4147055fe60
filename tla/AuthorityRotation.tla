-------------------------- MODULE AuthorityRotation -------------------------
(***************************************************************************)
(* The keys of one customer authority as they are rotated, and an auditor  *)
(* who resolves them with walk_authority_chain (chain_walk.rs) against the *)
(* copy of the trust-chain manifest it holds.                              *)
(*                                                                         *)
(* The rotation service and the signers are not in this repository; they   *)
(* are modelled from the manifest's schema (trust_chain.rs): versions are  *)
(* added, overlap, move to the archive and are never removed.              *)
(*                                                                         *)
(* Time is counted in half seconds.  The walk compares RFC 3339 strings    *)
(* byte by byte, so a written time is kept as what the comparison sees:    *)
(* the second, and the fraction, or none.                                  *)
(***************************************************************************)
EXTENDS TrustChain, Integers

CONSTANTS
  Authority,       \* the authority's id
  OtherAuthority,  \* an id the manifest does not name
  Blank,           \* an id that is empty or white space
  Versions,        \* signing_key_version values
  MaxTime,         \* bound: half seconds the clock runs
  Precisions       \* pairs: how proofs, and how the manifest, write times

ASSUME MaxTimeAssumption == MaxTime \in Nat
ASSUME PrecisionsAssumption == Precisions \subseteq {"second", "milli"} \X {"second", "milli"}
ASSUME IdsAssumption == Authority \notin {OtherAuthority, Blank} /\ NoValue \notin Versions

VARIABLES
  precision,  \* <<of the proofs, of the manifest>>
  now,        \* the clock, in half seconds
  manifest,   \* the published manifest
  since,      \* history: version -> when it was archived, NoValue before
  revokedAt,  \* history: when the authority was revoked, NoValue before
  held,       \* the manifest the auditor holds, NoValue before it fetched one
  heldAt,     \* history: when the auditor fetched it
  proof,      \* a customer-attested AuditProof, NoValue before it is issued
  verdict     \* the walk's answer, NoValue before it

vars == <<precision, now, manifest, since, revokedAt, held, heldAt, proof, verdict>>

NoFraction == -1

\* How an instant is written.
Written(time, precisely) ==
  [second   |-> time \div 2,
   fraction |-> IF precisely = "milli" THEN 500 * (time % 2) ELSE NoFraction]

\* The order of the strings: in one second, "." sorts before "Z".
LaterThan(a, b) ==
  \/ a.second > b.second
  \/ a.second = b.second /\ a.fraction = NoFraction /\ b.fraction # NoFraction
  \/ a.second = b.second /\ NoFraction \notin {a.fraction, b.fraction} /\ a.fraction > b.fraction

KeyOf(version) == <<"key of", version>>

Times == [second : Nat, fraction : {NoFraction, 0, 500}]

\* What the manifest lists, and what a lookup answers with.
KeyVersionRecords ==
  [signing_key_version : Versions, public_key : {KeyOf(v) : v \in Versions},
   archived_at : {NoValue} \cup Times]

KeyLookupResults == [record : KeyVersionRecords, revoked : BOOLEAN, status : {"Active", "Archived"}]

ASSUME NoValueAssumption == NoValue \notin Nat \cup KeyVersionRecords \cup KeyLookupResults

Record == manifest[Authority]

Listed == {Record.active_versions[i].signing_key_version : i \in DOMAIN Record.active_versions}
            \cup {v \in Versions : since[v] # NoValue}

Publish(record) == manifest' = [manifest EXCEPT ![Authority] = record]

Init ==
  /\ precision \in Precisions
  /\ now = 0
  /\ manifest = [a \in {Authority} |-> AuthorityRecord(<<>>, <<>>, FALSE)]
  /\ since = [v \in Versions |-> NoValue]
  /\ revokedAt = NoValue
  /\ held = NoValue
  /\ heldAt = 0
  /\ proof = NoValue
  /\ verdict = NoValue

-----------------------------------------------------------------------------
(* The authority.                                                          *)

Tick ==
  /\ now < MaxTime
  /\ now' = now + 1
  /\ UNCHANGED <<precision, manifest, since, revokedAt, held, heldAt, proof, verdict>>

\* A version is published; the walk does not read since when it is effective.
AddVersion(v) ==
  /\ v \notin Listed
  /\ Publish([Record EXCEPT !.active_versions =
               Append(@, [signing_key_version |-> v, public_key |-> KeyOf(v),
                          archived_at |-> NoValue])])
  /\ UNCHANGED <<precision, now, since, revokedAt, held, heldAt, proof, verdict>>

\* A version moves to the archive, on older manifests without archived_at.
ArchiveVersion(i) ==
  \E at \in {NoValue, Written(now, precision[2])} :
    LET r == Record.active_versions[i]
        others(k) == Record.active_versions[IF k < i THEN k ELSE k + 1]
    IN  /\ Publish([Record EXCEPT
              !.active_versions   = [k \in 1 .. Len(@) - 1 |-> others(k)],
              !.archived_versions = Append(@, [r EXCEPT !.archived_at = at])])
        /\ since' = [since EXCEPT ![r.signing_key_version] = now]
        /\ UNCHANGED <<precision, now, revokedAt, held, heldAt, proof, verdict>>

Revoke ==
  /\ revokedAt = NoValue
  /\ revokedAt' = now
  /\ Publish([Record EXCEPT !.revoked = TRUE])
  /\ UNCHANGED <<precision, now, since, held, heldAt, proof, verdict>>

\* A signer issues a proof, one that has not heard of the archiving too.
Issue(v) ==
  /\ proof = NoValue
  /\ v \in Listed
  /\ proof' = [version |-> v, at |-> now, timestamp |-> Written(now, precision[1])]
  /\ UNCHANGED <<precision, now, manifest, since, revokedAt, held, heldAt, verdict>>

-----------------------------------------------------------------------------
(* The auditor.                                                            *)

FetchManifest ==
  /\ held = NoValue
  /\ held' = manifest
  /\ heldAt' = now
  /\ UNCHANGED <<precision, now, manifest, since, revokedAt, proof, verdict>>

Resolution(lookup) ==
  [failure |-> "none", public_key |-> lookup.record.public_key, status |-> lookup.status]
Refusal(failure) == [failure |-> failure, public_key |-> NoValue, status |-> NoValue]

\* Mutant: a proof of the second of the archiving is too late as well.
OutsideWindowOrAtItsEnd(lookup, timestamp) ==
  /\ lookup.status = "Archived"
  /\ lookup.record.archived_at # NoValue
  /\ ~LaterThan(lookup.record.archived_at, timestamp)

\* Mutant: an archived key is good for any time.
NeverOutsideWindow(lookup, timestamp) == FALSE

OutsideWindow(lookup, timestamp) ==
  /\ lookup.status = "Archived"
  /\ lookup.record.archived_at # NoValue
  /\ LaterThan(timestamp, lookup.record.archived_at)

WalkAuthorityChain(authority_id, version, timestamp, m) ==
  LET lookup == FindKey(m, authority_id, version)
  IN  CASE authority_id = Blank -> Refusal("AuthorityIdMalformed")
        [] authority_id # Blank /\ lookup = NoValue -> Refusal("AuthorityNotInTrustChainManifest")
        [] authority_id # Blank /\ lookup # NoValue ->
             IF lookup.revoked \/ OutsideWindow(lookup, timestamp)
               THEN Refusal("AuthorityNotActiveForTimestamp")
               ELSE Resolution(lookup)

\* The walk keeps no state, so one of them is as good as many.
Walk ==
  /\ proof # NoValue
  /\ held # NoValue
  /\ \E authority_id \in {Authority, OtherAuthority, Blank} :
       verdict' = [authority_id |-> authority_id,
                   resolution   |-> WalkAuthorityChain(authority_id, proof.version,
                                                       proof.timestamp, held)]
  /\ UNCHANGED <<precision, now, manifest, since, revokedAt, held, heldAt, proof>>

Proceed ==
  \/ Tick
  \/ \E v \in Versions : AddVersion(v) \/ Issue(v)
  \/ \E i \in DOMAIN Record.active_versions : ArchiveVersion(i)
  \/ Revoke
  \/ FetchManifest
  \/ Walk

Next ==
  \/ verdict = NoValue /\ Proceed
  \/ verdict # NoValue /\ UNCHANGED vars

Spec == Init /\ [][Next]_vars

-----------------------------------------------------------------------------
(* Properties.                                                             *)

Resolved == verdict # NoValue /\ verdict.resolution.failure = "none"

IssuedWhileActive == since[proof.version] = NoValue \/ proof.at < since[proof.version]

\* trust_chain.rs, 141-147: a proof its signer issued under an active version
\* resolves, to that version's key, with every manifest fetched from then on,
\* whatever was rotated since, unless the authority was revoked.
KeysOutliveRotation ==
  /\ verdict # NoValue
  /\ verdict.authority_id = Authority
  /\ IssuedWhileActive
  /\ heldAt > proof.at
  /\ revokedAt = NoValue
  => Resolved

\* The entry the auditor's copy archives a version under says when that was.
ArchivedWithDate(version) ==
  \E i \in DOMAIN held[Authority].archived_versions :
    LET r == held[Authority].archived_versions[i]
    IN  r.signing_key_version = version /\ r.archived_at # NoValue

\* chain_walk.rs, 215-222 and 243-251: a key the walk resolves has standing for
\* that proof.  It is the one of the proof's own version and of the authority
\* asked for, found in a copy no younger than a revocation, and the proof is not
\* of a later second than the archiving, if the copy dates that.
ResolvedHasStanding ==
  Resolved =>
    /\ verdict.authority_id = Authority
    /\ verdict.resolution.public_key = KeyOf(proof.version)
    /\ revokedAt # NoValue => heldAt <= revokedAt
    /\ since[proof.version] # NoValue /\ ArchivedWithDate(proof.version) =>
         proof.at \div 2 <= since[proof.version] \div 2
=============================================================================
