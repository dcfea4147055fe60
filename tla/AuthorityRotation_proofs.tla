----------------------- MODULE AuthorityRotation_proofs ---------------------
(***************************************************************************)
(* Proofs about AuthorityRotation: a key the auditor resolves has standing *)
(* for the proof, and the keys of proofs outlive rotation, for any number  *)
(* of versions and rotations, wherever the manifest was fetched among them.*)
(***************************************************************************)
EXTENDS AuthorityRotation, Common_proofs, TLAPS

Active(m)   == m[Authority].active_versions
Archived(m) == m[Authority].archived_versions

\* The entries of a list, and their versions; each of another version.
Entries(list)    == {list[i] : i \in DOMAIN list}
VersionsOf(list) == {r.signing_key_version : r \in Entries(list)}

Distinct(list) ==
  \A i, j \in DOMAIN list : list[i].signing_key_version = list[j].signing_key_version => i = j

\* The shape of a manifest, the published one or a copy of it.
Shaped(m) ==
  /\ DOMAIN m = {Authority}
  /\ m[Authority] = AuthorityRecord(Active(m), Archived(m), m[Authority].revoked)
  /\ IsList(Active(m)) /\ IsList(Archived(m))
  /\ m[Authority].revoked \in BOOLEAN

\* An entry lists the key of its version.
Keyed(r) == r \in KeyVersionRecords /\ r.public_key = KeyOf(r.signing_key_version)

\* An archived entry says when it was archived, if it says so, truly.
Dated(r, times, precisely) ==
  /\ times[r.signing_key_version] \in Nat
  /\ r.archived_at \in {NoValue, Written(times[r.signing_key_version], precisely)}

\* A version is listed once, and either as active or as archived.
ListedOnce(m) ==
  /\ Distinct(Active(m)) /\ Distinct(Archived(m))
  /\ VersionsOf(Active(m)) \cap VersionsOf(Archived(m)) = {}

Kept(m, times, precisely) ==
  /\ Shaped(m)
  /\ ListedOnce(m)
  /\ \A r \in Entries(Active(m)) : Keyed(r)
  /\ \A r \in Entries(Archived(m)) : Keyed(r) /\ Dated(r, times, precisely)

\* The versions the manifest lists.
AllVersions(m) == VersionsOf(Active(m)) \cup VersionsOf(Archived(m))

-----------------------------------------------------------------------------
(* The inductive invariant.                                                *)

ClockInv ==
  /\ now \in Nat
  /\ precision \in {"second", "milli"} \X {"second", "milli"} /\ precision \in Precisions
  /\ since \in [Versions -> Nat \cup {NoValue}]

\* The published manifest: what is active was not archived, what was archived
\* is listed still, and a revocation shows.
ManifestInv ==
  /\ Kept(manifest, since, precision[2])
  /\ \A v \in VersionsOf(Active(manifest)) : since[v] = NoValue
  /\ \A v \in Versions : since[v] # NoValue => v \in AllVersions(manifest)
  /\ Record.revoked <=> revokedAt # NoValue

\* The proof is of a version the manifest has listed since.
ProofInv ==
  proof # NoValue =>
    /\ proof.at \in Nat /\ proof.at <= now
    /\ proof.timestamp = Written(proof.at, precision[1])
    /\ proof.version \in Versions
    /\ proof.version \in AllVersions(manifest)

\* The auditor's copy is of an earlier state of the manifest.
HeldInv ==
  held # NoValue =>
    /\ Kept(held, since, precision[2])
    /\ heldAt \in Nat /\ heldAt <= now
    /\ held[Authority].revoked => revokedAt # NoValue
    /\ revokedAt # NoValue /\ ~held[Authority].revoked => heldAt <= revokedAt
    /\ proof # NoValue /\ heldAt > proof.at => proof.version \in AllVersions(held)

VerdictInv ==
  verdict # NoValue =>
    /\ proof # NoValue /\ held # NoValue
    /\ verdict.resolution =
         WalkAuthorityChain(verdict.authority_id, proof.version, proof.timestamp, held)

Inv == ClockInv /\ ManifestInv /\ ProofInv /\ HeldInv /\ VerdictInv

-----------------------------------------------------------------------------
(* Times and manifests.                                                    *)

\* What is written is a time.
LEMMA WrittenIsATime ==
  ASSUME NEW t \in Nat, NEW precisely
  PROVE  Written(t, precisely) \in Times
<1>1. t \div 2 \in Nat /\ t % 2 \in {0, 1}
  OBVIOUS
<1>2. t % 2 = 0 \/ t % 2 = 1
  BY <1>1
<1> QED
  BY <1>1, <1>2 DEF Written, Times, NoFraction

\* A time that is not before another is not of an earlier second.
LEMMA SecondsAreMonotone ==
  ASSUME NEW s \in Nat, NEW t \in Nat, s <= t
  PROVE  s \div 2 <= t \div 2
OBVIOUS

\* Written to comparable precisions, a time is not later than one after it.
LEMMA EarlierIsNotLater ==
  ASSUME NEW s \in Nat, NEW t \in Nat, s < t,
         NEW p \in {"second", "milli"} \X {"second", "milli"}, p # <<"second", "milli">>
  PROVE  ~LaterThan(Written(s, p[1]), Written(t, p[2]))
<1>1. s \div 2 = t \div 2 => s % 2 = 0 /\ t % 2 = 1
  OBVIOUS
<1>2. s \div 2 <= t \div 2 /\ s \div 2 \in Nat /\ t \div 2 \in Nat /\ s % 2 \in {0, 1} /\ t % 2 \in {0, 1}
  BY SecondsAreMonotone
<1>3. p[1] = "milli" \/ (p[1] = "second" /\ p[2] = "second")
  <2>1. p = <<p[1], p[2]>> /\ p[1] \in {"second", "milli"} /\ p[2] \in {"second", "milli"}
    OBVIOUS
  <2>2. p[1] = "second" /\ p[2] = "milli" => p = <<"second", "milli">>
    BY <2>1, Zenon
  <2>3. p[1] \in {"second", "milli"} /\ p[2] \in {"second", "milli"}
    BY <2>1
  <2>4. ~(p[1] = "second" /\ p[2] = "milli")
    BY <2>2, Zenon
  <2> QED
    BY <2>3, <2>4
<1> QED
  BY <1>1, <1>2, <1>3 DEF LaterThan, Written, NoFraction

\* And, whatever the precisions, one that is not later is of no later second.
LEMMA NotLaterSecond ==
  ASSUME NEW s \in Nat, NEW t \in Nat, NEW p, NEW q, ~LaterThan(Written(s, p), Written(t, q))
  PROVE  s \div 2 <= t \div 2
<1>1. s \div 2 \in Nat /\ t \div 2 \in Nat
  OBVIOUS
<1>2. ~(Written(s, p).second > Written(t, q).second)
  BY DEF LaterThan
<1>3. Written(s, p).second = s \div 2 /\ Written(t, q).second = t \div 2
  BY DEF Written
<1> QED
  BY <1>1, <1>2, <1>3

\* A manifest stays as it should be as further versions are archived.
LEMMA KeptLater ==
  ASSUME NEW m, NEW s, NEW t, NEW p, Kept(m, s, p),
         \A v \in Versions : s[v] # NoValue => t[v] = s[v]
  PROVE  Kept(m, t, p)
<1>1. ASSUME NEW r \in Entries(Archived(m))
      PROVE  Dated(r, t, p)
  <2>1. Dated(r, s, p) /\ r.signing_key_version \in Versions
    BY <1>1 DEF Kept, Keyed, KeyVersionRecords
  <2> QED
    BY <2>1, NoValueAssumption DEF Dated
<1> QED
  BY <1>1 DEF Kept

-----------------------------------------------------------------------------
(* Lists of versions.                                                      *)

\* An entry of a version that is not in the list is appended.
LEMMA EntryAppended ==
  ASSUME NEW list, IsList(list), NEW e
  PROVE  LET new == Append(list, e)
         IN  /\ IsList(new)
             /\ Entries(new) = Entries(list) \cup {e}
             /\ Distinct(list) /\ e.signing_key_version \notin VersionsOf(list) => Distinct(new)
<1> DEFINE new == Append(list, e)
           n   == Len(list) + 1
<1>1. /\ IsList(new) /\ DOMAIN new = 1 .. n /\ new[n] = e
      /\ \A j \in DOMAIN list : new[j] = list[j]
  BY AppendedList
<1>2. DOMAIN new = DOMAIN list \cup {n} /\ n \notin DOMAIN list
  BY <1>1 DEF IsList
<1> HIDE DEF new, n
<1>3. Entries(new) = Entries(list) \cup {e}
  <2>1. e \in Entries(new) /\ Entries(list) \subseteq Entries(new)
    BY <1>1, <1>2 DEF Entries
  <2>2. Entries(new) \subseteq Entries(list) \cup {e}
    BY <1>1, <1>2 DEF Entries
  <2> QED
    BY <2>1, <2>2
<1>4. ASSUME Distinct(list), e.signing_key_version \notin VersionsOf(list)
      PROVE  Distinct(new)
  <2>1. \A j \in DOMAIN list : list[j].signing_key_version # e.signing_key_version
    BY <1>4 DEF VersionsOf, Entries
  <2> QED
    BY <1>1, <1>2, <1>4, <2>1 DEF Distinct
<1> QED
  BY <1>1, <1>3, <1>4 DEF new

\* One entry is taken out, and the ones behind it move up.
LEMMA EntryRemoved ==
  ASSUME NEW list, IsList(list), Distinct(list), NEW i \in DOMAIN list, NEW new,
         new = [k \in 1 .. Len(list) - 1 |-> list[IF k < i THEN k ELSE k + 1]]
  PROVE  /\ IsList(new) /\ Distinct(new)
         /\ Entries(new) \subseteq Entries(list)
         /\ VersionsOf(new) = VersionsOf(list) \ {list[i].signing_key_version}
<1> DEFINE n == Len(list) - 1
           Old(k) == IF k < i THEN k ELSE k + 1
<1>1. Len(list) \in Nat /\ DOMAIN list = 1 .. Len(list) /\ i \in 1 .. Len(list) /\ n \in Nat
  BY DEF IsList
<1>2. DOMAIN new = 1 .. n /\ Len(new) = n
  BY <1>1
<1>3. \A k \in DOMAIN new : Old(k) \in DOMAIN list /\ Old(k) # i /\ new[k] = list[Old(k)]
  BY <1>1, <1>2
<1>4. \A j \in DOMAIN list : j # i => \E k \in DOMAIN new : Old(k) = j
  <2> TAKE j \in DOMAIN list
  <2> HAVE j # i
  <2>1. CASE j < i
    BY <1>1, <1>2, <2>1
  <2>2. CASE j > i
    <3>1. j - 1 \in 1 .. n /\ Old(j - 1) = j
      BY <1>1, <2>2
    <3> QED
      BY <1>2, <3>1
  <2> QED
    BY <1>1, <2>1, <2>2
<1>5. \A k, l \in DOMAIN new : Old(k) = Old(l) => k = l
  BY <1>1, <1>2
<1>6. IsList(new)
  BY <1>1, <1>2 DEF IsList
<1> HIDE DEF Old
<1>7. Distinct(new)
  BY <1>3, <1>5 DEF Distinct
<1>8. Entries(new) \subseteq Entries(list)
  BY <1>3 DEF Entries
<1>9. VersionsOf(new) = VersionsOf(list) \ {list[i].signing_key_version}
  <2>1. ASSUME NEW v \in VersionsOf(new)
        PROVE  v \in VersionsOf(list) /\ v # list[i].signing_key_version
    BY <1>3, <2>1 DEF VersionsOf, Entries, Distinct
  <2>2. ASSUME NEW v \in VersionsOf(list), v # list[i].signing_key_version
        PROVE  v \in VersionsOf(new)
    <3>1. PICK j \in DOMAIN list : list[j].signing_key_version = v
      BY <2>2 DEF VersionsOf, Entries
    <3>2. PICK k \in DOMAIN new : Old(k) = j
      BY <1>4, <2>2, <3>1
    <3> QED
      BY <1>3, <3>1, <3>2 DEF VersionsOf, Entries
  <2> QED
    BY <2>1, <2>2
<1> QED
  BY <1>6, <1>7, <1>8, <1>9

\* A list's versions, as entries are added.
LEMMA VersionsJoin ==
  ASSUME NEW list, NEW new, NEW e, Entries(new) = Entries(list) \cup {e}
  PROVE  VersionsOf(new) = VersionsOf(list) \cup {e.signing_key_version}
BY DEF VersionsOf

-----------------------------------------------------------------------------
(* Manifests.                                                              *)

\* One field of an authority's record is replaced.
LEMMA RecordChanged ==
  ASSUME NEW active, NEW archived, NEW revoked, NEW r,
         r = AuthorityRecord(active, archived, revoked), NEW x
  PROVE  [r EXCEPT !.active_versions = x] = AuthorityRecord(x, archived, revoked)
BY DEF AuthorityRecord

\* It is marked revoked.
LEMMA RecordRevoked ==
  ASSUME NEW r, r = AuthorityRecord(r.active_versions, r.archived_versions, r.revoked),
         NEW w, w = [r EXCEPT !.revoked = TRUE]
  PROVE  /\ w.active_versions = r.active_versions /\ w.archived_versions = r.archived_versions
         /\ w.revoked = TRUE
         /\ w = AuthorityRecord(w.active_versions, w.archived_versions, w.revoked)
<1>1. DOMAIN r = {"active_versions", "archived_versions", "revoked"}
  BY DEF AuthorityRecord
<1>2. w = AuthorityRecord(w.active_versions, w.archived_versions, w.revoked)
  BY <1>1 DEF AuthorityRecord
<1> QED
  BY <1>1, <1>2

\* A version that was not listed is added.
Added(m, v) ==
  [m EXCEPT ![Authority] = [m[Authority] EXCEPT !.active_versions =
     Append(@, [signing_key_version |-> v, public_key |-> KeyOf(v), archived_at |-> NoValue])]]

\* It is listed then, once, as active, and nothing else changes.
LEMMA VersionAdded ==
  ASSUME NEW m, NEW s, NEW p, Kept(m, s, p), NEW v \in Versions, v \notin AllVersions(m)
  PROVE  /\ Kept(Added(m, v), s, p)
         /\ VersionsOf(Active(Added(m, v))) = VersionsOf(Active(m)) \cup {v}
         /\ Archived(Added(m, v)) = Archived(m)
         /\ Added(m, v)[Authority].revoked = m[Authority].revoked
<1> DEFINE n == Added(m, v)
           e == [signing_key_version |-> v, public_key |-> KeyOf(v), archived_at |-> NoValue]
           new == Append(Active(m), e)
<1>1. /\ DOMAIN m = {Authority} /\ IsList(Active(m)) /\ m[Authority].revoked \in BOOLEAN
      /\ IsList(Archived(m))
      /\ m[Authority] = AuthorityRecord(Active(m), Archived(m), m[Authority].revoked)
  BY DEF Kept, Shaped
<1>2. n = [m EXCEPT ![Authority] = [m[Authority] EXCEPT !.active_versions = new]]
  BY DEF Active, Added
<1> HIDE DEF n
<1>3. Keyed(e) /\ e.signing_key_version = v
  BY DEF Keyed, KeyVersionRecords
<1> HIDE DEF e
<1>4. /\ IsList(new) /\ Entries(new) = Entries(Active(m)) \cup {e}
      /\ Distinct(Active(m)) /\ e.signing_key_version \notin VersionsOf(Active(m)) => Distinct(new)
  BY <1>1, EntryAppended
<1> HIDE DEF new
<1>5. DOMAIN n = {Authority} /\ n[Authority] = AuthorityRecord(new, Archived(m), m[Authority].revoked)
  <2>1. [m[Authority] EXCEPT !.active_versions = new]
          = AuthorityRecord(new, Archived(m), m[Authority].revoked)
    BY <1>1, RecordChanged
  <2> QED
    BY <1>1, <1>2, <2>1
<1>6. Active(n) = new /\ Archived(n) = Archived(m) /\ n[Authority].revoked = m[Authority].revoked
  BY <1>5 DEF AuthorityRecord, Active, Archived
<1>7. VersionsOf(new) = VersionsOf(Active(m)) \cup {v}
  BY <1>3, <1>4, VersionsJoin
<1>8. Shaped(n)
  BY <1>1, <1>4, <1>5, <1>6 DEF Shaped
<1>9. ListedOnce(n)
  BY <1>3, <1>4, <1>6, <1>7 DEF Kept, ListedOnce, AllVersions
<1>10. Kept(n, s, p)
  BY <1>3, <1>4, <1>6, <1>8, <1>9 DEF Kept
<1> QED
  BY <1>6, <1>7, <1>10 DEF n

\* An active version is archived.
Moved(m, i, at) ==
  [m EXCEPT ![Authority] = [m[Authority] EXCEPT
     !.active_versions   = [k \in 1 .. Len(@) - 1 |-> Active(m)[IF k < i THEN k ELSE k + 1]],
     !.archived_versions = Append(@, [Active(m)[i] EXCEPT !.archived_at = at])]]

\* It is archived then, and no longer active; the versions listed are the same.
LEMMA VersionArchived ==
  ASSUME NEW m, NEW s, NEW p, Kept(m, s, p), NEW i \in DOMAIN Active(m), NEW t \in Nat,
         NEW at \in {NoValue, Written(t, p)}, s[Active(m)[i].signing_key_version] = t
  PROVE  /\ Kept(Moved(m, i, at), s, p)
         /\ VersionsOf(Active(Moved(m, i, at))) \subseteq VersionsOf(Active(m))
         /\ Active(m)[i].signing_key_version \notin VersionsOf(Active(Moved(m, i, at)))
         /\ AllVersions(Moved(m, i, at)) = AllVersions(m)
         /\ Moved(m, i, at)[Authority].revoked = m[Authority].revoked
<1> DEFINE n == Moved(m, i, at)
           r == Active(m)[i]
           e == [r EXCEPT !.archived_at = at]
           v == r.signing_key_version
           active == [k \in 1 .. Len(Active(m)) - 1 |-> Active(m)[IF k < i THEN k ELSE k + 1]]
           archived == Append(Archived(m), e)
<1>1. /\ DOMAIN m = {Authority} /\ IsList(Active(m)) /\ m[Authority].revoked \in BOOLEAN
      /\ IsList(Archived(m))
      /\ m[Authority] = AuthorityRecord(Active(m), Archived(m), m[Authority].revoked)
  BY DEF Kept, Shaped
<1>2. n = [m EXCEPT ![Authority] = [m[Authority] EXCEPT !.active_versions = active,
                                                        !.archived_versions = archived]]
  BY DEF Active, Archived, Moved
<1> HIDE DEF n
<1>3. r \in Entries(Active(m)) /\ Keyed(r) /\ v \in VersionsOf(Active(m))
  BY DEF Entries, VersionsOf, Kept
<1>4. Keyed(e) /\ e.signing_key_version = v /\ e.archived_at = at
  <2>1. at \in {NoValue} \cup Times
    BY WrittenIsATime
  <2>2. e = [signing_key_version |-> v, public_key |-> r.public_key, archived_at |-> at]
    BY <1>3 DEF Keyed, KeyVersionRecords
  <2> QED
    BY <1>3, <2>1, <2>2 DEF Keyed, KeyVersionRecords
<1>5. Dated(e, s, p)
  BY <1>4 DEF Dated
<1> HIDE DEF e
<1>6. /\ IsList(active) /\ Distinct(active) /\ Entries(active) \subseteq Entries(Active(m))
      /\ VersionsOf(active) = VersionsOf(Active(m)) \ {v}
  <2>1. Distinct(Active(m))
    BY DEF Kept, ListedOnce
  <2> QED
    BY <1>1, <2>1, EntryRemoved
<1>7. /\ IsList(archived) /\ Entries(archived) = Entries(Archived(m)) \cup {e}
      /\ Distinct(Archived(m)) /\ e.signing_key_version \notin VersionsOf(Archived(m)) => Distinct(archived)
  BY <1>1, EntryAppended
<1> HIDE DEF active, archived, r
<1>8. /\ DOMAIN n = {Authority}
      /\ n[Authority] = AuthorityRecord(active, archived, m[Authority].revoked)
  BY <1>1, <1>2 DEF AuthorityRecord
<1>9. Active(n) = active /\ Archived(n) = archived /\ n[Authority].revoked = m[Authority].revoked
  BY <1>8 DEF AuthorityRecord, Active, Archived
<1>10. VersionsOf(archived) = VersionsOf(Archived(m)) \cup {v}
  BY <1>4, <1>7, VersionsJoin
<1>11. Shaped(n)
  BY <1>1, <1>6, <1>7, <1>8, <1>9 DEF Shaped
<1>12. ListedOnce(n)
  BY <1>3, <1>4, <1>6, <1>7, <1>9, <1>10 DEF Kept, ListedOnce
<1>13. Kept(n, s, p)
  BY <1>4, <1>5, <1>6, <1>7, <1>9, <1>11, <1>12 DEF Kept
<1>14. /\ VersionsOf(Active(n)) = VersionsOf(Active(m)) \ {v}
       /\ VersionsOf(Archived(n)) = VersionsOf(Archived(m)) \cup {v}
       /\ v \in VersionsOf(Active(m))
  BY <1>3, <1>6, <1>9, <1>10
<1>15. AllVersions(n) = AllVersions(m)
  BY <1>14 DEF AllVersions
<1>16. v = Active(m)[i].signing_key_version
  BY DEF r
<1> QED
  BY <1>9, <1>13, <1>14, <1>15, <1>16 DEF n

\* A manifest is revoked.
LEMMA ManifestRevoked ==
  ASSUME NEW m, NEW s, NEW p, Kept(m, s, p), NEW n,
         n = [m EXCEPT ![Authority] = [m[Authority] EXCEPT !.revoked = TRUE]]
  PROVE  /\ Kept(n, s, p) /\ n[Authority].revoked
         /\ Active(n) = Active(m) /\ Archived(n) = Archived(m)
<1>1. /\ DOMAIN m = {Authority}
      /\ m[Authority] = AuthorityRecord(Active(m), Archived(m), m[Authority].revoked)
  BY DEF Kept, Shaped
<1>2. DOMAIN n = {Authority} /\ n[Authority] = [m[Authority] EXCEPT !.revoked = TRUE]
  BY <1>1
<1>3. /\ n[Authority].revoked = TRUE /\ Active(n) = Active(m) /\ Archived(n) = Archived(m)
      /\ n[Authority] = AuthorityRecord(Active(n), Archived(n), n[Authority].revoked)
  BY <1>1, <1>2, RecordRevoked, Zenon DEF Active, Archived
<1> QED
  BY <1>2, <1>3 DEF Kept, Shaped, ListedOnce

-----------------------------------------------------------------------------
(* The steps.                                                              *)

\* At the start nothing is listed.
LEMMA InitInv ==
  ASSUME Init
  PROVE  Inv
<1>1. Active(manifest) = <<>> /\ Archived(manifest) = <<>> /\ manifest[Authority].revoked = FALSE
      /\ DOMAIN manifest = {Authority}
      /\ manifest[Authority] = AuthorityRecord(<<>>, <<>>, FALSE)
  BY DEF Init, AuthorityRecord, Active, Archived
<1>2. Entries(<<>>) = {} /\ VersionsOf(<<>>) = {} /\ Distinct(<<>>) /\ IsList(<<>>)
  BY EmptyIsList DEF Entries, VersionsOf, Distinct
<1>3. Kept(manifest, since, precision[2])
  BY <1>1, <1>2 DEF Kept, Shaped, ListedOnce
<1>4. ClockInv
  BY PrecisionsAssumption DEF Init, ClockInv
<1>5. ManifestInv
  BY <1>1, <1>2, <1>3 DEF Init, ManifestInv, Record
<1> QED
  BY <1>4, <1>5 DEF Init, Inv, ProofInv, HeldInv, VerdictInv

\* The version that is added is of the lists' own: it was not listed before.
LEMMA NotListed ==
  ASSUME Inv, NEW v \in Versions, v \notin Listed
  PROVE  v \notin AllVersions(manifest) /\ since[v] = NoValue
<1>1. v \notin VersionsOf(Active(manifest)) /\ since[v] = NoValue
  BY DEF Listed, Record, VersionsOf, Entries, Active
<1>2. ASSUME v \in VersionsOf(Archived(manifest))
      PROVE  FALSE
  <2>1. PICK r \in Entries(Archived(manifest)) : r.signing_key_version = v
    BY <1>2 DEF VersionsOf
  <2>2. since[v] \in Nat
    BY <2>1 DEF Inv, ManifestInv, Kept, Dated
  <2> QED
    BY <1>1, <2>2, NoValueAssumption
<1> QED
  BY <1>1, <1>2 DEF AllVersions

\* What the walk answers is of the proof and the copy, and those stay.
LEMMA WalkStep ==
  ASSUME Inv, Walk
  PROVE  Inv'
<1>1. UNCHANGED <<precision, now, manifest, since, revokedAt, held, heldAt, proof>>
  BY DEF Walk
<1>2. VerdictInv'
  BY <1>1 DEF Walk, VerdictInv
<1> QED
  BY <1>1, <1>2 DEF Inv, ClockInv, ManifestInv, ProofInv, HeldInv, Record

\* Before the walk there is no verdict to keep.
LEMMA NoVerdict ==
  ASSUME verdict = NoValue, Proceed, ~Walk
  PROVE  VerdictInv'
BY DEF Proceed, Tick, AddVersion, Issue, ArchiveVersion, Revoke, FetchManifest, VerdictInv

\* Time passes.
LEMMA TickStep ==
  ASSUME Inv, Tick
  PROVE  ClockInv' /\ ManifestInv' /\ ProofInv' /\ HeldInv'
<1>1. UNCHANGED <<precision, manifest, since, revokedAt, held, heldAt, proof>> /\ now' = now + 1
  BY DEF Tick
<1>2. now \in Nat /\ now' \in Nat /\ now <= now'
  BY <1>1 DEF Inv, ClockInv
<1>3. ClockInv' /\ ManifestInv'
  BY <1>1, <1>2 DEF Inv, ClockInv, ManifestInv, Record
<1>4. ProofInv'
  BY <1>1, <1>2 DEF Inv, ProofInv
<1>5. HeldInv'
  BY <1>1, <1>2 DEF Inv, HeldInv
<1> QED
  BY <1>3, <1>4, <1>5

\* A proof is of a version that is listed, and of no time before the copy's.
LEMMA IssueStep ==
  ASSUME Inv, NEW v \in Versions, Issue(v)
  PROVE  ClockInv' /\ ManifestInv' /\ ProofInv' /\ HeldInv'
<1>1. UNCHANGED <<precision, now, manifest, since, revokedAt, held, heldAt>>
      /\ proof' = [version |-> v, at |-> now, timestamp |-> Written(now, precision[1])]
      /\ v \in Listed
  BY DEF Issue
<1>2. now \in Nat
  BY DEF Inv, ClockInv
<1>3. v \in AllVersions(manifest)
  BY <1>1 DEF Inv, ManifestInv, Listed, Record, AllVersions, VersionsOf, Entries, Active
<1>4. ClockInv' /\ ManifestInv'
  BY <1>1 DEF Inv, ClockInv, ManifestInv, Record
<1>5. proof'.version = v /\ proof'.at = now /\ proof'.timestamp = Written(now, precision[1])
  BY <1>1
<1>6. ProofInv'
  BY <1>1, <1>2, <1>3, <1>5 DEF ProofInv
<1>7. HeldInv'
  BY <1>1, <1>2, <1>5 DEF Inv, HeldInv
<1> QED
  BY <1>4, <1>6, <1>7

\* The copy is as the manifest is.
LEMMA FetchStep ==
  ASSUME Inv, FetchManifest
  PROVE  ClockInv' /\ ManifestInv' /\ ProofInv' /\ HeldInv'
<1>1. UNCHANGED <<precision, now, manifest, since, revokedAt, proof>>
      /\ held' = manifest /\ heldAt' = now
  BY DEF FetchManifest
<1>2. ClockInv' /\ ManifestInv' /\ ProofInv'
  BY <1>1 DEF Inv, ClockInv, ManifestInv, ProofInv, Record
<1>3. HeldInv'
  BY <1>1 DEF Inv, ClockInv, ManifestInv, ProofInv, HeldInv, Record
<1> QED
  BY <1>2, <1>3

\* A version is added: the copy, the proof and the archive know nothing of it.
LEMMA AddStep ==
  ASSUME Inv, NEW v \in Versions, AddVersion(v)
  PROVE  ClockInv' /\ ManifestInv' /\ ProofInv' /\ HeldInv'
<1>1. /\ UNCHANGED <<precision, now, since, revokedAt, held, heldAt, proof>>
      /\ v \notin AllVersions(manifest) /\ since[v] = NoValue
  BY NotListed DEF AddVersion
<1>2. /\ Kept(manifest', since, precision[2])
      /\ VersionsOf(Active(manifest')) = VersionsOf(Active(manifest)) \cup {v}
      /\ Archived(manifest') = Archived(manifest)
      /\ manifest'[Authority].revoked = manifest[Authority].revoked
  <2>1. manifest' = Added(manifest, v)
    BY DEF AddVersion, Publish, Record, Added
  <2>2. Kept(manifest, since, precision[2])
    BY DEF Inv, ManifestInv
  <2> QED
    BY <1>1, <2>1, <2>2, VersionAdded
<1>3. AllVersions(manifest) \subseteq AllVersions(manifest')
  BY <1>2 DEF AllVersions
<1>4. ManifestInv'
  BY <1>1, <1>2, <1>3 DEF Inv, ManifestInv, Record
<1>5. ClockInv' /\ HeldInv'
  BY <1>1 DEF Inv, ClockInv, HeldInv
<1>6. ProofInv'
  BY <1>1, <1>3 DEF Inv, ProofInv
<1> QED
  BY <1>4, <1>5, <1>6

\* A version is archived: it is listed still, and what was archived before it,
\* in the copy too, is dated as it was.
LEMMA ArchiveStep ==
  ASSUME Inv, NEW i \in DOMAIN Record.active_versions, ArchiveVersion(i)
  PROVE  ClockInv' /\ ManifestInv' /\ ProofInv' /\ HeldInv'
<1> DEFINE r == Active(manifest)[i]
           v == r.signing_key_version
<1>1. /\ UNCHANGED <<precision, now, revokedAt, held, heldAt, proof>>
      /\ since' = [since EXCEPT ![v] = now]
  BY DEF ArchiveVersion, Record, Active
<1>2. i \in DOMAIN Active(manifest)
  BY DEF Record, Active
<1>3. v \in VersionsOf(Active(manifest)) /\ v \in Versions
  BY <1>2 DEF Inv, ManifestInv, Kept, Keyed, KeyVersionRecords, VersionsOf, Entries
<1>4. now \in Nat /\ since \in [Versions -> Nat \cup {NoValue}] /\ since[v] = NoValue
  BY <1>3 DEF Inv, ClockInv, ManifestInv
<1>5. since' \in [Versions -> Nat \cup {NoValue}] /\ since'[v] = now
  BY <1>1, <1>3, <1>4
<1>6. \A w \in Versions : w # v => since'[w] = since[w]
  BY <1>1, <1>4
<1>7. \A w \in Versions : since[w] # NoValue => since'[w] = since[w]
  BY <1>4, <1>6
<1>8. Kept(manifest, since', precision[2])
  BY <1>7, KeptLater DEF Inv, ManifestInv
<1>9. held # NoValue => Kept(held, since', precision[2])
  BY <1>7, KeptLater DEF Inv, HeldInv
<1>10. PICK at \in {NoValue, Written(now, precision[2])} :
         manifest' = Moved(manifest, i, at)
  BY DEF ArchiveVersion, Publish, Record, Active, Moved
<1>11. /\ Kept(manifest', since', precision[2])
       /\ VersionsOf(Active(manifest')) \subseteq VersionsOf(Active(manifest))
       /\ v \notin VersionsOf(Active(manifest'))
       /\ AllVersions(manifest') = AllVersions(manifest)
       /\ manifest'[Authority].revoked = manifest[Authority].revoked
  BY <1>2, <1>4, <1>5, <1>8, <1>10, VersionArchived
<1> HIDE DEF r, v
<1>12. ManifestInv'
  <2>1. \A w \in VersionsOf(Active(manifest')) : since'[w] = NoValue
    <3> TAKE w \in VersionsOf(Active(manifest'))
    <3>1. w # v /\ since[w] = NoValue /\ w \in VersionsOf(Active(manifest))
      BY <1>11 DEF Inv, ManifestInv
    <3>2. w \in Versions
      BY <3>1 DEF Inv, ManifestInv, Kept, Keyed, KeyVersionRecords, VersionsOf
    <3> QED
      BY <1>6, <3>1, <3>2
  <2>2. \A w \in Versions : since'[w] # NoValue => w \in AllVersions(manifest')
    BY <1>3, <1>6, <1>11 DEF Inv, ManifestInv, AllVersions
  <2> QED
    BY <1>1, <1>11, <2>1, <2>2 DEF Inv, ManifestInv, Record
<1>13. ClockInv'
  BY <1>1, <1>5 DEF Inv, ClockInv
<1>14. ProofInv'
  BY <1>1, <1>11 DEF Inv, ProofInv
<1>15. HeldInv'
  BY <1>1, <1>9 DEF Inv, HeldInv
<1> QED
  BY <1>12, <1>13, <1>14, <1>15

\* The authority is revoked: a copy that does not say so is no younger.
LEMMA RevokeStep ==
  ASSUME Inv, Revoke
  PROVE  ClockInv' /\ ManifestInv' /\ ProofInv' /\ HeldInv'
<1>1. /\ UNCHANGED <<precision, now, since, held, heldAt, proof>>
      /\ revokedAt = NoValue /\ revokedAt' = now
  BY DEF Revoke
<1>2. now \in Nat /\ revokedAt' # NoValue
  BY <1>1, NoValueAssumption DEF Inv, ClockInv
<1>3. /\ Kept(manifest', since, precision[2])
      /\ manifest'[Authority].revoked
      /\ Active(manifest') = Active(manifest) /\ Archived(manifest') = Archived(manifest)
  <2>1. manifest' = [manifest EXCEPT ![Authority] = [manifest[Authority] EXCEPT !.revoked = TRUE]]
    BY DEF Revoke, Publish, Record
  <2>2. Kept(manifest, since, precision[2])
    BY DEF Inv, ManifestInv
  <2> QED
    BY <2>1, <2>2, ManifestRevoked, Zenon
<1>4. AllVersions(manifest') = AllVersions(manifest)
  BY <1>3 DEF AllVersions
<1>5. ManifestInv'
  BY <1>1, <1>2, <1>3, <1>4 DEF Inv, ManifestInv, Record
<1>6. ClockInv' /\ ProofInv'
  BY <1>1, <1>4 DEF Inv, ClockInv, ProofInv
<1>7. HeldInv'
  BY <1>1, <1>2 DEF Inv, HeldInv
<1> QED
  BY <1>5, <1>6, <1>7

\* Every step keeps the invariant.
LEMMA NextInv ==
  ASSUME Inv, [Next]_vars
  PROVE  Inv'
<1>1. CASE Walk
  BY <1>1, WalkStep
<1>2. CASE verdict = NoValue /\ Proceed /\ ~Walk
  <2>1. VerdictInv'
    BY <1>2, NoVerdict
  <2>2. ClockInv' /\ ManifestInv' /\ ProofInv' /\ HeldInv'
    BY <1>2, TickStep, AddStep, IssueStep, ArchiveStep, RevokeStep, FetchStep DEF Proceed
  <2> QED
    BY <2>1, <2>2 DEF Inv
<1>3. CASE UNCHANGED vars
  BY <1>3 DEF vars, Inv, ClockInv, ManifestInv, ProofInv, HeldInv, VerdictInv, Record
<1> QED
  BY <1>1, <1>2, <1>3 DEF Next

-----------------------------------------------------------------------------
(* The theorems.                                                           *)

\* The invariant is inductive.
THEOREM Invariance == Spec => []Inv
<1>1. Init => Inv
  BY InitInv
<1>2. Inv /\ [Next]_vars => Inv'
  BY NextInv
<1> QED
  BY <1>1, <1>2, PTL DEF Spec

\* What the copy the walk looks into answers with for a version, if anything.
LEMMA Answer ==
  ASSUME NEW m, NEW s, NEW p, Kept(m, s, p), NEW a, NEW v, FindKey(m, a, v) # NoValue
  PROVE  LET found == FindKey(m, a, v)
         IN  /\ a = Authority
             /\ found.revoked = m[Authority].revoked
             /\ Keyed(found.record) /\ found.record.signing_key_version = v
             /\ \/ found.status = "Active" /\ found.record \in Entries(Active(m))
                \/ found.status = "Archived" /\ found.record \in Entries(Archived(m))
<1> DEFINE found == FindKey(m, a, v)
<1>1. /\ a \in DOMAIN m => IsList(m[a].active_versions) /\ IsList(m[a].archived_versions)
      /\ DOMAIN m = {Authority}
  BY DEF Kept, Shaped, Active, Archived
<1>2. /\ a = Authority
      /\ found.revoked = m[Authority].revoked
      /\ found.record.signing_key_version = v
      /\ \/ /\ found.status = "Active"
            /\ \E i \in DOMAIN Active(m) : found.record = Active(m)[i]
         \/ /\ found.status = "Archived"
            /\ \E i \in DOMAIN Archived(m) : found.record = Archived(m)[i]
  BY <1>1, FindKeyIsAnEntry DEF Active, Archived
<1> HIDE DEF found
<1>3. \/ found.status = "Active" /\ found.record \in Entries(Active(m))
      \/ found.status = "Archived" /\ found.record \in Entries(Archived(m))
  BY <1>2 DEF Entries
<1>4. Keyed(found.record)
  BY <1>3 DEF Kept
<1> QED
  BY <1>2, <1>3, <1>4 DEF found

\* The walk resolves no key but one of the copy's, unrevoked and in its window.
LEMMA ResolvedByWalk ==
  ASSUME NEW a, NEW v, NEW t, NEW m, WalkAuthorityChain(a, v, t, m).failure = "none"
  PROVE  LET found == FindKey(m, a, v)
         IN  /\ found # NoValue /\ ~found.revoked /\ ~OutsideWindow(found, t)
             /\ WalkAuthorityChain(a, v, t, m).public_key = found.record.public_key
<1> DEFINE found == FindKey(m, a, v)
<1>1. CASE a = Blank
  BY <1>1 DEF WalkAuthorityChain, Refusal
<1>2. CASE a # Blank /\ found = NoValue
  BY <1>2 DEF WalkAuthorityChain, Refusal
<1>3. CASE a # Blank /\ found # NoValue
  <2>1. WalkAuthorityChain(a, v, t, m) = IF found.revoked \/ OutsideWindow(found, t)
               THEN Refusal("AuthorityNotActiveForTimestamp")
               ELSE Resolution(found)
    BY <1>3 DEF WalkAuthorityChain
  <2> HIDE DEF found
  <2>2. ~(found.revoked \/ OutsideWindow(found, t))
    BY <2>1 DEF Refusal
  <2> QED
    BY <1>3, <2>1, <2>2 DEF Resolution, found
<1> QED
  BY <1>1, <1>2, <1>3

\* An entry of the archive is the only one of its version, and it is not active.
LEMMA OneEntry ==
  ASSUME NEW m, NEW s, NEW p, Kept(m, s, p), NEW r \in Entries(Archived(m)), NEW q,
         q.signing_key_version = r.signing_key_version
  PROVE  /\ q \notin Entries(Active(m))
         /\ q \in Entries(Archived(m)) => q = r
<1>1. q \notin Entries(Active(m))
  BY DEF Kept, ListedOnce, VersionsOf
<1>2. q \in Entries(Archived(m)) => q = r
  BY DEF Kept, ListedOnce, Distinct, Entries
<1> QED
  BY <1>1, <1>2

\* A key the auditor resolves has standing for the proof: it is of the proof's
\* version and the authority asked for, from a copy no younger than a revocation,
\* and the proof is of no later second than a dated archiving (walk_authority_chain).
THEOREM ResolvedKeyHasStanding == Spec => []ResolvedHasStanding
<1>1. Inv => ResolvedHasStanding
  <2> SUFFICES ASSUME Inv, Resolved
               PROVE  ResolvedHasStanding
    BY DEF ResolvedHasStanding
  <2> DEFINE a == verdict.authority_id
             v == proof.version
             found == FindKey(held, a, v)
  <2>1. /\ proof # NoValue /\ held # NoValue
        /\ verdict.resolution = WalkAuthorityChain(a, v, proof.timestamp, held)
    BY DEF Inv, VerdictInv, Resolved
  <2>2. WalkAuthorityChain(a, v, proof.timestamp, held).failure = "none"
    BY <2>1 DEF Resolved
  <2>3. /\ found # NoValue /\ ~found.revoked /\ ~OutsideWindow(found, proof.timestamp)
        /\ verdict.resolution.public_key = found.record.public_key
    BY <2>1, <2>2, ResolvedByWalk
  <2>4. Kept(held, since, precision[2])
    BY <2>1 DEF Inv, HeldInv
  <2>5. /\ a = Authority
        /\ found.revoked = held[Authority].revoked
        /\ Keyed(found.record) /\ found.record.signing_key_version = v
        /\ \/ found.status = "Active" /\ found.record \in Entries(Active(held))
           \/ found.status = "Archived" /\ found.record \in Entries(Archived(held))
    BY <2>3, <2>4, Answer
  <2> HIDE DEF found
  <2>6. verdict.resolution.public_key = KeyOf(proof.version)
    BY <2>3, <2>5 DEF Keyed
  <2>7. revokedAt # NoValue => heldAt <= revokedAt
    BY <2>1, <2>3, <2>5 DEF Inv, HeldInv
  <2>8. ASSUME since[v] # NoValue, ArchivedWithDate(v)
        PROVE  proof.at \div 2 <= since[v] \div 2
    <3>1. PICK r \in Entries(Archived(held)) : r.signing_key_version = v /\ r.archived_at # NoValue
      BY <2>8 DEF ArchivedWithDate, Archived, Entries
    <3>2. found.record = r /\ found.status = "Archived"
      BY <2>4, <2>5, <3>1, OneEntry
    <3>3. since[v] \in Nat /\ r.archived_at = Written(since[v], precision[2])
      BY <2>4, <3>1 DEF Kept, Dated
    <3>4. /\ proof.timestamp = Written(proof.at, precision[1])
          /\ proof.at \in Nat
      BY <2>1 DEF Inv, ProofInv
    <3>5. ~LaterThan(Written(proof.at, precision[1]), Written(since[v], precision[2]))
      BY <2>3, <3>1, <3>2, <3>3, <3>4 DEF OutsideWindow
    <3> QED
      BY <3>3, <3>4, <3>5, NotLaterSecond
  <2> QED
    BY <2>5, <2>6, <2>7, <2>8 DEF ResolvedHasStanding
<1> QED
  BY <1>1, Invariance, PTL

\* The walk resolves what it finds unrevoked and in its window.
LEMMA WalkResolves ==
  ASSUME NEW a, NEW v, NEW t, NEW m, a # Blank, FindKey(m, a, v) # NoValue,
         ~FindKey(m, a, v).revoked, ~OutsideWindow(FindKey(m, a, v), t)
  PROVE  WalkAuthorityChain(a, v, t, m).failure = "none"
BY DEF WalkAuthorityChain, Resolution

\* A version that is listed is found.
LEMMA ListedIsFound ==
  ASSUME NEW m, NEW s, NEW p, Kept(m, s, p), NEW v, v \in AllVersions(m)
  PROVE  FindKey(m, Authority, v) # NoValue
<1>1. DOMAIN m = {Authority} /\ IsList(Active(m)) /\ IsList(Archived(m)) /\ m[Authority].revoked \in BOOLEAN
  BY DEF Kept, Shaped
<1>2. \A r \in Entries(Active(m)) \cup Entries(Archived(m)) : r \in KeyVersionRecords
  BY DEF Kept, Keyed
<1>3. ASSUME NEW list \in {Active(m), Archived(m)}, v \in VersionsOf(list)
      PROVE  FirstOf(list, v) # NoValue
  <2>1. PICK i \in DOMAIN list : list[i].signing_key_version = v
    BY <1>3 DEF VersionsOf, Entries
  <2>2. \A j \in DOMAIN list : list[j] # NoValue
    BY <1>2, <1>3, NoValueAssumption DEF Entries
  <2> QED
    BY <1>1, <1>3, <2>1, <2>2, FirstOfFinds
<1>4. ASSUME NEW list \in {Active(m), Archived(m)}, FirstOf(list, v) # NoValue, NEW status \in {"Active", "Archived"}
      PROVE  Lookup(FirstOf(list, v), m[Authority], status) # NoValue
  <2>1. FirstOf(list, v) \in KeyVersionRecords
    BY <1>1, <1>2, <1>4, FirstOfIsAnEntry DEF Entries
  <2>2. Lookup(FirstOf(list, v), m[Authority], status) \in KeyLookupResults
    BY <1>1, <2>1 DEF Lookup, KeyLookupResults
  <2> QED
    BY <2>2, NoValueAssumption
<1>5. FirstOf(Active(m), v) # NoValue \/ FirstOf(Archived(m), v) # NoValue
  BY <1>3 DEF AllVersions
<1>6. FindKey(m, Authority, v) =
        IF FirstOf(Active(m), v) # NoValue THEN Lookup(FirstOf(Active(m), v), m[Authority], "Active")
        ELSE IF FirstOf(Archived(m), v) # NoValue
          THEN Lookup(FirstOf(Archived(m), v), m[Authority], "Archived")
        ELSE NoValue
  BY <1>1 DEF FindKey, Active, Archived
<1> QED
  BY <1>4, <1>5, <1>6

\* A proof of a version that was active resolves to that version's key with every
\* copy fetched from then on, where the proofs do not write whole seconds and the
\* manifest fractions (KeysOutliveRotation; the run mixed_precision shows the rest).
THEOREM ProofsOutliveRotation ==
  ASSUME <<"second", "milli">> \notin Precisions
  PROVE  Spec => []KeysOutliveRotation
<1>1. Inv => KeysOutliveRotation
  <2> SUFFICES ASSUME Inv, verdict # NoValue, verdict.authority_id = Authority, IssuedWhileActive,
                      heldAt > proof.at, revokedAt = NoValue
               PROVE  Resolved
    BY DEF KeysOutliveRotation
  <2> DEFINE v == proof.version
             found == FindKey(held, Authority, v)
  <2>1. /\ proof # NoValue /\ held # NoValue
        /\ verdict.resolution = WalkAuthorityChain(Authority, v, proof.timestamp, held)
    BY DEF Inv, VerdictInv
  <2>2. Kept(held, since, precision[2]) /\ v \in AllVersions(held) /\ ~held[Authority].revoked
    BY <2>1 DEF Inv, HeldInv
  <2>3. found # NoValue
    BY <2>2, ListedIsFound
  <2>4. /\ found.revoked = held[Authority].revoked
        /\ found.record.signing_key_version = v
        /\ \/ found.status = "Active" /\ found.record \in Entries(Active(held))
           \/ found.status = "Archived" /\ found.record \in Entries(Archived(held))
    BY <2>2, <2>3, Answer
  <2> HIDE DEF found
  <2>5. ~OutsideWindow(found, proof.timestamp)
    <3> SUFFICES ASSUME found.status = "Archived", found.record.archived_at # NoValue
                 PROVE  ~LaterThan(proof.timestamp, found.record.archived_at)
      BY DEF OutsideWindow
    <3>1. Dated(found.record, since, precision[2])
      BY <2>2, <2>4 DEF Kept
    <3>2. since[v] \in Nat /\ found.record.archived_at = Written(since[v], precision[2])
      BY <2>4, <3>1 DEF Dated
    <3>3. proof.timestamp = Written(proof.at, precision[1]) /\ proof.at \in Nat
      BY <2>1 DEF Inv, ProofInv
    <3>4. proof.at < since[v]
      BY <3>2, NoValueAssumption DEF IssuedWhileActive
    <3>5. precision \in {"second", "milli"} \X {"second", "milli"} /\ precision # <<"second", "milli">>
      BY DEF Inv, ClockInv
    <3> QED
      BY <3>2, <3>3, <3>4, <3>5, EarlierIsNotLater
  <2>6. WalkAuthorityChain(Authority, v, proof.timestamp, held).failure = "none"
    BY <2>2, <2>3, <2>4, <2>5, WalkResolves, IdsAssumption DEF found
  <2> QED
    BY <2>1, <2>6 DEF Resolved
<1> QED
  BY <1>1, Invariance, PTL
=============================================================================
