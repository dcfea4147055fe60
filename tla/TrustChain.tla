----------------------------- MODULE TrustChain -----------------------------
(***************************************************************************)
(* The trust-chain manifest and its lookups (trust_chain.rs).              *)
(*                                                                         *)
(* A manifest maps an authority to its record: the sequences of active and *)
(* of archived key versions, and whether the whole authority is revoked.   *)
(***************************************************************************)
EXTENDS Naturals, Sequences, Optional

KeyVersionRecord(version, key) == [signing_key_version |-> version, public_key |-> key]

AuthorityRecord(active, archived, revoked) ==
  [active_versions |-> active, archived_versions |-> archived, revoked |-> revoked]

\* iter().find(): the first record of a list with this version.
FirstOf(records, version) ==
  LET hits == {i \in DOMAIN records : records[i].signing_key_version = version}
  IN  IF hits = {} THEN NoValue
                   ELSE records[CHOOSE i \in hits : \A j \in hits : i <= j]

\* Mutant: a revoked authority is not told apart.
UnrevokedLookup(record, authority, status) ==
  [record |-> record, revoked |-> FALSE, status |-> status]

Lookup(record, authority, status) ==
  [record |-> record, revoked |-> authority.revoked, status |-> status]

\* Mutant: archived versions are forgotten.
FindActiveKey(manifest, authority_id, version) ==
  IF authority_id \notin DOMAIN manifest THEN NoValue
  ELSE LET active == FirstOf(manifest[authority_id].active_versions, version)
       IN  IF active = NoValue THEN NoValue ELSE Lookup(active, manifest[authority_id], "Active")

\* find_key: active versions first, then the archived ones, which are never removed.
FindKey(manifest, authority_id, version) ==
  IF authority_id \notin DOMAIN manifest THEN NoValue
  ELSE LET authority == manifest[authority_id]
           active    == FirstOf(authority.active_versions, version)
           archived  == FirstOf(authority.archived_versions, version)
       IN  IF active # NoValue THEN Lookup(active, authority, "Active")
           ELSE IF archived # NoValue THEN Lookup(archived, authority, "Archived")
           ELSE NoValue

\* Every key the manifest publishes, whatever its status.
PublishedKeys(manifest) ==
  UNION {LET r == manifest[a] IN
           {r.active_versions[i].public_key : i \in DOMAIN r.active_versions}
             \cup {r.archived_versions[i].public_key : i \in DOMAIN r.archived_versions}
         : a \in DOMAIN manifest}
=============================================================================
