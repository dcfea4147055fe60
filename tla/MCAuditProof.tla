---------------------------- MODULE MCAuditProof ----------------------------
(***************************************************************************)
(* Instances of AuditProofProperties for TLC.                              *)
(***************************************************************************)
EXTENDS AuditProofProperties, TLC

CONSTANTS
  C1, C2,                     \* capsules
  T1, T2,                     \* timestamps
  R1, R2,                     \* regions
  B1, B2, B3,                 \* receipt bodies
  G1, G2, G3,                 \* chain hashes of parents
  L1, L2, L3,                 \* lines of a customer's record
  H1, H2, H3,                 \* streamed chunks
  KNow, KOld, KGone, KForeign,\* signing keys: current, archived, of a revoked authority, no issuer's
  Plain, Other,               \* OtherFields as issued, and otherwise
  Wrong                       \* a hash that is not the hash of anything here

-----------------------------------------------------------------------------
(* Trails, profiles.                                                       *)

Start(region) == [event |-> "capsule_started", region |-> region]
Network == [event |-> "network_allowed"]

StreamedTrail ==
  <<Start(R1), Started, Chunk(0, H1), Chunk(1, H2), Chunk(2, H3),
    Completed(3, StreamRoot(<<H1, H2, H3>>)), Network>>
TwoStarts == <<Start(R1), Network, Start(R2)>>

Capsule(version, capsule, at, trail, key, key_version) ==
  [version |-> version, capsule |-> capsule, at |-> at, activity |-> trail,
   receipts |-> NoValue, parents |-> NoValue, record |-> NoValue, mode |-> "nanorix_only",
   authority |-> "authority-a", key_version |-> key_version, customer_authority |-> NoValue,
   key |-> key, legacy |-> FALSE]

Batched ==
  [Capsule("2.2", C1, T1, StreamedTrail, KNow, "2") EXCEPT
     !.receipts = <<B1, B2, B3>>, !.parents = <<G1, G2, G3>>, !.record = <<L1, L2, L3>>,
     !.customer_authority = "customer-hsm"]
Rotated ==
  [Capsule("2.1", C2, T2, TwoStarts, KOld, "v1") EXCEPT !.record = <<L1, L2, NoText>>]
ModeLess ==
  [Capsule("2.1", C1, T1, TwoStarts, KNow, "2") EXCEPT !.mode = NoValue, !.authority = NoValue]
Dual == [Capsule("2.2", C1, T1, TwoStarts, KNow, "2") EXCEPT !.mode = "dual_signature"]
DualUnsigned == [Dual EXCEPT !.capsule = C2, !.key = NoValue]
FirstEra ==
  [Capsule("1.0", C1, T1, TwoStarts, KNow, "2") EXCEPT !.receipts = <<B1, B2>>, !.legacy = TRUE,
     !.mode = NoValue]
FirstEraChild ==
  [Capsule("1.0", C2, T2, TwoStarts, KOld, "v1") EXCEPT !.parents = <<G1, G2>>, !.mode = NoValue]
SecondEra == Capsule("2.0", C1, T2, TwoStarts, KNow, "2")
Unsigned == [Capsule("2.2", C2, T1, TwoStarts, NoValue, "2") EXCEPT !.record = <<NoText>>]
Revoked == [Capsule("2.2", C2, T2, TwoStarts, KGone, "1") EXCEPT !.authority = "authority-b"]

MCAllProfiles ==
  {Batched, Rotated, ModeLess, Dual, DualUnsigned, FirstEra, FirstEraChild, SecondEra, Unsigned,
   Revoked}
MCShortProfiles == MCAllProfiles \ {Batched}

-----------------------------------------------------------------------------
(* Manifests, policies.                                                    *)

MCDefaultAuthority == "us-kms-nanorix-v1"

\* Two texts of one number, one of the number that stands for none, and, not here,
\* "v1", which does not parse.
MCParseI64 == "0" :> 0 @@ "1" :> 1 @@ "2" :> 2 @@ "02" :> 2

Manifest ==
  "authority-a" :> AuthorityRecord(<<KeyVersionRecord("2", KNow)>>,
                                   <<KeyVersionRecord("v1", KOld)>>, FALSE)
    @@ "authority-b" :> AuthorityRecord(<<KeyVersionRecord("1", KGone)>>, <<>>, TRUE)
    @@ MCDefaultAuthority :> AuthorityRecord(<<KeyVersionRecord("2", KNow)>>, <<>>, FALSE)

Asks(authority, region, record, manifest) ==
  [required_authority_id |-> authority, required_region |-> region,
   customer_activity |-> record, trust_chain |-> manifest]

MCAllPolicies ==
  {Asks(NoValue, NoValue, NoValue, NoValue),
   Asks("customer-hsm", NoValue, NoValue, NoValue),
   Asks(NoValue, R1, NoValue, NoValue),
   Asks(NoValue, NoValue, <<L1, L2, L3>>, NoValue),
   Asks(NoValue, NoValue, NoValue, Manifest),
   Asks(NoValue, R2, NoValue, Manifest),
   Asks("customer-hsm", R1, <<L1, L2, L3>>, Manifest),
   Asks(NoValue, NoValue, <<L1, L2>>, Manifest),
   Asks(NoValue, NoValue, <<L1, L2, L3, L3>>, Manifest)}

-----------------------------------------------------------------------------
(* Changes between issue and verification, field by field.                 *)

ChainOf(p) == IssueProof(p).chain
Receipt(capsule, index, body) ==
  [record_index |-> index, body |-> body, record_chain_hash |-> RecordHash(capsule, index, body)]
Parent(hash) == [parent_chain_hash |-> hash, attributed |-> FALSE]

Receipts(capsule, bodies) == [i \in DOMAIN bodies |-> Receipt(capsule, i - 1, bodies[i])]
RootOf(capsule, bodies) ==
  MerkleRoot([i \in DOMAIN bodies |-> RecordHash(capsule, i - 1, bodies[i])])
ReceiptSets ==
  {Receipts(C1, <<B1, B2, B3, B3>>), Receipts(C1, <<B1, B2>>), Receipts(C1, <<B2, B1, B3>>),
   Receipts(C2, <<B1, B2, B3>>), [Receipts(C1, <<B1, B2, B3>>) EXCEPT ![2].body = B3]}
ParentSets == {<<Parent(G1), Parent(G2), Parent(G3), Parent(G3)>>, <<Parent(G1), Parent(G2)>>}

MCAllEdits ==
  [cdp_version         |-> {NoValue, "1.0", "2.0", "2.1", "2.2", "3.0"},
   reserved_slot       |-> {TRUE},
   capsule_id          |-> {C2},
   activity            |-> {<<>>, <<Start(R2)>> \o StreamedTrail, <<Start(R2), Network>>,
                            [StreamedTrail EXCEPT ![4] = Chunk(1, H1)],
                            [StreamedTrail EXCEPT ![4] = Chunk(NoValue, H2)],
                            [StreamedTrail EXCEPT ![3] = Chunk(1, H2), ![4] = Chunk(0, H1)],
                            SubSeq(StreamedTrail, 1, 3) \o SubSeq(StreamedTrail, 5, 7)},
   signing_authority   |-> {NoValue, "customer-hsm"},
   authority_id        |-> {NoValue, "authority-a", "authority-b", "authority-c"},
   signing_key_version |-> {NoValue, "0", "02", "v1", "2"},
   attested_key_version |-> {"1", "2", "v1"},
   signing_mode        |-> {NoValue, "nanorix_only", "tee_attested"},
   signature_algorithm |-> {NoValue, "ML-DSA-65"},
   algorithm           |-> {NoValue, "ML-DSA-65"},
   body                |-> {Other},
   destroyed_at        |-> {NoValue, T1, T2},
   key_id_time         |-> {T2},
   chain               |-> {NoValue, ChainOf(Rotated), ChainOf(Batched),
                            SubSeq(ChainOf(Batched), 1, 7),
                            [ChainOf(Batched) EXCEPT ![2].subsystem = "eee_memory"],
                            [ChainOf(ModeLess) EXCEPT ![2].subsystem = "eee_memory",
                                                      ![2].chain_hash = Wrong]},
   final_hash          |-> {NoValue, ChainOf(Rotated)[ChainSteps].chain_hash},
   document_hash       |-> {NoValue, IssueProof(SecondEra).document_hash,
                            IssueProof(FirstEra).final_hash},
   record_receipts     |-> {NoValue, <<>>} \cup ReceiptSets
                             \cup {[Receipts(C1, <<B1, B2>>) EXCEPT
                                      ![2] = [Receipt(C1, 1 + IndexModulus, B2) EXCEPT
                                                !.record_chain_hash = RecordHash(C1, 1, B2)]]},
   record_receipts_merkle_root |->
     {NoValue, RootOf(C1, <<B1, B2>>), RootOf(C1, <<B1, B2, B3>>),
      RootOf(C1, <<B1, B2, B3, B3>>)},
   parent_proof_hashes |-> {NoValue, <<>>} \cup ParentSets,
   parent_proofs_merkle_root |-> {NoValue, MerkleRoot(<<G1, G2>>), MerkleRoot(<<G1, G2, G3>>)},
   customer_declared_activity_root |->
     {NoValue, BadRoot, ComputeActivityRoot(<<L1, L2>>), ComputeActivityRoot(<<L1, L2, L3>>)},
   public_key          |-> {NoValue, KNow, KOld, KForeign}]

\* The edits of the run that checks fairness, where TLC evaluates ENABLED.
MCShortEdits == [f \in DOMAIN MCAllEdits \ {"activity"} |-> MCAllEdits[f]]
=============================================================================
