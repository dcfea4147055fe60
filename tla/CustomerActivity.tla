--------------------------- MODULE CustomerActivity ---------------------------
(***************************************************************************)
(* The customer-declared activity root (customer_activity.rs).             *)
(*                                                                         *)
(* A record is the non-empty sequence of the segments its bytes fall into  *)
(* when split at the newline; NoText is the empty segment.                 *)
(***************************************************************************)
EXTENDS Merkle

CONSTANTS NoText,  \* the empty segment of a record
          BadRoot  \* a root value no signer emits: not a string, empty, not 128 lowercase hex

GenesisHash == <<"genesis">>

\* The versions whose signed message is the canonical view.
CanonicalViewSignedVersions == {"2.1", "2.2"}

\* Only one trailing empty segment is dropped; nothing is trimmed.
SplitActivityLines(record) ==
  IF record[Len(record)] = NoText THEN SubSeq(record, 1, Len(record) - 1) ELSE record

LeafHashes(record) ==
  LET lines == SplitActivityLines(record)
  IN  [i \in DOMAIN lines |-> <<"line", lines[i]>>]

\* Mutant: the number of lines is not bound in.
UncountedActivityRoot(record) ==
  LET leaves == LeafHashes(record)
  IN  <<"activity", IF leaves = <<>> THEN GenesisHash ELSE MerkleRoot(leaves)>>

\* The tree over the lines, then the number of lines bound in.
ComputeActivityRoot(record) ==
  LET leaves == LeafHashes(record)
      merkle == IF leaves = <<>> THEN GenesisHash ELSE MerkleRoot(leaves)
  IN  <<"activity", merkle, Len(leaves)>>

\* The gate in front of every reader of the root.
GateDeclaredActivityRoot(root, version) ==
  CASE root = NoValue -> "none"
    [] root # NoValue /\ version \notin CanonicalViewSignedVersions -> "UnsignedFieldPopulated"
    [] root # NoValue /\ version \in CanonicalViewSignedVersions ->
         IF root = BadRoot THEN "FieldMalformed" ELSE "none"

VerifyCustomerDeclaredActivity(root, version, record) ==
  LET gate == GateDeclaredActivityRoot(root, version)
  IN  CASE gate # "none" -> gate
        [] gate = "none" /\ root = NoValue -> "RequiredFieldMissing"
        [] gate = "none" /\ root # NoValue ->
             IF root = ComputeActivityRoot(record) THEN "none"
             ELSE "CustomerDeclaredActivityRootMismatch"
=============================================================================
