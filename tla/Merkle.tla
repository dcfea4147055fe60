------------------------------- MODULE Merkle -------------------------------
(***************************************************************************)
(* The two Merkle trees of the verifier, over symbolic hashes.             *)
(*                                                                         *)
(* A hash is the term it was computed from, so two hashes are equal        *)
(* exactly when their inputs are: SHA-512 without collisions.  Every term  *)
(* is a tuple whose first element names the kind of input, which is how    *)
(* the domain separation of the code (the fixed number of NUL-separated    *)
(* segments, the RFC 6962 prefixes) shows in the model.                    *)
(***************************************************************************)
EXTENDS Naturals, Sequences, FiniteSets, Optional

-----------------------------------------------------------------------------
(* The receipt / parent / activity-record tree: NUL-separated pairs, the   *)
(* odd tail of a level is paired with itself.                              *)

PairHash(left, right) == <<"pair", left, right>>

\* One turn of the `while level.len() > 1` loop.
PairLevel(level) ==
  IF Len(level) <= 1 THEN level
  ELSE [i \in 1 .. (Len(level) + 1) \div 2 |->
          LET left  == level[2 * i - 1]
              right == IF 2 * i <= Len(level) THEN level[2 * i] ELSE left
          IN  PairHash(left, right)]

\* The levels of the tree, leaves first; above the root they stay at one node.
PairLevels(leaves) ==
  LET level[k \in 0 .. Len(leaves)] == IF k = 0 THEN leaves ELSE PairLevel(level[k - 1])
  IN  level

\* The number of turns the loop takes.
Height(leaves) == Cardinality({k \in 0 .. Len(leaves) : Len(PairLevels(leaves)[k]) > 1})

\* It takes fewer than there are leaves.
MerkleRoot(leaves) ==
  IF leaves = <<>> THEN NoValue ELSE PairLevels(leaves)[Len(leaves)][1]

-----------------------------------------------------------------------------
(* The RFC 6962 tree of a streamed response: leaves and inner nodes have   *)
(* their own prefix, the odd tail of a level is promoted unchanged.        *)

StreamLeaf(chunk) == <<"leaf", chunk>>
StreamNode(left, right) == <<"inner", left, right>>

StreamLevel(level) ==
  IF Len(level) <= 1 THEN level
  ELSE [i \in 1 .. (Len(level) + 1) \div 2 |->
          IF 2 * i <= Len(level)
            THEN StreamNode(level[2 * i - 1], level[2 * i])
            ELSE level[2 * i - 1]]

StreamLevels(leaves) ==
  LET level[k \in 0 .. Len(leaves)] ==
        IF k = 0 THEN [i \in DOMAIN leaves |-> StreamLeaf(leaves[i])]
                 ELSE StreamLevel(level[k - 1])
  IN  level

\* SHA-512 of the empty input, the root of a stream without chunks.
EmptyStreamRoot == <<"empty">>

StreamRoot(leaves) ==
  IF leaves = <<>> THEN EmptyStreamRoot
                   ELSE StreamLevels(leaves)[Len(leaves)][1]
=============================================================================
