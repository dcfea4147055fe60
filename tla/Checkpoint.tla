----------------------------- MODULE Checkpoint -----------------------------
(***************************************************************************)
(* The append-only Merkle tree of the transparency checkpoints and its two *)
(* proofs (checkpoint.rs): roots and proofs by the recursive definitions   *)
(* of RFC 6962, verification by the iterative ones of RFC 9162.            *)
(*                                                                         *)
(* A digest is the term it was computed from.  The leaf prefix 0x00 and    *)
(* the node prefix 0x01 are the first element of the term.                 *)
(***************************************************************************)
EXTENDS Naturals, Sequences, Optional

\* An envelope without a pqc_signature digests as one with an empty one.
DigestHex(envelope) == <<"envelope", envelope.signature, envelope.pqc_signature>>

\* Mutant: the envelope is reduced to the Ed25519 signature.
LeafHashWithoutPqc(final_hash, envelope) == <<"leaf", final_hash, envelope.signature>>

LeafHash(final_hash, envelope) == <<"leaf", final_hash, DigestHex(envelope)>>

NodeHash(left, right) == <<"node", left, right>>

-----------------------------------------------------------------------------
(* The recursive tree.  A slice of the leaves is the number width of the   *)
(* leaves in it and the number at of those before it; what the code        *)
(* computes of a slice is a function of the two.                           *)

PowerOfTwo[j \in Nat] == IF j = 0 THEN 1 ELSE 2 * PowerOfTwo[j - 1]

\* The largest power of two below n.
SplitPoint(n) == CHOOSE k \in {PowerOfTwo[j] : j \in 0 .. n} : k < n /\ n <= 2 * k

Slices(leaves, width) == 0 .. Len(leaves) - width

Roots(leaves) ==
  LET root[width \in 1 .. Len(leaves)] ==
        [at \in Slices(leaves, width) |->
           IF width = 1 THEN leaves[at + 1]
           ELSE LET k == SplitPoint(width) IN NodeHash(root[k][at], root[width - k][at + k])]
  IN  root

TreeHead(leaves) == IF leaves = <<>> THEN <<"empty">> ELSE Roots(leaves)[Len(leaves)][0]

Paths(leaves) ==
  LET root == Roots(leaves)
      path[width \in 1 .. Len(leaves)] ==
        [at \in Slices(leaves, width) |-> [m \in 0 .. width - 1 |->
           IF width = 1 THEN <<>>
           ELSE LET k == SplitPoint(width)
                IN  IF m < k THEN Append(path[k][at][m], root[width - k][at + k])
                             ELSE Append(path[width - k][at + k][m - k], root[k][at])]]
  IN  path

\* The audit path of leaf number index, counted from zero.
InclusionProof(leaves, index) ==
  IF index >= Len(leaves) THEN NoValue ELSE Paths(leaves)[Len(leaves)][0][index]

SubProofs(leaves) ==
  LET root == Roots(leaves)
      sub[width \in 1 .. Len(leaves)] ==
        [at \in Slices(leaves, width) |-> [m \in 1 .. width |-> [complete \in BOOLEAN |->
           IF m = width THEN IF complete THEN <<>> ELSE <<root[width][at]>>
           ELSE LET k == SplitPoint(width)
                IN  IF m <= k THEN Append(sub[k][at][m][complete], root[width - k][at + k])
                    ELSE Append(sub[width - k][at + k][m - k][FALSE], root[k][at])]]]
  IN  sub

ConsistencyProof(leaves, old_size) ==
  IF old_size \notin 1 .. Len(leaves) THEN NoValue
  ELSE SubProofs(leaves)[Len(leaves)][0][old_size][TRUE]

-----------------------------------------------------------------------------
(* The iterative verification.  A climb is where the loop stands: fnode    *)
(* and snode, the hashes computed so far, and whether the path ran past    *)
(* the root.                                                               *)

Even(n) == n % 2 = 0

\* How often fnode can be halved before it is odd or zero.
TrailingZeros(n) ==
  IF n = 0 THEN 0 ELSE CHOOSE z \in 0 .. n : n % PowerOfTwo[z] = 0 /\ ~Even(n \div PowerOfTwo[z])

\* The node is a right child, or the last node of its level.
TakesLeft(climb) == ~Even(climb.fnode) \/ climb.fnode = climb.snode

\* Mutant: a node without a sibling is not skipped.
NextLevelOnly(climb) == 1

\* One level up, and past the levels on which the last node has no sibling.
LevelsUp(climb) ==
  1 + IF TakesLeft(climb) /\ Even(climb.fnode) THEN TrailingZeros(climb.fnode) ELSE 0

\* One iteration of the loop over the proof; fr is the hash of the old tree.
Rise(climb, p) ==
  IF climb.snode = 0 THEN [climb EXCEPT !.overrun = TRUE]
  ELSE LET down == PowerOfTwo[LevelsUp(climb)]
       IN  [fnode   |-> climb.fnode \div down,
            snode   |-> climb.snode \div down,
            fr      |-> IF TakesLeft(climb) THEN NodeHash(p, climb.fr) ELSE climb.fr,
            sr      |-> IF TakesLeft(climb) THEN NodeHash(p, climb.sr) ELSE NodeHash(climb.sr, p),
            overrun |-> climb.overrun]

ReachesTop(climb) == ~climb.overrun /\ climb.snode = 0

\* The loop: a turn for every hash of the proof.
Climb(start, proof) ==
  LET climb[i \in 0 .. Len(proof)] == IF i = 0 THEN start ELSE Rise(climb[i - 1], proof[i])
  IN  climb[Len(proof)]

\* The loop of verify_inclusion has no fr; the one of verify_consistency is the same.
VerifyInclusion(leaf, index, tree_size, proof, root) ==
  /\ index < tree_size
  /\ LET start == [fnode |-> index, snode |-> tree_size - 1, fr |-> leaf, sr |-> leaf,
                   overrun |-> FALSE]
         top   == Climb(start, proof)
     IN  ReachesTop(top) /\ top.sr = root

IsPowerOfTwo(n) == n \in {PowerOfTwo[j] : j \in 0 .. n}

\* fnode and snode halved while fnode is odd.
Aligned(old_size, new_size) ==
  LET down == PowerOfTwo[TrailingZeros(old_size)]
  IN  [fnode |-> (old_size - 1) \div down, snode |-> (new_size - 1) \div down]

ClimbFrom(old_size, new_size, old_root, proof) ==
  LET seed == IF IsPowerOfTwo(old_size) THEN old_root ELSE proof[1]
      rest == IF IsPowerOfTwo(old_size) THEN proof ELSE Tail(proof)
      at   == Aligned(old_size, new_size)
  IN  Climb([fnode |-> at.fnode, snode |-> at.snode, fr |-> seed, sr |-> seed,
             overrun |-> FALSE], rest)

\* Mutant: only the new root is compared at the end.
VerifyNewRootOnly(old_size, new_size, old_root, new_root, proof) ==
  /\ old_size \in 1 .. new_size
  /\ IF old_size = new_size THEN proof = <<>> /\ old_root = new_root
     ELSE /\ IsPowerOfTwo(old_size) \/ proof # <<>>
          /\ LET top == ClimbFrom(old_size, new_size, old_root, proof)
             IN  ReachesTop(top) /\ top.sr = new_root

VerifyConsistency(old_size, new_size, old_root, new_root, proof) ==
  /\ old_size \in 1 .. new_size
  /\ IF old_size = new_size THEN proof = <<>> /\ old_root = new_root
     ELSE /\ IsPowerOfTwo(old_size) \/ proof # <<>>
          /\ LET top == ClimbFrom(old_size, new_size, old_root, proof)
             IN  ReachesTop(top) /\ top.fr = old_root /\ top.sr = new_root
=============================================================================
