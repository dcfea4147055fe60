--------------------------- MODULE TransparencyLog ---------------------------
(***************************************************************************)
(* A publisher's log of AuditProofs, and an auditor who follows its        *)
(* checkpoints with consistency proofs and anchors proofs under them with  *)
(* inclusion proofs (checkpoint.rs).                                       *)
(*                                                                         *)
(* checkpoint.rs is the core that the two share; who publishes, and which  *)
(* proofs reach the auditor, is not in this repository.  The publisher may *)
(* be wrong: it may lose or replace a leaf it has published.               *)
(***************************************************************************)
EXTENDS Checkpoint, FiniteSets

CONSTANTS
  MaxSize,        \* bound: leaves of the log
  MaxRewrites,    \* bound: leaves lost or replaced
  DualSigned,     \* the AuditProofs that carry a pqc_signature
  OtherDigest     \* a digest of nothing here

ASSUME BoundsAssumption == MaxSize \in Nat \ {0} /\ MaxRewrites \in Nat
ASSUME DualSignedAssumption == DualSigned \subseteq 1 .. MaxSize + 1

VARIABLES
  log,        \* the publisher's leaves
  proofs,     \* history: the AuditProofs it has logged
  rewrites,   \* history: how many leaves it has lost or replaced
  head,       \* the auditor's checkpoint, with the leaves under it (history); before the
              \* first, one of the empty tree
  anchored    \* the last AuditProof the auditor anchored, NoValue before

logVars == <<log, proofs, rewrites, head, anchored>>

\* AuditProofs are numbered; number MaxSize + 1 is for a leaf that replaces another.
AuditProofs == 1 .. MaxSize + 1

\* The envelope an AuditProof was issued with.
Envelope(n) ==
  [signature |-> <<"signature", n>>, pqc_signature |-> IF n \in DualSigned THEN "pqc" ELSE NoValue]

\* The envelopes it may be shown with: also stripped, or filled, of a pqc_signature.
Shown(n) == {[Envelope(n) EXCEPT !.pqc_signature = s] : s \in {"pqc", NoValue}}

Leaf(n) == LeafHash(n, Envelope(n))

\* Checkpoint::assemble, without the fields nothing reads.
Assemble(leaves) ==
  [tree_size |-> Len(leaves), root_hash |-> TreeHead(leaves), leaves |-> leaves]

LogInit ==
  /\ log = <<>>
  /\ proofs = 0
  /\ rewrites = 0
  /\ head = Assemble(<<>>)
  /\ anchored = NoValue

-----------------------------------------------------------------------------
(* The publisher.                                                          *)

AppendLeaf ==
  /\ Len(log) < MaxSize
  /\ proofs < MaxSize
  /\ proofs' = proofs + 1
  /\ log' = Append(log, Leaf(proofs + 1))
  /\ UNCHANGED <<rewrites, head, anchored>>

Rewrite(leaves) ==
  /\ rewrites < MaxRewrites
  /\ rewrites' = rewrites + 1
  /\ log' = leaves
  /\ UNCHANGED <<proofs, head, anchored>>

ReplaceLeaf == \E i \in DOMAIN log : Rewrite([log EXCEPT ![i] = Leaf(MaxSize + 1)])
LoseLeaf ==
  \E i \in DOMAIN log : Rewrite(SubSeq(log, 1, i - 1) \o SubSeq(log, i + 1, Len(log)))

-----------------------------------------------------------------------------
(* The auditor.                                                            *)

\* A proof as it may arrive: whole, cut at either end, or with a digest too many.
Arrives(proof) ==
  {proof, Append(proof, OtherDigest), <<OtherDigest>> \o proof}
    \cup {SubSeq(proof, 1, Len(proof) - 1), SubSeq(proof, 2, Len(proof))}

\* Made from the log now, or from the leaves the auditor last saw, for any size or index.
ConsistencyProofs ==
  UNION {UNION {Arrives(ConsistencyProof(leaves, m)) : m \in 1 .. Len(leaves)}
         : leaves \in {log, head.leaves}}
InclusionProofs ==
  UNION {UNION {Arrives(InclusionProof(leaves, i)) : i \in 0 .. Len(leaves) - 1}
         : leaves \in {log, head.leaves}}

\* The first checkpoint is taken as it is.
FollowFirst ==
  /\ head.tree_size = 0
  /\ log # <<>>
  /\ head' = Assemble(log)
  /\ UNCHANGED <<log, proofs, rewrites, anchored>>

Follow ==
  /\ LET next == Assemble(log)
     IN  /\ next # head
         /\ \E proof \in ConsistencyProofs :
              VerifyConsistency(head.tree_size, next.tree_size,
                                head.root_hash, next.root_hash, proof)
         /\ head' = next
  /\ UNCHANGED <<log, proofs, rewrites, anchored>>

Anchor ==
  /\ LET arriving == InclusionProofs
     IN  \E n \in AuditProofs : \E envelope \in Shown(n) : \E index \in 0 .. MaxSize :
           /\ \E proof \in arriving :
                VerifyInclusion(LeafHash(n, envelope), index, head.tree_size, proof, head.root_hash)
           /\ anchored' = [proof |-> n, envelope |-> envelope, index |-> index]
  /\ UNCHANGED <<log, proofs, rewrites, head>>

LogNext ==
  AppendLeaf \/ ReplaceLeaf \/ LoseLeaf \/ FollowFirst \/ Follow \/ Anchor

LogSpec == LogInit /\ [][LogNext]_logVars

-----------------------------------------------------------------------------
(* Properties.                                                             *)

IsPrefixOf(short, long) ==
  Len(short) <= Len(long) /\ short = SubSeq(long, 1, Len(short))

\* Every leaf of every log has an inclusion proof that verifies, and every
\* earlier size a consistency proof that does: the recursive side of
\* checkpoint.rs and the iterative one agree at every size, power of two or not.
GenuineProofsVerify ==
  LET root == TreeHead(log)
  IN  /\ \A i \in 0 .. Len(log) - 1 :
           VerifyInclusion(log[i + 1], i, Len(log), InclusionProof(log, i), root)
      /\ \A m \in 1 .. Len(log) :
           VerifyConsistency(m, Len(log), TreeHead(SubSeq(log, 1, m)), root,
                             ConsistencyProof(log, m))

\* checkpoint.rs, 3-7: a followed checkpoint never commits to a history other
\* than the one the auditor followed before, whatever proof came with it.
HistoryOnlyGrows ==
  [][IsPrefixOf(head.leaves, head'.leaves)]_head

\* checkpoint.rs, 5-19: an anchored AuditProof is in the log at its index with
\* the very envelope it was shown with, under the checkpoint it was anchored
\* under and under every one followed since: a replaced, lost or stripped one
\* does not stay anchored unnoticed.
AnchorHolds ==
  anchored # NoValue =>
    /\ anchored.index < head.tree_size
    /\ head.leaves[anchored.index + 1] = Leaf(anchored.proof)
    /\ anchored.envelope = Envelope(anchored.proof)
=============================================================================
