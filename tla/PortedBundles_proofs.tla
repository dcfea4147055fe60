------------------------- MODULE PortedBundles_proofs -------------------------
(***************************************************************************)
(* What a reader of a receipt bundle may conclude, whatever its language,  *)
(* for every set of issued proofs, however long their batches are and      *)
(* however the bundle was altered.                                         *)
(***************************************************************************)
EXTENDS PortedBundles, Common_proofs, SequenceTheorems, TLAPS

-----------------------------------------------------------------------------
(* The path of a receipt.                                                  *)

\* The hashes on a path are computed from the leaf up.
LEMMA ClimbedUnfold ==
  ASSUME NEW leaf, NEW index, NEW path, IsList(path)
  PROVE  /\ Climbed(leaf, index, path)[0].hash = leaf
         /\ Climbed(leaf, index, path)[0].index = index
         /\ \A k \in 1 .. Len(path) :
              Climbed(leaf, index, path)[k] = Climb(Climbed(leaf, index, path)[k - 1], path[k])
<1> DEFINE N == Len(path)
           start == [hash |-> leaf, index |-> index]
           Entry(f, n) == IF n = 0 THEN start ELSE Climb(f[n - 1], path[n])
           Chain(f, m) == f = [n \in 0 .. m |-> Entry(f, n)]
           S == {m \in 0 .. N : \E f : Chain(f, m)}
<1>1. N \in Nat
  BY DEF IsList
<1>2. Climbed(leaf, index, path) = CHOOSE f : Chain(f, N)
  BY DEF Climbed
<1> HIDE DEF N, start, Entry
<1>3. ASSUME NEW f, NEW m, Chain(f, m), NEW n \in 0 .. m
      PROVE  f[n] = Entry(f, n)
  BY <1>3
<1>4. 0 \in S
  <2> DEFINE f == [n \in 0 .. 0 |-> start]
  <2>1. Chain(f, 0) /\ 0 \in 0 .. N
    BY <1>1 DEF Entry
  <2> QED
    BY <2>1, Zenon
<1>5. ASSUME NEW m \in 0 .. N - 1, m \in S PROVE m + 1 \in S
  <2>1. PICK f : Chain(f, m)
    BY <1>5
  <2> DEFINE g == [n \in 0 .. m + 1 |-> IF n = m + 1 THEN Climb(f[m], path[m + 1]) ELSE f[n]]
  <2>2. ASSUME NEW n \in 0 .. m + 1
        PROVE  g[n] = Entry(g, n)
    <3>1. \A l \in 0 .. m : f[l] = Entry(f, l) /\ g[l] = f[l]
      <4> HIDE DEF Chain
      <4>1. \A l \in 0 .. m : f[l] = Entry(f, l)
        BY <1>3, <2>1
      <4> QED
        BY <1>1, <4>1
    <3>2. CASE n = m + 1
      <4>1. g[n] = Climb(f[m], path[m + 1]) /\ n # 0 /\ n - 1 = m /\ m \in 0 .. m
        BY <1>1, <3>2
      <4> QED
        BY <3>1, <3>2, <4>1 DEF Entry
    <3>3. CASE n \in 0 .. m
      <4>1. n # 0 => n - 1 \in 0 .. m
        BY <1>1, <3>3
      <4> HIDE DEF g
      <4> QED
        BY <3>1, <3>3, <4>1 DEF Entry
    <3> QED
      BY <1>1, <3>2, <3>3
  <2>3. Chain(g, m + 1)
    BY <2>2
  <2>4. m + 1 \in 0 .. N
    BY <1>1
  <2> QED
    BY <2>3, <2>4, Zenon
<1>6. N \in S
  <2> HIDE DEF S
  <2>1. 0 .. N \subseteq S
    BY <1>1, <1>4, <1>5, BoundedInduction
  <2> QED
    BY <1>1, <2>1
<1>7. Chain(Climbed(leaf, index, path), N)
  BY <1>2, <1>6
<1> DEFINE f == Climbed(leaf, index, path)
<1> HIDE DEF Chain, f
<1>8. \A n \in 0 .. N : f[n] = Entry(f, n)
  BY <1>3, <1>7 DEF f
<1>9. 0 \in 0 .. N /\ \A n \in 1 .. N : n \in 0 .. N /\ n # 0
  BY <1>1
<1>10. f[0] = start /\ \A n \in 1 .. N : f[n] = Climb(f[n - 1], path[n])
  BY <1>8, <1>9 DEF Entry
<1>11. start.hash = leaf /\ start.index = index
  BY DEF start
<1> QED
  BY <1>10, <1>11 DEF f, N

\* A path that ends in a tree starts in it.
LEMMA PathStaysInTree ==
  ASSUME NEW S, \A left, right : PairHash(left, right) \in S => left \in S /\ right \in S,
         NEW leaf, NEW index, NEW path, IsList(path), RootOnPath(leaf, index, path) \in S
  PROVE  leaf \in S
<1> DEFINE N == Len(path)
           node == Climbed(leaf, index, path)
           T == {t \in 0 .. N : node[N - t].hash \in S}
<1>0. N \in Nat
  BY DEF IsList
<1>1. N \in Nat /\ node[0].hash = leaf
  BY <1>0, ClimbedUnfold
<1>2. \A k \in 1 .. N : node[k] = Climb(node[k - 1], path[k])
  BY ClimbedUnfold
<1>3. node[N].hash \in S
  BY DEF RootOnPath
<1> HIDE DEF N, node
<1>4. 0 \in T
  BY <1>1, <1>3
<1>5. ASSUME NEW t \in 0 .. N - 1, t \in T PROVE t + 1 \in T
  <2> DEFINE k == N - t
  <2>1. k \in 1 .. N /\ k - 1 = N - (t + 1) /\ t + 1 \in 0 .. N
    BY <1>1
  <2>2. node[k].hash \in S
    BY <1>5
  <2>3. node[k] = Climb(node[k - 1], path[k])
    BY <1>2, <2>1
  <2> HIDE DEF k
  <2>4. \/ node[k].hash = PairHash(node[k - 1].hash, path[k])
        \/ node[k].hash = PairHash(path[k], node[k - 1].hash)
    BY <2>3 DEF Climb
  <2>5. node[k - 1].hash \in S
    BY <2>2, <2>4
  <2> QED
    BY <2>1, <2>5
<1>6. 0 .. N \subseteq T
  <2> HIDE DEF T
  <2> QED
    BY <1>1, <1>4, <1>5, BoundedInduction
<1>7. N \in T
  BY <1>1, <1>6
<1> QED
  BY <1>1, <1>7

\* A hash that is no inner node and leads to the root of a tree, on whatever
\* path and from whatever position, is one of its leaves.
LEMMA PathStartsAtLeaf ==
  ASSUME NEW leaves, IsList(leaves), Len(leaves) # 0, NoInnerNode(leaves),
         NEW leaf, \A left, right : leaf # PairHash(left, right),
         NEW index, NEW path, IsList(path),
         RootOnPath(leaf, index, path) = MerkleRoot(leaves)
  PROVE  \E i \in DOMAIN leaves : leaf = leaves[i]
<1>1. PICK h \in Nat : /\ Tree(PairLevels(leaves), h) /\ PairLevels(leaves)[0] = leaves
                       /\ PairLevels(leaves)[h][1] = MerkleRoot(leaves)
  BY TreeOf
<1> DEFINE level == PairLevels(leaves)
           S == UNION {Members(level[k]) : k \in 0 .. h}
<1> HIDE DEF level
<1>2. MerkleRoot(leaves) \in S
  <2>1. h \in 0 .. h /\ IsList(level[h]) /\ Len(level[h]) = 1
    BY <1>1 DEF Tree, level
  <2>2. 1 \in DOMAIN level[h]
    BY <2>1 DEF IsList
  <2> QED
    BY <1>1, <2>1, <2>2 DEF Members, level
<1>3. ASSUME NEW k \in 1 .. h
      PROVE  /\ k - 1 \in 0 .. h
             /\ \A x \in Members(level[k]) : \E left, right \in Members(level[k - 1]) :
                  x = PairHash(left, right)
  <2>1. k - 1 \in 0 .. h - 1 /\ k - 1 \in 0 .. h /\ (k - 1) + 1 = k
    BY <1>1
  <2>2. IsList(level[k - 1]) /\ Len(level[k - 1]) > 1 /\ level[k] = PairLevel(level[k - 1])
    BY <1>1, <2>1 DEF Tree, level
  <2>3. \A i \in DOMAIN level[k] :
          /\ 2 * i - 1 \in DOMAIN level[k - 1]
          /\ 2 * i <= Len(level[k - 1]) => 2 * i \in DOMAIN level[k - 1]
          /\ level[k][i] = PairHash(level[k - 1][2 * i - 1],
               IF 2 * i <= Len(level[k - 1]) THEN level[k - 1][2 * i] ELSE level[k - 1][2 * i - 1])
    BY <2>2, PairsOfLevel
  <2>4. ASSUME NEW x \in Members(level[k])
        PROVE  \E left, right \in Members(level[k - 1]) : x = PairHash(left, right)
    <3>1. PICK i \in DOMAIN level[k] : x = level[k][i]
      BY DEF Members
    <3> DEFINE left == level[k - 1][2 * i - 1]
               right == IF 2 * i <= Len(level[k - 1]) THEN level[k - 1][2 * i] ELSE left
    <3>2. left \in Members(level[k - 1]) /\ right \in Members(level[k - 1])
      BY <2>3 DEF Members
    <3>3. x = PairHash(left, right)
      BY <2>3, <3>1
    <3> HIDE DEF left, right
    <3> QED
      BY <3>2, <3>3
  <2> QED
    BY <2>1, <2>4
<1>4. ASSUME NEW left, NEW right, PairHash(left, right) \in S
      PROVE  left \in S /\ right \in S
  <2>1. PICK k \in 0 .. h : PairHash(left, right) \in Members(level[k])
    BY <1>4
  <2>2. k # 0
    <3>1. level[0] = leaves
      BY <1>1 DEF level
    <3>2. PairHash(left, right) \notin Members(leaves)
      BY DEF NoInnerNode, Members
    <3> QED
      BY <2>1, <3>1, <3>2
  <2>3. k \in 1 .. h
    BY <2>2
  <2>4. PICK l, r \in Members(level[k - 1]) : PairHash(left, right) = PairHash(l, r)
    BY <1>3, <2>1, <2>3
  <2>5. l = left /\ r = right
    BY <2>4 DEF PairHash
  <2> QED
    BY <1>3, <2>3, <2>4, <2>5
<1>5. leaf \in S
  <2> HIDE DEF S
  <2> QED
    BY <1>2, <1>4, PathStaysInTree
<1>6. PICK k \in 0 .. h : leaf \in Members(level[k])
  BY <1>5
<1>7. k = 0
  <2>1. CASE k \in 1 .. h
    BY <1>3, <1>6, <2>1
  <2> QED
    BY <2>1
<1> QED
  BY <1>1, <1>6, <1>7 DEF Members, level

\* The positions of a receipt in the levels of its tree.
LEMMA PositionsUnfold ==
  ASSUME NEW leaves, Height(leaves) \in Nat, NEW index
  PROVE  /\ Positions(leaves, index)[0] = index
         /\ \A k \in 1 .. Height(leaves) :
              Positions(leaves, index)[k] = Positions(leaves, index)[k - 1] \div 2
<1> DEFINE N == Height(leaves)
           Entry(f, n) == IF n = 0 THEN index ELSE f[n - 1] \div 2
           Chain(f, m) == f = [n \in 0 .. m |-> Entry(f, n)]
           S == {m \in 0 .. N : \E f : Chain(f, m)}
<1>1. N \in Nat
  OBVIOUS
<1>2. Positions(leaves, index) = CHOOSE f : Chain(f, N)
  BY DEF Positions
<1> HIDE DEF N, Entry
<1>3. ASSUME NEW f, NEW m, Chain(f, m), NEW n \in 0 .. m
      PROVE  f[n] = Entry(f, n)
  BY <1>3
<1>4. 0 \in S
  <2> DEFINE f == [n \in 0 .. 0 |-> index]
  <2>1. Chain(f, 0) /\ 0 \in 0 .. N
    BY <1>1 DEF Entry
  <2> QED
    BY <2>1, Zenon
<1>5. ASSUME NEW m \in 0 .. N - 1, m \in S PROVE m + 1 \in S
  <2>1. PICK f : Chain(f, m)
    BY <1>5
  <2> DEFINE g == [n \in 0 .. m + 1 |-> IF n = m + 1 THEN f[m] \div 2 ELSE f[n]]
  <2>2. ASSUME NEW n \in 0 .. m + 1
        PROVE  g[n] = Entry(g, n)
    <3>1. \A l \in 0 .. m : f[l] = Entry(f, l) /\ g[l] = f[l]
      <4> HIDE DEF Chain
      <4>1. \A l \in 0 .. m : f[l] = Entry(f, l)
        BY <1>3, <2>1
      <4> QED
        BY <1>1, <4>1
    <3>2. CASE n = m + 1
      <4>1. g[n] = f[m] \div 2 /\ n # 0 /\ n - 1 = m /\ m \in 0 .. m
        BY <1>1, <3>2
      <4> QED
        BY <3>1, <3>2, <4>1 DEF Entry
    <3>3. CASE n \in 0 .. m
      <4>1. n # 0 => n - 1 \in 0 .. m
        BY <1>1, <3>3
      <4> HIDE DEF g
      <4> QED
        BY <3>1, <3>3, <4>1 DEF Entry
    <3> QED
      BY <1>1, <3>2, <3>3
  <2>3. Chain(g, m + 1)
    BY <2>2
  <2>4. m + 1 \in 0 .. N
    BY <1>1
  <2> QED
    BY <2>3, <2>4, Zenon
<1>6. N \in S
  <2> HIDE DEF S
  <2>1. 0 .. N \subseteq S
    BY <1>1, <1>4, <1>5, BoundedInduction
  <2> QED
    BY <1>1, <2>1
<1>7. Chain(Positions(leaves, index), N)
  BY <1>2, <1>6
<1> DEFINE f == Positions(leaves, index)
<1> HIDE DEF Chain, f
<1>8. \A n \in 0 .. N : f[n] = Entry(f, n)
  BY <1>3, <1>7 DEF f
<1>9. 0 \in 0 .. N /\ \A n \in 1 .. N : n \in 0 .. N /\ n # 0
  BY <1>1
<1>10. f[0] = index /\ \A n \in 1 .. N : f[n] = f[n - 1] \div 2
  BY <1>8, <1>9 DEF Entry
<1> QED
  BY <1>10 DEF f, N

\* One turn: from a node and its sibling to the node above them.
LEMMA ClimbsOneLevel ==
  ASSUME NEW level, IsList(level), Len(level) > 1, NEW at \in 0 .. Len(level) - 1,
         NEW node, node.hash = level[at + 1], node.index = at
  PROVE  LET up == Climb(node, Sibling(level, at))
         IN  /\ up.index = at \div 2
             /\ up.index \in 0 .. Len(PairLevel(level)) - 1
             /\ up.hash = PairLevel(level)[up.index + 1]
<1> DEFINE half == at \div 2
           n == Len(level)
           new == PairLevel(level)
           up == Climb(node, Sibling(level, at))
<1>1. /\ n \in Nat /\ at \in Nat /\ at + 1 <= n
      /\ half \in Nat /\ (at = 2 * half \/ at = 2 * half + 1)
  <2>1. n \in Nat /\ at \in Nat /\ at + 1 <= n
    BY DEF IsList
  <2> QED
    BY <2>1, Halves
<1>2. up.index = half
  BY DEF Climb
<1>3. /\ IsList(new)
      /\ \A i \in DOMAIN new :
           new[i] = PairHash(level[2 * i - 1],
                             IF 2 * i <= n THEN level[2 * i] ELSE level[2 * i - 1])
      /\ \A j \in DOMAIN level :
           \E i \in DOMAIN new : j = 2 * i - 1 \/ (j = 2 * i /\ 2 * i <= n)
  BY PairsOfLevel
<1> HIDE DEF half, new
<1>4. half + 1 \in DOMAIN new /\ half + 1 \in 1 .. Len(new)
  <2>1. at + 1 \in DOMAIN level
    BY <1>1 DEF IsList
  <2>2. PICK i \in DOMAIN new : at + 1 = 2 * i - 1 \/ at + 1 = 2 * i
    BY <1>3, <2>1
  <2>3. i \in Nat
    BY <1>3 DEF IsList
  <2>4. i = half + 1
    BY <1>1, <2>2, <2>3
  <2> QED
    BY <1>3, <2>2, <2>4 DEF IsList
<1>5. up.hash = new[half + 1]
  <2>1. new[half + 1] = PairHash(level[2 * half + 1],
                                 IF 2 * half + 2 <= n THEN level[2 * half + 2] ELSE level[2 * half + 1])
    <3>1. 2 * (half + 1) = 2 * half + 2 /\ 2 * (half + 1) - 1 = 2 * half + 1
      BY <1>1
    <3> QED
      BY <1>3, <1>4, <3>1
  <2>2. CASE at = 2 * half
    <3>1. at % 2 = 0 /\ at % 2 # 1
      BY <1>1, <2>2
    <3>2. up.hash = PairHash(level[at + 1], Sibling(level, at))
      BY <3>1 DEF Climb
    <3>3. Sibling(level, at) = level[IF at + 2 <= n THEN at + 2 ELSE at + 1]
      BY <3>1 DEF Sibling
    <3> QED
      BY <2>1, <2>2, <3>2, <3>3
  <2>3. CASE at = 2 * half + 1
    <3>1. at % 2 = 1 /\ at % 2 # 0
      BY <1>1, <2>3
    <3>2. up.hash = PairHash(level[at], level[at + 1])
      BY <3>1 DEF Climb, Sibling
    <3>3. 2 * half + 2 <= n /\ at + 1 = 2 * half + 2
      BY <1>1, <2>3
    <3> QED
      BY <2>1, <2>3, <3>2, <3>3
  <2> QED
    BY <1>1, <2>2, <2>3
<1>6. half \in 0 .. Len(new) - 1
  BY <1>1, <1>3, <1>4 DEF IsList
<1> QED
  BY <1>2, <1>5, <1>6 DEF half, new

\* The path an issuer writes leads from the receipt to the root.
LEMMA IssuedPathLeadsToRoot ==
  ASSUME NEW leaves, IsList(leaves), NEW index \in Nat, index < Len(leaves)
  PROVE  /\ IsList(InclusionPath(leaves, index))
         /\ RootOnPath(leaves[index + 1], index, InclusionPath(leaves, index)) = MerkleRoot(leaves)
<1>0. Len(leaves) # 0 /\ Len(leaves) \in Nat
  BY DEF IsList
<1>1. PICK h \in Nat : /\ Tree(PairLevels(leaves), h) /\ PairLevels(leaves)[0] = leaves
                       /\ PairLevels(leaves)[h][1] = MerkleRoot(leaves)
                       /\ Height(leaves) = h
  BY <1>0, TreeOf
<1> DEFINE level == PairLevels(leaves)
           at == Positions(leaves, index)
           path == InclusionPath(leaves, index)
           node == Climbed(leaves[index + 1], index, path)
           Good(k) == /\ at[k] \in 0 .. Len(level[k]) - 1
                      /\ node[k].hash = level[k][at[k] + 1]
                      /\ node[k].index = at[k]
           T == {k \in 0 .. h : Good(k)}
<1>2. path = [k \in 1 .. h |-> Sibling(level[k - 1], at[k - 1])]
  BY <1>1 DEF InclusionPath
<1>3. IsList(path) /\ Len(path) = h
  BY <1>2 DEF IsList
<1>4. at[0] = index /\ \A k \in 1 .. h : at[k] = at[k - 1] \div 2
  BY <1>1, PositionsUnfold
<1>5. /\ node[0].hash = leaves[index + 1] /\ node[0].index = index
      /\ \A k \in 1 .. h : node[k] = Climb(node[k - 1], path[k])
  BY <1>3, ClimbedUnfold
<1>6. \A k \in 1 .. h : path[k] = Sibling(level[k - 1], at[k - 1])
  BY <1>2
<1>7. RootOnPath(leaves[index + 1], index, path) = node[h].hash
  BY <1>3 DEF RootOnPath
<1> HIDE DEF level, at, path, node
<1>8. 0 \in T
  <2>1. level[0] = leaves
    BY <1>1 DEF level
  <2>2. Good(0)
    BY <1>0, <1>4, <1>5, <2>1
  <2> QED
    BY <1>1, <2>2
<1>9. ASSUME NEW k \in 0 .. h - 1, k \in T PROVE k + 1 \in T
  <2>1. k + 1 \in 1 .. h /\ k + 1 \in 0 .. h /\ (k + 1) - 1 = k /\ k \in 0 .. h
    BY <1>1
  <2>2. IsList(level[k]) /\ Len(level[k]) > 1 /\ level[k + 1] = PairLevel(level[k])
    BY <1>1, <2>1 DEF Tree, level
  <2>3. at[k] \in 0 .. Len(level[k]) - 1
    BY <1>9
  <2> DEFINE up == Climb(node[k], Sibling(level[k], at[k]))
  <2>4. node[k + 1] = up
    BY <1>5, <1>6, <1>9, <2>1
  <2>5. /\ up.index = at[k] \div 2
        /\ up.index \in 0 .. Len(PairLevel(level[k])) - 1
        /\ up.hash = PairLevel(level[k])[up.index + 1]
    BY <1>9, <2>2, <2>3, ClimbsOneLevel
  <2>7. at[k + 1] = at[k] \div 2
    BY <1>4, <2>1
  <2> HIDE DEF up
  <2>8. Good(k + 1)
    BY <2>2, <2>4, <2>5, <2>7
  <2> QED
    BY <2>1, <2>8
<1>10. 0 .. h \subseteq T
  <2> HIDE DEF T
  <2> QED
    BY <1>1, <1>8, <1>9, BoundedInduction
<1>11. h \in T
  BY <1>1, <1>10
<1>12. Len(level[h]) = 1
  BY <1>1 DEF Tree, level
<1>13. at[h] = 0 /\ node[h].hash = level[h][at[h] + 1]
  <2>1. Good(h)
    BY <1>11
  <2>2. at[h] = 0
    BY <1>12, <2>1
  <2> QED
    BY <2>1, <2>2
<1> QED
  BY <1>1, <1>3, <1>7, <1>13 DEF level, path

-----------------------------------------------------------------------------
(* What a proof is issued with.                                            *)

\* The fields of an issued proof are those it was built with.
LEMMA IssuedAsBuilt ==
  ASSUME NEW p \in Profiles
  PROVE  /\ DOMAIN Issued[p] = DOMAIN UnsignedProof(p)
         /\ \A f \in DOMAIN UnsignedProof(p) \ {"document_hash", "signature"} :
              Issued[p][f] = UnsignedProof(p)[f]
<1> DEFINE u == UnsignedProof(p)
           d == WithDocumentHash(u)
           fields == DOMAIN u \ {"document_hash", "signature"}
<1>1. d = u \/ d = [u EXCEPT !.document_hash = <<"document", CanonicalView(u)>>]
  BY DEF WithDocumentHash
<1> HIDE DEF u
<1>2. DOMAIN d = DOMAIN u /\ \A f \in fields : d[f] = u[f] /\ f \in DOMAIN d
  BY <1>1
<1> HIDE DEF d
<1>3. Issued[p] = d \/ Issued[p] = [d EXCEPT !.signature = Sign(p.key, SignedMessage(d))]
  BY DEF Issued, IssueProof, d, u
<1>4. DOMAIN Issued[p] = DOMAIN u /\ \A f \in fields : Issued[p][f] = u[f]
  BY <1>2, <1>3
<1> QED
  BY <1>4 DEF u

\* Those a bundle is extracted from.
LEMMA IssuedForBundles ==
  ASSUME NEW p \in Profiles
  PROVE  LET d == Issued[p] IN
           /\ d.cdp_version = p.version /\ d.capsule_id = p.capsule /\ d.public_key = p.key
           /\ d.record_receipts = IssuedReceipts(p)
           /\ p.receipts = NoValue => d.record_receipts_merkle_root = NoValue
           /\ p.receipts # NoValue => d.record_receipts_merkle_root
                = MerkleRoot([i \in DOMAIN IssuedReceipts(p) |-> IssuedReceipts(p)[i].record_chain_hash])
           /\ d.final_hash = Last(d.chain).chain_hash
           /\ \E roots : d.final_hash = <<"step", ChainSteps, p.at, roots>>
           /\ {"record_receipts", "signature"} \subseteq DOMAIN d
<1> DEFINE u == UnsignedProof(p)
           fields == {"cdp_version", "capsule_id", "public_key", "record_receipts",
                      "record_receipts_merkle_root", "final_hash", "chain"}
<1>1. /\ fields \subseteq DOMAIN u \ {"document_hash", "signature"}
      /\ "signature" \in DOMAIN u
  BY DEF UnsignedProof
<1>2. /\ u.cdp_version = p.version /\ u.capsule_id = p.capsule /\ u.public_key = p.key
      /\ u.record_receipts = IssuedReceipts(p)
      /\ p.receipts = NoValue => u.record_receipts_merkle_root = NoValue
      /\ p.receipts # NoValue => u.record_receipts_merkle_root
           = MerkleRoot([i \in DOMAIN IssuedReceipts(p) |-> IssuedReceipts(p)[i].record_chain_hash])
  BY DEF UnsignedProof
<1>3. ChainSteps = 8
  BY DEF ChainSteps, CanonicalChain
<1>4. /\ Len(u.chain) = 8
      /\ u.final_hash = u.chain[8].chain_hash
      /\ \E roots : u.final_hash = <<"step", ChainSteps, p.at, roots>>
  BY <1>3 DEF UnsignedProof, CanonicalHash, StepHash
<1>5. \A f \in fields : Issued[p][f] = u[f]
  BY <1>1, IssuedAsBuilt
<1>6. {"record_receipts", "signature"} \subseteq DOMAIN Issued[p]
  BY <1>1, IssuedAsBuilt
<1> HIDE DEF u
<1> QED
  BY <1>2, <1>4, <1>5, <1>6 DEF Last

\* A document hash is none of the other messages.
LEMMA IssuedDocumentHash ==
  ASSUME NEW p \in Profiles, p.version = "2.0"
  PROVE  \E view : Issued[p].document_hash = <<"document", view>>
<1> DEFINE u == UnsignedProof(p)
           d == WithDocumentHash(u)
<1>1. u.cdp_version = p.version /\ {"document_hash", "signature"} \subseteq DOMAIN u
  BY DEF UnsignedProof
<1> HIDE DEF u
<1>2. (\E view : d.document_hash = <<"document", view>>) /\ DOMAIN d = DOMAIN u
  BY <1>1 DEF WithDocumentHash
<1> HIDE DEF d
<1>3. Issued[p] = d \/ Issued[p] = [d EXCEPT !.signature = Sign(p.key, SignedMessage(d))]
  BY DEF Issued, IssueProof, d, u
<1>4. Issued[p].document_hash = d.document_hash
  BY <1>1, <1>2, <1>3
<1> QED
  BY <1>2, <1>4

\* What a message is computed from.
MessageFields ==
  {"cdp_version", "final_hash", "document_hash", "signing_mode", "authority_id",
   "signing_key_version", "capsule_id", "activity", "chain", "parent_proofs_merkle_root",
   "record_receipts_merkle_root", "customer_declared_activity_root", "signature_algorithm", "body"}

\* The signature is not part of it.
LEMMA MessageWithoutSignature ==
  ASSUME NEW d, NEW x, MessageFields \subseteq DOMAIN d
  PROVE  SignedMessage([d EXCEPT !.signature = x]) = SignedMessage(d)
<1> DEFINE e == [d EXCEPT !.signature = x]
<1>1. \A f \in MessageFields : e[f] = d[f]
  BY DEF MessageFields
<1> HIDE DEF e
<1>2. CanonicalView(e) = CanonicalView(d)
  BY <1>1 DEF CanonicalView, MessageFields
<1>3. SignedMessage(e) = SignedMessage(d)
  BY <1>1, <1>2 DEF SignedMessage, RecomputeCanonicalHash, MessageFields
<1> QED
  BY <1>3 DEF e

\* An issued proof is signed over the message it amounts to, or not at all.
LEMMA IssuedSignature ==
  ASSUME NEW p \in Profiles, Issued[p].signature # NoValue
  PROVE  Issued[p].signature = Sign(p.key, SignedMessage(Issued[p])) /\ p.key # NoValue
<1> DEFINE d == WithDocumentHash(UnsignedProof(p))
<1>1. "signature" \in DOMAIN d /\ MessageFields \subseteq DOMAIN d /\ d.signature = NoValue
  BY DEF WithDocumentHash, UnsignedProof, MessageFields
<1> HIDE DEF d
<1>2. Issued[p] = IF p.key = NoValue THEN d
                  ELSE [d EXCEPT !.signature = Sign(p.key, SignedMessage(d))]
  BY DEF Issued, IssueProof, d
<1>3. p.key # NoValue
  BY <1>1, <1>2
<1>4. Issued[p] = [d EXCEPT !.signature = Sign(p.key, SignedMessage(d))]
  BY <1>2, <1>3
<1>5. SignedMessage(Issued[p]) = SignedMessage(d)
  BY <1>1, <1>4, MessageWithoutSignature
<1> QED
  BY <1>1, <1>3, <1>4, <1>5

\* An issued message is one of three kinds, told apart by the version.
LEMMA MessagesByVersion ==
  ASSUME NEW p \in Profiles
  PROVE  /\ p.version = "1.0" => SignedMessage(Issued[p]) = Last(Issued[p].chain).chain_hash
         /\ p.version = "2.0" => \E view : SignedMessage(Issued[p]) = <<"document", view>>
         /\ p.version \notin {"1.0", "2.0"} =>
              SignedMessage(Issued[p]) = RecomputeCanonicalHash(Issued[p])
         /\ \E roots : Last(Issued[p].chain).chain_hash = <<"step", ChainSteps, p.at, roots>>
<1> DEFINE d == Issued[p]
<1>1. /\ d.cdp_version = p.version /\ d.final_hash = Last(d.chain).chain_hash
      /\ \E roots : d.final_hash = <<"step", ChainSteps, p.at, roots>>
  BY IssuedForBundles
<1>2. p.version = "2.0" => \E view : d.document_hash = <<"document", view>>
  BY IssuedDocumentHash
<1> HIDE DEF d
<1>3. /\ p.version = "1.0" => SignedMessage(d) = d.final_hash
      /\ p.version = "2.0" => SignedMessage(d) = d.document_hash
      /\ p.version \notin {"1.0", "2.0"} => SignedMessage(d) = RecomputeCanonicalHash(d)
  BY <1>1 DEF SignedMessage
<1> QED
  BY <1>1, <1>2, <1>3 DEF d

\* One that is a canonical hash is that of the issued view.
LEMMA CanonicalMessage ==
  ASSUME NEW p \in Profiles, NEW d, SignedMessage(Issued[p]) = RecomputeCanonicalHash(d)
  PROVE  CanonicalView(Issued[p]) = CanonicalView(d)
<1>1. CASE p.version = "1.0"
  <2>1. PICK roots : RecomputeCanonicalHash(d) = <<"step", ChainSteps, p.at, roots>>
    BY <1>1, MessagesByVersion
  <2> QED
    BY <2>1 DEF RecomputeCanonicalHash
<1>2. CASE p.version = "2.0"
  <2>1. PICK view : RecomputeCanonicalHash(d) = <<"document", view>>
    BY <1>2, MessagesByVersion
  <2> QED
    BY <2>1 DEF RecomputeCanonicalHash
<1>3. CASE p.version \notin {"1.0", "2.0"}
  BY <1>3, MessagesByVersion DEF RecomputeCanonicalHash
<1> QED
  BY <1>1, <1>2, <1>3

\* The receipts of a profile, and the leaves of their tree.
LEMMA IssuedBatch ==
  ASSUME NEW p \in Profiles, p.receipts # NoValue
  PROVE  LET receipts == IssuedReceipts(p)
             leaves   == [i \in DOMAIN receipts |-> receipts[i].record_chain_hash]
         IN  /\ IsList(receipts) /\ Len(receipts) = Len(p.receipts)
             /\ DOMAIN receipts = DOMAIN p.receipts
             /\ \A i \in DOMAIN p.receipts :
                  /\ receipts[i].record_index = i - 1 /\ receipts[i].body = p.receipts[i]
                  /\ receipts[i].record_chain_hash = RecordHash(p.capsule, i - 1, p.receipts[i])
             /\ IsList(leaves) /\ Len(leaves) = Len(p.receipts) /\ DOMAIN leaves = DOMAIN p.receipts
             /\ NoInnerNode(leaves)
<1> DEFINE receipts == IssuedReceipts(p)
           leaves == [i \in DOMAIN receipts |-> receipts[i].record_chain_hash]
           n == Len(p.receipts)
<1>1. n \in Nat /\ DOMAIN p.receipts = 1 .. n
  BY ProfilesAssumption
<1>2. receipts = [i \in DOMAIN p.receipts |->
                    [record_index      |-> i - 1,
                     body              |-> p.receipts[i],
                     record_chain_hash |-> RecordHash(p.capsule, i - 1, p.receipts[i])]]
  BY DEF IssuedReceipts
<1>3. /\ DOMAIN receipts = 1 .. n
      /\ \A i \in 1 .. n :
           /\ receipts[i].record_index = i - 1 /\ receipts[i].body = p.receipts[i]
           /\ receipts[i].record_chain_hash = RecordHash(p.capsule, i - 1, p.receipts[i])
  BY <1>1, <1>2
<1>4. receipts = [i \in 1 .. n |-> receipts[i]]
  BY <1>1, <1>2
<1> HIDE DEF n, receipts
<1>5. IsList(receipts) /\ Len(receipts) = n
  BY <1>1, <1>4 DEF IsList
<1>6. IsList(leaves) /\ Len(leaves) = n /\ DOMAIN leaves = 1 .. n
  BY <1>1, <1>3 DEF IsList
<1>7. \A i \in DOMAIN leaves : \E c, j, b : leaves[i] = <<"record", c, j, b>>
  BY <1>3 DEF RecordHash
<1> HIDE DEF leaves
<1>8. NoInnerNode(leaves)
  BY <1>7 DEF NoInnerNode, PairHash
<1> QED
  BY <1>1, <1>3, <1>5, <1>6, <1>8 DEF receipts, leaves, n

-----------------------------------------------------------------------------
(* The invariant.                                                          *)

BundleFields ==
  {"bundle_version", "bundle_type", "receipt", "capsule_id", "verification_key",
   "step_8_chain_hash", "signature", "record_receipts_merkle_root", "timestamp",
   "signature_target", "document_canonical_hash"}
ReceiptFields ==
  {"record_index", "index_form", "body", "record_chain_hash", "merkle_inclusion_proof"}

IsPath(path) == IsList(path) /\ path = [i \in DOMAIN path |-> path[i]]

IsBody(body) == body = [f \in BodyFields |-> body[f]]

\* A receipt as a bundle may have it: the index is a number or missing, the path a list.
WellReceipt(r) ==
  /\ r = [f \in ReceiptFields |-> r[f]]
  /\ r.record_index \in Nat \cup {NoValue}
  /\ r.index_form \in IndexForms
  /\ IsBody(r.body)
  /\ IsPath(r.merkle_inclusion_proof)

\* A signature somebody made: an issuer on a proof, or the holder of another key.
Made(x) ==
  \/ x = NoValue
  \/ \E key \in ForeignKeys : \E message : x = Sign(key, message)
  \/ \E p \in Profiles : x = Issued[p].signature

Whole(b) ==
  /\ b = [f \in BundleFields |-> b[f]]
  /\ WellReceipt(b.receipt)
  /\ Made(b.signature)

\* What extraction relies on of a proof that was altered.
Circulated(d) ==
  /\ {"record_receipts", "signature"} \subseteq DOMAIN d
  /\ d.record_receipts = NoValue \/ \E p \in Profiles : d.record_receipts = IssuedReceipts(p)
  /\ d.signature = NoValue \/ \E p \in Profiles : d.signature = Issued[p].signature

\* A bundle nobody altered is what its extractor made of the proof.
Untouched ==
  \E record \in Records :
    /\ ExtractError(proof, record) = "none"
    /\ bundle = ExtractedBy(extractor, proof, record)

Inv ==
  /\ changes \in Nat
  /\ source \in Profiles /\ extractor \in Languages
  /\ Circulated(proof)
  /\ changes = 0 => proof = Issued[source] /\ ~tampered
  /\ bundle # NoValue => Whole(bundle)
  /\ bundle # NoValue /\ ~tampered => Untouched
  /\ Verified => outcome = [language \in Languages |-> VerifiedBy(language, bundle)]

-----------------------------------------------------------------------------
(* Alterations of a bundle leave one.                                      *)

\* A field that nothing is known of.
LEMMA PlainEdit ==
  ASSUME NEW b, NEW f, NEW x, Whole(b), f \notin {"receipt", "signature"}
  PROVE  Whole([b EXCEPT ![f] = x])
<1> DEFINE c == [b EXCEPT ![f] = x]
<1>1. DOMAIN b = BundleFields /\ WellReceipt(b.receipt) /\ Made(b.signature)
  BY DEF Whole
<1>2. c = [g \in BundleFields |-> c[g]] /\ c.receipt = b.receipt /\ c.signature = b.signature
  BY <1>1 DEF BundleFields
<1> HIDE DEF c
<1> QED
  BY <1>1, <1>2 DEF Whole, c

\* The signature, for another that was made.
LEMMA SignatureEdit ==
  ASSUME NEW b, NEW x, Whole(b), Made(x)
  PROVE  Whole([b EXCEPT !.signature = x])
<1> DEFINE c == [b EXCEPT !.signature = x]
<1>1. DOMAIN b = BundleFields /\ WellReceipt(b.receipt)
  BY DEF Whole
<1>2. c = [g \in BundleFields |-> c[g]] /\ c.receipt = b.receipt /\ c.signature = x
  BY <1>1 DEF BundleFields
<1> HIDE DEF c
<1> QED
  BY <1>1, <1>2 DEF Whole, c

\* The receipt.
LEMMA ReceiptEdit ==
  ASSUME NEW b, NEW x, Whole(b), WellReceipt(x)
  PROVE  Whole([b EXCEPT !.receipt = x])
<1> DEFINE c == [b EXCEPT !.receipt = x]
<1>1. DOMAIN b = BundleFields /\ Made(b.signature)
  BY DEF Whole
<1>2. c = [g \in BundleFields |-> c[g]] /\ c.receipt = x /\ c.signature = b.signature
  BY <1>1 DEF BundleFields
<1> HIDE DEF c
<1> QED
  BY <1>1, <1>2 DEF Whole, c

\* One field of the receipt, for a value it may have.
LEMMA ReceiptFieldEdit ==
  ASSUME NEW r, NEW f, NEW x, WellReceipt(r),
         f = "record_index" => x \in Nat \cup {NoValue}, f = "index_form" => x \in IndexForms,
         f = "body" => IsBody(x), f = "merkle_inclusion_proof" => IsPath(x)
  PROVE  WellReceipt([r EXCEPT ![f] = x])
<1> DEFINE c == [r EXCEPT ![f] = x]
<1>1. /\ DOMAIN r = ReceiptFields /\ r.record_index \in Nat \cup {NoValue}
      /\ r.index_form \in IndexForms /\ IsBody(r.body) /\ IsPath(r.merkle_inclusion_proof)
  BY DEF WellReceipt
<1>2. c = [g \in ReceiptFields |-> c[g]]
  BY <1>1
<1>3. c.record_index \in Nat \cup {NoValue} /\ c.index_form \in IndexForms
  BY <1>1 DEF ReceiptFields
<1>5. IsBody(c.body)
  <2>1. c.body = IF f = "body" THEN x ELSE r.body
    BY <1>1 DEF ReceiptFields
  <2> HIDE DEF c
  <2> QED
    BY <1>1, <2>1
<1>4. IsPath(c.merkle_inclusion_proof)
  <2>1. c.merkle_inclusion_proof = IF f = "merkle_inclusion_proof" THEN x ELSE r.merkle_inclusion_proof
    BY <1>1 DEF ReceiptFields
  <2> HIDE DEF c
  <2> QED
    BY <1>1, <2>1
<1> HIDE DEF c
<1> QED
  BY <1>2, <1>3, <1>4, <1>5 DEF WellReceipt, c

\* One field of a body.
LEMMA BodyEdit ==
  ASSUME NEW body, IsBody(body), NEW f, NEW x
  PROVE  IsBody([body EXCEPT ![f] = x])
BY DEF IsBody

\* A path without its first sibling.
LEMMA TailIsPath ==
  ASSUME NEW path, IsPath(path), path # <<>>
  PROVE  IsPath(Tail(path))
<1>1. Len(path) \in Nat /\ DOMAIN path = 1 .. Len(path) /\ path = [i \in 1 .. Len(path) |-> path[i]]
  BY DEF IsPath, IsList
<1> DEFINE S == {path[i] : i \in 1 .. Len(path)}
           t == Tail(path)
<1>2. path \in Seq(S)
  <2>1. \A i \in 1 .. Len(path) : path[i] \in S
    OBVIOUS
  <2> HIDE DEF S
  <2> QED
    BY <1>1, <2>1
<1> HIDE DEF S, t
<1>3. t \in Seq(S)
  BY <1>2, HeadTailProperties DEF t
<1>4. Len(t) \in Nat /\ DOMAIN t = 1 .. Len(t) /\ t = [i \in DOMAIN t |-> t[i]]
  BY <1>3
<1> QED
  BY <1>4 DEF IsPath, IsList, t

\* What is extracted from a proof that circulates is a bundle.
LEMMA ExtractedIsWhole ==
  ASSUME NEW d, Circulated(d), NEW record \in Records, ExtractError(d, record) = "none"
  PROVE  Whole(ExtractReceiptBundle(d, record))
<1> DEFINE receipts == d.record_receipts
           leaves == [i \in DOMAIN receipts |-> receipts[i].record_chain_hash]
           b == ExtractReceiptBundle(d, record)
<1>1. receipts # NoValue /\ ~(record >= Len(receipts))
  BY DEF ExtractError
<1>2. PICK p \in Profiles : receipts = IssuedReceipts(p)
  BY <1>1 DEF Circulated
<1>3. p.receipts # NoValue
  BY <1>1, <1>2 DEF IssuedReceipts
<1>4. /\ IsList(receipts) /\ IsList(leaves)
      /\ \A i \in DOMAIN receipts : receipts[i].record_index = i - 1 /\ IsBody(receipts[i].body)
  <2>1. /\ IsList(receipts) /\ IsList(leaves) /\ DOMAIN receipts = DOMAIN p.receipts
        /\ \A i \in DOMAIN p.receipts :
             receipts[i].record_index = i - 1 /\ receipts[i].body = p.receipts[i]
    BY <1>2, <1>3, IssuedBatch
  <2>2. \A i \in DOMAIN p.receipts : IsBody(p.receipts[i])
    BY <1>3, BodiesAssumption DEF IsBody
  <2> HIDE DEF receipts, leaves
  <2> QED
    BY <2>1, <2>2
<1>5. record \in Nat /\ record + 1 \in DOMAIN receipts
  BY <1>1, <1>4, RecordsAssumption, IndexModulusAssumption DEF IsList
<1>6. Len(leaves) # 0 /\ Height(leaves) \in Nat
  <2>1. DOMAIN leaves = DOMAIN receipts
    OBVIOUS
  <2> HIDE DEF leaves, receipts
  <2>2. Len(leaves) # 0
    BY <1>4, <1>5, <2>1 DEF IsList
  <2> QED
    BY <1>4, <2>2, TreeOf
<1>7. IsPath(InclusionPath(leaves, record))
  BY <1>6 DEF InclusionPath, IsPath, IsList
<1>8. b.receipt = [record_index           |-> receipts[record + 1].record_index,
                   index_form             |-> "whole",
                   body                   |-> receipts[record + 1].body,
                   record_chain_hash      |-> receipts[record + 1].record_chain_hash,
                   merkle_inclusion_proof |-> InclusionPath(leaves, record)]
  BY DEF ExtractReceiptBundle, WithPath
<1>9. receipts[record + 1].record_index \in Nat /\ IsBody(receipts[record + 1].body)
  BY <1>4, <1>5
<1> HIDE DEF receipts, leaves
<1>10. WellReceipt(b.receipt)
  BY <1>7, <1>8, <1>9 DEF WellReceipt, ReceiptFields, IndexForms
<1>11. b = [f \in BundleFields |-> b[f]] /\ b.signature = d.signature
  BY DEF ExtractReceiptBundle, BundleFields
<1>12. Made(b.signature)
  BY <1>11 DEF Made, Circulated
<1> HIDE DEF b
<1> QED
  BY <1>10, <1>11, <1>12 DEF Whole, b

LEMMA ExtractedByIsWhole ==
  ASSUME NEW d, Circulated(d), NEW record \in Records, ExtractError(d, record) = "none", NEW port
  PROVE  Whole(ExtractedBy(port, d, record))
<1> DEFINE b == ExtractReceiptBundle(d, record)
<1>1. Whole(b)
  BY ExtractedIsWhole
<1> HIDE DEF b
<1>2. Untargeted(b) = [[b EXCEPT !["signature_target"] = NoValue] EXCEPT !["document_canonical_hash"] = NoValue]
  BY <1>1 DEF Untargeted, Whole
<1>3. Whole(Untargeted(b))
  <2> DEFINE c == [b EXCEPT !["signature_target"] = NoValue]
  <2>1. Whole(c)
    BY <1>1, PlainEdit
  <2>2. Whole([c EXCEPT !["document_canonical_hash"] = NoValue])
    <3> HIDE DEF c
    <3> QED
      BY <2>1, PlainEdit
  <2> QED
    BY <1>2, <2>2
<1> QED
  BY <1>1, <1>3 DEF ExtractedBy, ExtractPlain, b

\* An issued proof circulates.
LEMMA IssuedCirculates ==
  ASSUME NEW p \in Profiles
  PROVE  Circulated(Issued[p])
BY IssuedForBundles DEF Circulated

LEMMA OthersAreWhole ==
  ASSUME NEW b \in OtherBundles
  PROVE  Whole(b)
<1>1. PICK p \in Profiles, record \in Records :
        ExtractError(Issued[p], record) = "none" /\ b = ExtractReceiptBundle(Issued[p], record)
  BY DEF OtherBundles
<1> QED
  BY <1>1, ExtractedIsWhole, IssuedCirculates

-----------------------------------------------------------------------------
(* Every step keeps the invariant.                                         *)

\* An altered proof circulates.
LEMMA AlteredCirculates ==
  ASSUME NEW d, Circulated(d), NEW p \in Profiles, NEW f
  PROVE  Circulated([d EXCEPT ![f] = Issued[p][f]]) /\ Circulated([d EXCEPT ![f] = NoValue])
<1> DEFINE taken == [d EXCEPT ![f] = Issued[p][f]]
           lost == [d EXCEPT ![f] = NoValue]
<1>1. /\ {"record_receipts", "signature"} \subseteq DOMAIN d
      /\ d.record_receipts = NoValue \/ \E q \in Profiles : d.record_receipts = IssuedReceipts(q)
      /\ d.signature = NoValue \/ \E q \in Profiles : d.signature = Issued[q].signature
  BY DEF Circulated
<1>2. Issued[p].record_receipts = IssuedReceipts(p)
  BY IssuedForBundles
<1>3. /\ {"record_receipts", "signature"} \subseteq DOMAIN taken
      /\ taken.record_receipts = (IF f = "record_receipts" THEN Issued[p].record_receipts
                                                           ELSE d.record_receipts)
      /\ taken.signature = (IF f = "signature" THEN Issued[p].signature ELSE d.signature)
  BY <1>1
<1>4. /\ {"record_receipts", "signature"} \subseteq DOMAIN lost
      /\ lost.record_receipts = (IF f = "record_receipts" THEN NoValue ELSE d.record_receipts)
      /\ lost.signature = (IF f = "signature" THEN NoValue ELSE d.signature)
  BY <1>1
<1> HIDE DEF taken, lost
<1>5. Circulated(taken)
  BY <1>1, <1>2, <1>3 DEF Circulated
<1>6. Circulated(lost)
  BY <1>1, <1>4 DEF Circulated
<1> QED
  BY <1>5, <1>6 DEF taken, lost

LEMMA ProofChangesKeepInv ==
  ASSUME Inv, outcome = NoValue, ProofChanges, UNCHANGED extractor
  PROVE  Inv'
<1>1. PICK d : ChangeProof(d) /\ Circulated(d)
  <2>1. Circulated(proof)
    BY DEF Inv
  <2>2. CASE \E p \in Profiles : \E f \in DOMAIN proof : TakeProofField(f, p)
    <3>1. PICK p \in Profiles, f \in DOMAIN proof : TakeProofField(f, p)
      BY <2>2
    <3> QED
      BY <2>1, <3>1, AlteredCirculates DEF TakeProofField
  <2>3. CASE \E f \in {"record_receipts", "record_receipts_merkle_root", "public_key", "signature"} :
               LoseProofField(f)
    <3>1. PICK f : LoseProofField(f)
      BY <2>3
    <3>2. source \in Profiles
      BY DEF Inv
    <3> QED
      BY <2>1, <3>1, <3>2, AlteredCirculates DEF LoseProofField
  <2> QED
    BY <2>2, <2>3 DEF ProofChanges
<1>2. /\ bundle = NoValue /\ bundle' = NoValue /\ proof' = d /\ changes' = changes + 1
      /\ source' = source /\ extractor' = extractor
  BY <1>1 DEF ChangeProof
<1>3. changes' \in Nat /\ changes' # 0
  BY <1>2 DEF Inv
<1>4. Circulated(proof)'
  BY <1>1, <1>2
<1> QED
  BY <1>2, <1>3, <1>4 DEF Inv, Verified

LEMMA ChangeKeepsInv ==
  ASSUME Inv, outcome = NoValue, UNCHANGED extractor, NEW b, Whole(b), Change(b)
  PROVE  Inv'
<1>1. /\ bundle' = b /\ proof' = proof /\ changes' = changes + 1 /\ outcome' = NoValue
      /\ tampered' = TRUE /\ source' = source /\ extractor' = extractor
  BY DEF Change
<1>2. changes' \in Nat /\ changes' # 0
  BY <1>1 DEF Inv
<1>3. Whole(bundle)'
  BY <1>1
<1>4. Circulated(proof)'
  BY <1>1 DEF Inv
<1> QED
  BY <1>1, <1>2, <1>3, <1>4 DEF Inv, Verified

\* The alterations of a bundle leave one, with a signature somebody made.
LEMMA BundleChangesLeaveOne ==
  ASSUME Whole(bundle), BundleChanges
  PROVE  \E b : Whole(b) /\ Change(b)
<1>1. ASSUME NEW b \in OtherBundles, NEW f \in DOMAIN b, TakeField(f, b)
      PROVE  \E c : Whole(c) /\ Change(c)
  <2>1. Whole(b)
    BY OthersAreWhole
  <2>2. Whole([bundle EXCEPT ![f] = b[f]])
    <3>1. CASE f = "receipt"
      BY <2>1, <3>1, ReceiptEdit DEF Whole
    <3>2. CASE f = "signature"
      BY <2>1, <3>2, SignatureEdit DEF Whole
    <3>3. CASE f \notin {"receipt", "signature"}
      BY <3>3, PlainEdit
    <3> QED
      BY <3>1, <3>2, <3>3
  <2> QED
    BY <1>1, <2>2 DEF TakeField
<1>2. ASSUME NEW x, WellReceipt(x), Change([bundle EXCEPT !.receipt = x])
      PROVE  \E c : Whole(c) /\ Change(c)
  BY <1>2, ReceiptEdit
<1>3. WellReceipt(bundle.receipt)
  BY DEF Whole
<1>4. ASSUME NEW b \in OtherBundles, TakePath(b)
      PROVE  \E c : Whole(c) /\ Change(c)
  <2> DEFINE x == [bundle.receipt EXCEPT !.merkle_inclusion_proof = b.receipt.merkle_inclusion_proof]
  <2>1. IsPath(b.receipt.merkle_inclusion_proof)
    BY OthersAreWhole DEF Whole, WellReceipt
  <2>2. WellReceipt(x)
    BY <1>3, <2>1, ReceiptFieldEdit
  <2>3. Change([bundle EXCEPT !.receipt = x])
    BY <1>4 DEF TakePath
  <2> HIDE DEF x
  <2> QED
    BY <1>2, <2>2, <2>3
<1>5. ASSUME NEW target, Relabel(target)
      PROVE  \E c : Whole(c) /\ Change(c)
  BY <1>5, PlainEdit DEF Relabel
<1>6. ASSUME NEW key \in ForeignKeys, SignAnew(key)
      PROVE  \E c : Whole(c) /\ Change(c)
  <2> DEFINE x == Sign(key, SignedAnchor(bundle))
             b == [bundle EXCEPT !.verification_key = key]
             c == [b EXCEPT !.signature = x]
  <2>1. Change(c)
    BY <1>6 DEF SignAnew
  <2>2. Whole(b)
    BY PlainEdit
  <2>3. Made(x)
    BY DEF Made
  <2>4. Whole(c)
    <3> HIDE DEF b, x
    <3> QED
      BY <2>2, <2>3, SignatureEdit
  <2> QED
    BY <2>1, <2>4
<1>7. ASSUME NEW body \in OtherBodies, Forge(body)
      PROVE  \E c : Whole(c) /\ Change(c)
  <2> DEFINE h == ReceiptHash(bundle.capsule_id, [bundle.receipt EXCEPT !.body = Filled(body)])
             x == [bundle.receipt EXCEPT !.body = body]
             y == [x EXCEPT !.record_chain_hash = h]
  <2>1. WellReceipt(x)
    BY <1>3, ReceiptFieldEdit, BodiesAssumption DEF IsBody
  <2>2. WellReceipt(y)
    <3> HIDE DEF x, h
    <3> QED
      BY <2>1, ReceiptFieldEdit
  <2>3. Change([bundle EXCEPT !.receipt = x]) \/ Change([bundle EXCEPT !.receipt = y])
    BY <1>7 DEF Forge
  <2> HIDE DEF x, y
  <2> QED
    BY <1>2, <2>1, <2>2, <2>3
<1>8. ASSUME SwapAnchors
      PROVE  \E c : Whole(c) /\ Change(c)
  <2> DEFINE b == [bundle EXCEPT !.step_8_chain_hash = bundle.document_canonical_hash]
             c == [b EXCEPT !.document_canonical_hash = bundle.step_8_chain_hash]
  <2>1. Change(c)
    BY <1>8 DEF SwapAnchors
  <2>2. Whole(b)
    BY PlainEdit
  <2>3. Whole(c)
    <3> HIDE DEF b
    <3> QED
      BY <2>2, PlainEdit
  <2> QED
    BY <2>1, <2>3
<1>9. ASSUME LoseSignature
      PROVE  \E c : Whole(c) /\ Change(c)
  BY <1>9, SignatureEdit DEF LoseSignature, Made
<1>10. ASSUME WidenIndex
       PROVE  \E c : Whole(c) /\ Change(c)
  <2> DEFINE x == [bundle.receipt EXCEPT !.record_index = @ + IndexModulus]
  <2>1. bundle.receipt.record_index + IndexModulus \in Nat
    BY <1>3, <1>10, IndexModulusAssumption DEF WellReceipt, WidenIndex, HasIndex
  <2>2. WellReceipt(x)
    BY <1>3, <2>1, ReceiptFieldEdit
  <2>3. Change([bundle EXCEPT !.receipt = x])
    BY <1>10 DEF WidenIndex
  <2> HIDE DEF x
  <2> QED
    BY <1>2, <2>2, <2>3
<1>11. ASSUME NextIndex
       PROVE  \E c : Whole(c) /\ Change(c)
  <2> DEFINE h == ReceiptHash(bundle.capsule_id, [bundle.receipt EXCEPT !.record_index = @ + 1])
             x == [bundle.receipt EXCEPT !.record_index = @ + 1]
             y == [x EXCEPT !.record_chain_hash = h]
  <2>1. bundle.receipt.record_index + 1 \in Nat
    BY <1>3, <1>11 DEF WellReceipt, NextIndex, HasIndex
  <2>2. WellReceipt(x)
    BY <1>3, <2>1, ReceiptFieldEdit
  <2>3. WellReceipt(y)
    <3> HIDE DEF x, h
    <3> QED
      BY <2>2, ReceiptFieldEdit
  <2>4. Change([bundle EXCEPT !.receipt = y])
    BY <1>11 DEF NextIndex
  <2> HIDE DEF y
  <2> QED
    BY <1>2, <2>3, <2>4
<1>12. ASSUME ShortenPath
       PROVE  \E c : Whole(c) /\ Change(c)
  <2> DEFINE x == [bundle.receipt EXCEPT !.merkle_inclusion_proof = Tail(@)]
  <2>1. IsPath(Tail(bundle.receipt.merkle_inclusion_proof))
    BY <1>3, <1>12, TailIsPath DEF ShortenPath, WellReceipt
  <2>2. WellReceipt(x)
    BY <1>3, <2>1, ReceiptFieldEdit
  <2>3. Change([bundle EXCEPT !.receipt = x])
    BY <1>12 DEF ShortenPath
  <2> HIDE DEF x
  <2> QED
    BY <1>2, <2>2, <2>3
<1>13. ASSUME Reroot
       PROVE  \E c : Whole(c) /\ Change(c)
  BY <1>13, PlainEdit DEF Reroot
<1>14. ASSUME NEW f \in BodyFields, NEW v, SpoilBody(f, v)
       PROVE  \E c : Whole(c) /\ Change(c)
  <2> DEFINE body == [bundle.receipt.body EXCEPT ![f] = v]
             x == [bundle.receipt EXCEPT !.body = body]
  <2>1. IsBody(body)
    BY <1>3, BodyEdit DEF WellReceipt
  <2>2. WellReceipt(x)
    <3> HIDE DEF body
    <3> QED
      BY <1>3, <2>1, ReceiptFieldEdit
  <2>3. Change([bundle EXCEPT !.receipt = x])
    BY <1>14 DEF SpoilBody
  <2> HIDE DEF x
  <2> QED
    BY <1>2, <2>2, <2>3
<1>15. ASSUME NEW f, NEW v, f = "record_chain_hash" \/ (f = "record_index" /\ v = NoValue),
              SpoilReceipt(f, v)
       PROVE  \E c : Whole(c) /\ Change(c)
  <2> DEFINE x == [bundle.receipt EXCEPT ![f] = v]
  <2>1. WellReceipt(x)
    BY <1>3, <1>15, ReceiptFieldEdit
  <2>2. Change([bundle EXCEPT !.receipt = x])
    BY <1>15 DEF SpoilReceipt
  <2> HIDE DEF x
  <2> QED
    BY <1>2, <2>1, <2>2
<1>16. ASSUME NEW form \in IndexForms, RewriteIndex(form)
       PROVE  \E c : Whole(c) /\ Change(c)
  <2> DEFINE x == [bundle.receipt EXCEPT !.index_form = form]
  <2>1. WellReceipt(x)
    BY <1>3, ReceiptFieldEdit
  <2>2. Change([bundle EXCEPT !.receipt = x])
    BY <1>16 DEF RewriteIndex
  <2> HIDE DEF x
  <2> QED
    BY <1>2, <2>1, <2>2
<1>17. ASSUME BlankCanonicalHash
       PROVE  \E c : Whole(c) /\ Change(c)
  BY <1>17, PlainEdit DEF BlankCanonicalHash
<1> QED
  BY <1>1, <1>4, <1>5, <1>6, <1>7, <1>8, <1>9, <1>10, <1>11, <1>12, <1>13, <1>14, <1>15, <1>16,
     <1>17 DEF BundleChanges

LEMMA ExtractKeepsInv ==
  ASSUME Inv, outcome = NoValue, NEW record \in Records, Extract(record)
  PROVE  Inv'
<1>1. /\ bundle = NoValue /\ proof' = proof /\ changes' = changes /\ source' = source
      /\ tampered' = tampered /\ extractor' = extractor
  BY DEF Extract
<1>2. CASE /\ ExtractError(proof, record) = "none"
           /\ bundle' = ExtractedBy(extractor, proof, record)
           /\ outcome' = NoValue
  <2>1. Whole(bundle)'
    BY <1>2, ExtractedByIsWhole DEF Inv
  <2>2. Untouched'
    BY <1>1, <1>2 DEF Untouched
  <2>3. ~Verified'
    BY <1>2 DEF Verified
  <2>4. Circulated(proof)'
    BY <1>1 DEF Inv
  <2> QED
    BY <1>1, <2>1, <2>2, <2>3, <2>4 DEF Inv
<1>3. CASE bundle' = bundle
  <2>1. ~Verified' /\ bundle' = NoValue
    BY <1>1, <1>3 DEF Verified
  <2>2. Circulated(proof)'
    BY <1>1 DEF Inv
  <2> QED
    BY <1>1, <2>1, <2>2 DEF Inv
<1> QED
  BY <1>2, <1>3 DEF Extract

LEMMA SameBundleKeepsInv ==
  ASSUME Inv, UNCHANGED <<source, proof, bundle, changes, tampered, extractor>>,
         Verify \/ UNCHANGED outcome
  PROVE  Inv'
<1>1. Whole(bundle)' = Whole(bundle) /\ Untouched' = Untouched /\ Circulated(proof)' = Circulated(proof)
  BY DEF Untouched
<1>2. Verified' => outcome' = [language \in Languages |-> VerifiedBy(language, bundle')]
  BY DEF Verify, Inv, Verified
<1> QED
  BY <1>1, <1>2 DEF Inv

\* What a bundle has in its receipt and signature is of the shape that its
\* readers rely on, one that was not altered is what its extractor makes of the
\* proof at hand, and the answers are those about the bundle at hand.
THEOREM Invariance == Spec => []Inv
<1>1. Init => Inv
  <2> SUFFICES ASSUME Init PROVE Inv
    OBVIOUS
  <2>1. /\ source \in Profiles /\ proof = Issued[source] /\ bundle = NoValue /\ changes = 0
        /\ tampered = FALSE /\ extractor \in Languages
    BY DEF Init, BundleInit
  <2>2. Circulated(proof)
    BY <2>1, IssuedCirculates
  <2> QED
    BY <2>1, <2>2 DEF Inv, Verified
<1>2. Inv /\ [Next]_vars => Inv'
  <2> SUFFICES ASSUME Inv, [Next]_vars PROVE Inv'
    OBVIOUS
  <2>1. CASE outcome = NoValue /\ ProofChanges /\ UNCHANGED extractor
    BY <2>1, ProofChangesKeepInv
  <2>2. CASE outcome = NoValue /\ BundleChanges /\ UNCHANGED extractor
    <3>1. bundle # NoValue
      BY <2>2, Zenon DEF BundleChanges, TakeField, TakePath, Relabel, SignAnew, Forge, SwapAnchors,
        LoseSignature, WidenIndex, NextIndex, ShortenPath, Reroot, HasIndex, SpoilBody,
        SpoilReceipt, RewriteIndex, BlankCanonicalHash, Change
    <3>2. Whole(bundle)
      BY <3>1 DEF Inv
    <3>3. PICK b : Whole(b) /\ Change(b)
      BY <2>2, <3>2, BundleChangesLeaveOne
    <3> QED
      BY <2>2, <3>3, ChangeKeepsInv
  <2>3. CASE outcome = NoValue /\ \E record \in Records : Extract(record)
    BY <2>3, ExtractKeepsInv
  <2>4. CASE Verify
    BY <2>4, SameBundleKeepsInv DEF Verify
  <2>5. CASE UNCHANGED vars
    BY <2>5, SameBundleKeepsInv DEF vars, bundleVars
  <2> QED
    BY <2>1, <2>2, <2>3, <2>4, <2>5 DEF Next
<1> QED
  BY <1>1, <1>2, PTL DEF Spec

-----------------------------------------------------------------------------
(* What an accepted bundle shows.                                          *)

\* The answers are about the bundle at hand, and an accepted one passed both
\* halves of the verification.
LEMMA AcceptedPassed ==
  ASSUME Inv, NEW language \in Languages, Accepted(language)
  PROVE  /\ bundle # NoValue /\ Whole(bundle)
         /\ language = "rust" => ReceiptError(bundle) = "none" /\ SignatureError(bundle) = "none"
         /\ language # "rust" => PortReceiptError(language, bundle) = "none"
         /\ language = "go" => GoSignatureError(bundle) = "none"
         /\ language \in {"python", "typescript"} => PlainSignatureError(bundle) = "none"
<1>1. bundle # NoValue /\ Whole(bundle) /\ VerifiedBy(language, bundle) = "none"
  BY DEF Inv, Accepted, Verified
<1>2. CASE language = "rust"
  BY <1>1, <1>2 DEF VerifiedBy, VerifyReceiptBundle
<1>3. CASE language # "rust"
  BY <1>1, <1>3 DEF VerifiedBy, PortVerify
<1> QED
  BY <1>2, <1>3

\* A body that has its hashes, and no empty tag, is read as it is.
LEMMA ReadAsItIs ==
  ASSUME NEW body, IsBody(body), NoValue \notin {body.record_input_hash, body.record_output_hash},
         NEW port, port = "python" => body.pattern_tag # NoText
  PROVE  BodyRead(port, body) = body
<1> DEFINE f == [body EXCEPT !.record_input_hash  = body.record_input_hash,
                             !.record_output_hash = body.record_output_hash]
<1>1. f = body
  BY DEF IsBody, BodyFields
<1>2. Filled(body) = body
  BY <1>1 DEF Filled
<1>3. [body EXCEPT !.pattern_tag = body.pattern_tag] = body
  BY DEF IsBody, BodyFields
<1> QED
  BY <1>2, <1>3 DEF BodyRead

\* Its receipt hashes, as the language reads it, to what it says, and leads to the
\* root it says.
LEMMA AcceptedReceipt ==
  ASSUME Inv, NEW language \in Languages, Accepted(language)
  PROVE  LET r == bundle.receipt IN
           /\ r.record_chain_hash # NoValue
           /\ LET index == IndexRead(language, r.record_index)
                  body  == BodyRead(language, r.body)
              IN  \/ r.record_chain_hash = <<"record", bundle.capsule_id, index, body>>
                  \/ r.record_chain_hash = <<"record", bundle.capsule_id, index, body, "fraction">>
           /\ IsList(r.merkle_inclusion_proof)
           /\ \E index : RootOnPath(r.record_chain_hash, index, r.merkle_inclusion_proof)
                           = bundle.record_receipts_merkle_root
<1>1. IsList(bundle.receipt.merkle_inclusion_proof)
  BY AcceptedPassed DEF Whole, WellReceipt, IsPath
<1>2. CASE language = "rust"
  <2>1. ReceiptError(bundle) = "none" /\ IsBody(bundle.receipt.body)
    BY <1>2, AcceptedPassed DEF Whole, WellReceipt
  <2>2. ~Misshapen(bundle.receipt)
    BY <2>1 DEF ReceiptError
  <2>3. BodyRead(language, bundle.receipt.body) = bundle.receipt.body
    BY <1>2, <2>1, <2>2, ReadAsItIs DEF Misshapen
  <2>4. bundle.receipt.record_chain_hash # NoValue
    BY <2>2 DEF Misshapen
  <2> QED
    BY <1>1, <1>2, <2>1, <2>2, <2>3, <2>4
    DEF ReceiptError, VerifyMerkleInclusionProof, ReceiptHash, RecordHash, IndexRead, Targeting
<1>3. CASE language # "rust"
  <2>1. PortReceiptError(language, bundle) = "none"
    BY <1>3, AcceptedPassed
  <2>2. /\ bundle.receipt.record_chain_hash # NoValue
        /\ BundleReceiptHash(language, bundle) = bundle.receipt.record_chain_hash
        /\ \E index : VerifyMerkleInclusionProof(bundle.receipt.record_chain_hash, index,
                       bundle.receipt.merkle_inclusion_proof, bundle.record_receipts_merkle_root)
    BY <2>1 DEF PortReceiptError, MisshapenIn
  <2> QED
    BY <1>1, <2>2 DEF VerifyMerkleInclusionProof, BundleReceiptHash
<1> QED
  BY <1>2, <1>3

\* No path leads to a root that is not there.
LEMMA PathLeadsSomewhere ==
  ASSUME \A left, right : PairHash(left, right) # NoValue,
         NEW leaf, leaf # NoValue, NEW index, NEW path, IsList(path)
  PROVE  RootOnPath(leaf, index, path) # NoValue
<1> DEFINE N == Len(path)
           node == Climbed(leaf, index, path)
<1>1. N \in Nat
  BY DEF IsList
<1>2. node[0].hash = leaf /\ \A k \in 1 .. N : node[k] = Climb(node[k - 1], path[k])
  BY ClimbedUnfold
<1>3. RootOnPath(leaf, index, path) = node[N].hash
  BY DEF RootOnPath
<1> HIDE DEF N, node
<1>4. CASE N = 0
  BY <1>2, <1>3, <1>4
<1>5. CASE N \in 1 .. N
  <2>1. node[N] = Climb(node[N - 1], path[N])
    BY <1>2, <1>5
  <2>2. \E left, right : node[N].hash = PairHash(left, right)
    BY <2>1 DEF Climb
  <2> QED
    BY <1>3, <2>2
<1> QED
  BY <1>1, <1>4, <1>5

\* A reader in any language who finds the root of an accepted bundle in a proof
\* has a receipt of that proof: of its capsule, at that position and with that
\* content, whatever path and whatever index the bundle came with.
THEOREM AcceptedMeansOfItsProof ==
  ASSUME \A left, right : PairHash(left, right) # NoValue
  PROVE  Spec => []ReceiptIsOfItsProof
<1>1. Inv => ReceiptIsOfItsProof
  <2> SUFFICES ASSUME Inv, NEW language \in Languages, Accepted(language), NEW p \in Profiles,
                      bundle.record_receipts_merkle_root = Issued[p].record_receipts_merkle_root
               PROVE  <<bundle.capsule_id, IndexRead(language, bundle.receipt.record_index),
                        BodyRead(language, bundle.receipt.body)>> \in ReceiptsOf(p)
    BY DEF ReceiptIsOfItsProof
  <2> DEFINE index == IndexRead(language, bundle.receipt.record_index)
             body == BodyRead(language, bundle.receipt.body)
             leaf == bundle.receipt.record_chain_hash
             path == bundle.receipt.merkle_inclusion_proof
             root == bundle.record_receipts_merkle_root
             leaves == [i \in DOMAIN IssuedReceipts(p) |-> IssuedReceipts(p)[i].record_chain_hash]
  <2>1. /\ leaf # NoValue /\ IsList(path)
        /\ \/ leaf = <<"record", bundle.capsule_id, index, body>>
           \/ leaf = <<"record", bundle.capsule_id, index, body, "fraction">>
        /\ \E at : RootOnPath(leaf, at, path) = root
    BY AcceptedReceipt
  <2> HIDE DEF index, body
  <2>2. PICK at : RootOnPath(leaf, at, path) = root
    BY <2>1
  <2>3. root # NoValue
    <3> HIDE DEF leaf, path, root
    <3> QED
      BY <2>1, <2>2, PathLeadsSomewhere
  <2>4. p.receipts # NoValue /\ root = MerkleRoot(leaves)
    BY <2>3, IssuedForBundles
  <2>5. /\ IsList(leaves) /\ Len(leaves) = Len(p.receipts) /\ DOMAIN leaves = DOMAIN p.receipts
        /\ NoInnerNode(leaves)
        /\ \A i \in DOMAIN p.receipts :
             IssuedReceipts(p)[i].record_chain_hash = RecordHash(p.capsule, i - 1, p.receipts[i])
        /\ DOMAIN IssuedReceipts(p) = DOMAIN p.receipts
    BY <2>4, IssuedBatch
  <2>6. Len(leaves) # 0
    <3>1. leaves = [i \in DOMAIN leaves |-> leaves[i]]
      OBVIOUS
    <3> HIDE DEF leaves
    <3>2. ASSUME Len(leaves) = 0 PROVE MerkleRoot(leaves) = NoValue
      <4>1. leaves = <<>>
        BY <2>5, <3>1, <3>2 DEF IsList
      <4> QED
        BY <4>1 DEF MerkleRoot
    <3> QED
      BY <2>3, <2>4, <3>2
  <2>7. \A left, right : leaf # PairHash(left, right)
    BY <2>1 DEF PairHash
  <2>8. PICK i \in DOMAIN leaves : leaf = leaves[i]
    <3> HIDE DEF leaf, path, root, leaves
    <3>1. RootOnPath(leaf, at, path) = MerkleRoot(leaves)
      BY <2>2, <2>4
    <3>2. IsList(path)
      BY <2>1
    <3>3. IsList(leaves) /\ NoInnerNode(leaves)
      BY <2>5
    <3> QED
      BY <2>6, <2>7, <3>1, <3>2, <3>3, PathStartsAtLeaf
  <2>9. i \in DOMAIN p.receipts
        /\ leaf = <<"record", p.capsule, (i - 1) % IndexModulus, p.receipts[i]>>
    BY <2>5, <2>8 DEF RecordHash
  <2>10. <<bundle.capsule_id, index, body>> = <<p.capsule, (i - 1) % IndexModulus, p.receipts[i]>>
    <3> HIDE DEF leaf
    <3>1. leaf # <<"record", bundle.capsule_id, index, body, "fraction">>
      BY <2>9
    <3> QED
      BY <2>1, <2>9, <3>1
  <2> QED
    BY <2>4, <2>9, <2>10 DEF ReceiptsOf, index, body
<1> QED
  BY <1>1, Invariance, PTL

\* The signature of an accepted bundle is one of its key over its anchor.
LEMMA AcceptedSignature ==
  ASSUME Inv, NEW language \in Languages, Accepted(language)
  PROVE  bundle.signature = Sign(bundle.verification_key, AnchorIn(language))
<1>1. CASE language = "rust"
  BY <1>1, AcceptedPassed DEF SignatureError, Sign, AnchorIn, Targeting
<1>2. CASE language = "go"
  <2>1. GoSignatureError(bundle) = "none" /\ AnchorIn(language) = SignedAnchor(bundle)
    BY <1>2, AcceptedPassed DEF AnchorIn, Targeting
  <2>2. CASE bundle.signature_target \in {NoValue, Step8Target}
    BY <2>1, <2>2, BundlePresenceAssumption
    DEF GoSignatureError, SignedOver, SignedAnchor, Sign, CanonicalTarget, Step8Target
  <2>3. CASE bundle.signature_target = CanonicalTarget
    BY <2>1, <2>3, BundlePresenceAssumption
    DEF GoSignatureError, SignedOver, SignedAnchor, Sign, CanonicalTarget, Step8Target
  <2> QED
    BY <2>1, <2>2, <2>3 DEF GoSignatureError
<1>3. CASE language \in {"python", "typescript"}
  BY <1>3, AcceptedPassed DEF PlainSignatureError, SignedOver, Sign, AnchorIn, Targeting
<1> QED
  BY <1>1, <1>2, <1>3 DEF Languages

\* The anchor that a language checked under an issuer's key was signed by that
\* issuer, and where it is a canonical hash that was computed at extraction, the
\* proof it was extracted from has the canonical view of an issued one.
THEOREM AcceptedMeansIssued ==
  ASSUME \A key, message : Sign(key, message) # NoValue
  PROVE  Spec => []AcceptedAnchorIsIssued
<1>1. Inv => AcceptedAnchorIsIssued
  <2> SUFFICES ASSUME Inv, NEW language \in Languages, Accepted(language), ByIssuer
               PROVE  /\ \E p \in Profiles :
                           /\ p.key = bundle.verification_key
                           /\ SignedMessage(Issued[p]) = AnchorIn(language)
                      /\ /\ language \in Targeting /\ bundle.signature_target = CanonicalTarget
                         /\ ~tampered
                         => \E p \in Profiles : CanonicalView(proof) = CanonicalView(Issued[p])
    BY DEF AcceptedAnchorIsIssued
  <2>1. bundle.signature = Sign(bundle.verification_key, AnchorIn(language))
    BY AcceptedSignature
  <2>2. Made(bundle.signature) /\ bundle # NoValue
    BY AcceptedPassed DEF Whole
  <2>3. PICK p \in Profiles : bundle.signature = Issued[p].signature
    <3>1. ASSUME NEW key \in ForeignKeys, NEW message, bundle.signature = Sign(key, message)
          PROVE  FALSE
      BY <2>1, <3>1 DEF Sign, ByIssuer
    <3>2. bundle.signature # NoValue
      BY <2>1
    <3> QED
      BY <2>2, <3>1, <3>2 DEF Made
  <2>4. p.key = bundle.verification_key /\ SignedMessage(Issued[p]) = AnchorIn(language)
    <3>1. Issued[p].signature # NoValue
      BY <2>1, <2>3
    <3>2. Issued[p].signature = Sign(p.key, SignedMessage(Issued[p]))
      BY <3>1, IssuedSignature
    <3> QED
      BY <2>1, <2>3, <3>2 DEF Sign
  <2>5. ASSUME language \in Targeting, bundle.signature_target = CanonicalTarget, ~tampered
        PROVE  CanonicalView(proof) = CanonicalView(Issued[p])
    <3>1. PICK record \in Records : bundle = ExtractedBy(extractor, proof, record)
      BY <2>2, <2>5 DEF Inv, Untouched
    <3> DEFINE b == ExtractReceiptBundle(proof, record)
    <3>2. b.document_canonical_hash
            = IF b.signature_target = CanonicalTarget THEN RecomputeCanonicalHash(proof) ELSE NoValue
      BY DEF ExtractReceiptBundle
    <3>3. Untargeted(b).signature_target = NoValue
      BY DEF ExtractReceiptBundle, Untargeted
    <3> HIDE DEF b
    <3>4. bundle = b
      BY <2>5, <3>1, <3>3, BundlePresenceAssumption DEF ExtractedBy, ExtractPlain, b
    <3>5. AnchorIn(language) = RecomputeCanonicalHash(proof)
      BY <2>5, <3>2, <3>4 DEF AnchorIn, SignedAnchor
    <3>6. CanonicalView(Issued[p]) = CanonicalView(proof)
      BY <2>4, <3>5, CanonicalMessage
    <3> QED
      BY <3>6
  <2> QED
    BY <2>4, <2>5
<1> QED
  BY <1>1, Invariance, PTL

-----------------------------------------------------------------------------
(* What the languages make of one bundle.                                  *)

\* Of an index no wider than 32 bits every language finds the same wrong with a
\* receipt, if nothing of it is written in a way that this language reads otherwise.
LEMMA ReceiptErrorsAgree ==
  ASSUME NEW b, WellReceipt(b.receipt),
         b.receipt.record_index = NoValue \/ b.receipt.record_index < IndexModulus,
         NEW language \in Languages \ {"rust"},
         b.receipt.index_form \notin {"decimal", "fraction"},
         NoValue \notin {b.receipt.body.record_input_hash, b.receipt.body.record_output_hash},
         language = "python" => b.receipt.index_form # "text" /\ b.receipt.body.pattern_tag # NoText,
         language = "go" => NoText \notin {b.receipt.record_chain_hash, b.receipt.body.record_id}
  PROVE  PortReceiptError(language, b) = ReceiptError(b)
<1> DEFINE r == b.receipt
           index == r.record_index
<1>1. /\ IndexModulus \in Nat \ {0}
      /\ index \in Nat \cup {NoValue} /\ r.index_form \in IndexForms /\ IsBody(r.body)
  BY IndexModulusAssumption DEF WellReceipt
<1>2. r.index_form \in {"whole", "text"}
  BY <1>1 DEF IndexForms
<1> HIDE DEF r
<1>3. MisshapenIn(language, r) <=> Misshapen(r)
  BY <1>2 DEF MisshapenIn, Misshapen, Languages, r
<1>4. CASE Misshapen(r)
  BY <1>3, <1>4 DEF PortReceiptError, ReceiptError, r
<1>5. CASE ~Misshapen(r)
  <2>1. index \in Nat /\ index < IndexModulus
    BY <1>1, <1>5 DEF Misshapen, r
  <2> HIDE DEF index
  <2>2. index % IndexModulus = index
    BY <1>1, <2>1
  <2>3. IndexRead(language, index) = index
    BY <2>2 DEF IndexRead
  <2>4. BodyRead(language, r.body) = r.body
    BY <1>1, ReadAsItIs DEF r
  <2>5. ~WrittenOut(language, r)
    BY DEF WrittenOut, r
  <2>6. PathIndex(language, r) = index
    BY <2>3, <2>5 DEF PathIndex, index
  <2>7. BundleReceiptHash(language, b) = ReceiptHash(b.capsule_id, r)
    BY <2>2, <2>3, <2>4, <2>5 DEF BundleReceiptHash, ReceiptHash, RecordHash, index, r
  <2>8. NoValue \notin {r.body.record_input_hash, r.body.record_output_hash}
    BY DEF r
  <2> QED
    BY <1>3, <1>5, <2>2, <2>6, <2>7, <2>8 DEF PortReceiptError, ReceiptError, index, r
<1> QED
  BY <1>4, <1>5

\* Altered or not, a bundle whose index is no wider than 32 bits has in every
\* language the answer it has in Rust, unless a field is written in one of the ways
\* that the language reads otherwise, or Python or TypeScript come to a signature
\* over a target they do not know.
THEOREM OneBundleOneAnswer == Spec => []LanguagesAgree
<1>1. Inv => LanguagesAgree
  <2> SUFFICES ASSUME Inv, Verified, NarrowIndex, NEW language \in Languages \ {"rust"},
                      ~ReadsOtherwise(language),
                      \/ language \in Targeting
                      \/ bundle.signature_target \in {NoValue, Step8Target}
                      \/ ReceiptError(bundle) # "none"
               PROVE  outcome[language] = outcome["rust"]
    BY DEF LanguagesAgree
  <2>1. WellReceipt(bundle.receipt)
    BY DEF Inv, Verified, Whole
  <2>2. outcome[language] = PortVerify(language, bundle)
        /\ outcome["rust"] = VerifyReceiptBundle(bundle)
    BY DEF Inv, Verified, Languages, VerifiedBy
  <2>3. PortReceiptError(language, bundle) = ReceiptError(bundle)
    BY <2>1, ReceiptErrorsAgree DEF NarrowIndex, ReadsOtherwise
  <2>4. CanonicalTarget \notin {NoValue, Step8Target}
    BY BundlePresenceAssumption DEF CanonicalTarget, Step8Target
  <2>5. CASE ReceiptError(bundle) # "none"
    BY <2>2, <2>3, <2>5 DEF PortVerify, VerifyReceiptBundle
  <2>6. CASE language = "go"
    <3>1. ~(bundle.signature_target = CanonicalTarget /\ bundle.document_canonical_hash = NoText)
      BY <2>6 DEF ReadsOtherwise
    <3>2. GoSignatureError(bundle) = SignatureError(bundle)
      BY <2>4, <3>1 DEF GoSignatureError, SignatureError, SignedOver, SignedAnchor
    <3> QED
      BY <2>2, <2>3, <2>6, <3>2 DEF PortVerify, VerifyReceiptBundle
  <2>7. CASE language # "go" /\ bundle.signature_target \in {NoValue, Step8Target}
    <3>1. PlainSignatureError(bundle) = SignatureError(bundle)
      BY <2>4, <2>7 DEF PlainSignatureError, SignatureError, SignedOver, SignedAnchor
    <3> QED
      BY <2>2, <2>3, <2>7, <3>1 DEF PortVerify, VerifyReceiptBundle
  <2> QED
    BY <2>5, <2>6, <2>7 DEF Targeting
<1> QED
  BY <1>1, Invariance, PTL

-----------------------------------------------------------------------------
(* The bundle of an unaltered proof.                                       *)

\* A receipt with nothing that a language has its own way with.
InOrder(r) ==
  /\ r.index_form = "whole"
  /\ NoValue \notin {r.body.record_input_hash, r.body.record_output_hash}
  /\ NoText \notin {r.record_chain_hash, r.body.record_id, r.body.pattern_tag}

\* What it has in its fields, whichever language extracted it.
LEMMA GenuineBundle ==
  ASSUME NEW p \in Profiles, NEW record \in Records, ExtractError(Issued[p], record) = "none",
         NEW port
  PROVE  LET b == ExtractedBy(port, Issued[p], record)
             r == b.receipt
         IN  /\ b.bundle_version = "1.0" /\ b.bundle_type = "receipt"
             /\ b.signature = Sign(b.verification_key, SignedMessage(Issued[p]))
             /\ b.step_8_chain_hash = Last(Issued[p].chain).chain_hash
             /\ port \in Targeting =>
                  /\ b.signature_target = SignatureTarget(p.version)
                  /\ b.signature_target = CanonicalTarget =>
                       b.document_canonical_hash = RecomputeCanonicalHash(Issued[p])
             /\ port \notin Targeting => b.signature_target = NoValue
             /\ WellReceipt(r) /\ r.record_index < IndexModulus /\ InOrder(r)
             /\ ReceiptError(b) = "none"
<1> DEFINE d == Issued[p]
           e == ExtractReceiptBundle(d, record)
           b == ExtractedBy(port, d, record)
           receipts == IssuedReceipts(p)
           leaves == [i \in DOMAIN receipts |-> receipts[i].record_chain_hash]
<1>1. /\ d.record_receipts # NoValue /\ ~(record >= Len(d.record_receipts))
      /\ d.signature # NoValue
  BY DEF ExtractError
<1>2. /\ d.cdp_version = p.version /\ d.capsule_id = p.capsule /\ d.public_key = p.key
      /\ d.record_receipts = receipts
      /\ p.receipts # NoValue => d.record_receipts_merkle_root = MerkleRoot(leaves)
  BY IssuedForBundles
<1>3. p.receipts # NoValue
  BY <1>1, <1>2 DEF IssuedReceipts
<1>4. /\ IsList(receipts)
      /\ \A i \in DOMAIN receipts :
           /\ i \in DOMAIN p.receipts
           /\ receipts[i].record_index = i - 1 /\ receipts[i].body = p.receipts[i]
           /\ receipts[i].record_chain_hash = RecordHash(p.capsule, i - 1, p.receipts[i])
      /\ IsList(leaves) /\ Len(leaves) = Len(receipts) /\ DOMAIN leaves = DOMAIN receipts
  BY <1>3, IssuedBatch
<1>5. record \in Nat /\ record < IndexModulus /\ IndexModulus \in Nat \ {0}
  BY RecordsAssumption, IndexModulusAssumption
<1>6. record + 1 \in DOMAIN receipts /\ record < Len(receipts)
  BY <1>1, <1>2, <1>4, <1>5 DEF IsList
<1>7. d.signature = Sign(p.key, SignedMessage(d))
  BY <1>1, IssuedSignature
<1>8. leaves[record + 1] = receipts[record + 1].record_chain_hash
  BY <1>6
<1>9. record % IndexModulus = record
  BY <1>5
<1>10. RootOnPath(leaves[record + 1], record, InclusionPath(leaves, record)) = MerkleRoot(leaves)
  <2> HIDE DEF leaves, receipts
  <2> QED
    BY <1>4, <1>5, <1>6, IssuedPathLeadsToRoot
<1>11. /\ e.bundle_version = "1.0" /\ e.bundle_type = "receipt"
       /\ e.signature = d.signature /\ e.verification_key = d.public_key
       /\ e.step_8_chain_hash = Last(d.chain).chain_hash
       /\ e.signature_target = SignatureTarget(d.cdp_version)
       /\ e.signature_target = CanonicalTarget =>
            e.document_canonical_hash = RecomputeCanonicalHash(d)
       /\ e.capsule_id = d.capsule_id
       /\ e.record_receipts_merkle_root = d.record_receipts_merkle_root
  BY DEF ExtractReceiptBundle
<1>12. /\ e.receipt.record_index = d.record_receipts[record + 1].record_index
       /\ e.receipt.index_form = "whole"
       /\ e.receipt.body = d.record_receipts[record + 1].body
       /\ e.receipt.record_chain_hash = d.record_receipts[record + 1].record_chain_hash
       /\ e.receipt.merkle_inclusion_proof
            = InclusionPath([i \in DOMAIN d.record_receipts |-> d.record_receipts[i].record_chain_hash],
                            record)
  BY DEF ExtractReceiptBundle, WithPath
<1>13. Whole(e)
  BY ExtractedIsWhole, IssuedCirculates
<1> DEFINE u == Untargeted(e)
<1>14. u.signature_target = NoValue
       /\ \A f \in BundleFields \ {"signature_target", "document_canonical_hash"} : u[f] = e[f]
  <2> HIDE DEF e
  <2> QED
    BY <1>13 DEF Whole, BundleFields, Untargeted
<1>15. b = IF port \in Targeting THEN e ELSE u
  BY DEF ExtractedBy, ExtractPlain
<1> HIDE DEF b, e, u, d
<1>16. /\ \A f \in BundleFields \ {"signature_target", "document_canonical_hash"} : b[f] = e[f]
       /\ port \in Targeting => b = e
       /\ port \notin Targeting => b.signature_target = NoValue
  BY <1>14, <1>15
<1>17. /\ b.bundle_version = e.bundle_version /\ b.bundle_type = e.bundle_type
       /\ b.signature = e.signature /\ b.verification_key = e.verification_key
       /\ b.step_8_chain_hash = e.step_8_chain_hash /\ b.capsule_id = e.capsule_id
       /\ b.record_receipts_merkle_root = e.record_receipts_merkle_root
       /\ b.receipt = e.receipt
  BY <1>16 DEF BundleFields
<1> DEFINE r == b.receipt
<1>18. /\ r.record_index = record /\ r.index_form = "whole"
       /\ r.body = p.receipts[record + 1]
       /\ r.record_chain_hash = RecordHash(p.capsule, record, p.receipts[record + 1])
       /\ r.record_chain_hash = leaves[record + 1]
       /\ r.merkle_inclusion_proof = InclusionPath(leaves, record)
  <2>1. (record + 1) - 1 = record
    BY <1>5
  <2> QED
    BY <1>2, <1>4, <1>6, <1>8, <1>12, <1>17, <2>1
<1>19. WellReceipt(r)
  BY <1>13, <1>17 DEF Whole
<1>20. InOrder(r) /\ ~Misshapen(r)
  <2> DEFINE body == p.receipts[record + 1]
  <2>1. record + 1 \in DOMAIN p.receipts /\ (record + 1) - 1 = record
    BY <1>4, <1>5, <1>6
  <2>2. /\ {NoValue, NoText} \cap {body.record_id, RecordHash(p.capsule, record, body)} = {}
        /\ NoValue \notin {body.record_input_hash, body.record_output_hash}
        /\ body.pattern_tag # NoText
    BY <1>3, <2>1, BundlePresenceAssumption
  <2>3. record # NoValue
    BY <1>5, BundlePresenceAssumption
  <2> HIDE DEF body
  <2>4. r.body = body /\ r.record_chain_hash = RecordHash(p.capsule, record, body)
    BY <1>18 DEF body
  <2> QED
    BY <1>18, <2>2, <2>3, <2>4 DEF InOrder, Misshapen
<1>21. ReceiptHash(b.capsule_id, r) = r.record_chain_hash
  BY <1>2, <1>11, <1>17, <1>18 DEF ReceiptHash
<1>22. VerifyMerkleInclusionProof(r.record_chain_hash, r.record_index % IndexModulus,
         r.merkle_inclusion_proof, b.record_receipts_merkle_root)
  BY <1>2, <1>3, <1>9, <1>10, <1>11, <1>17, <1>18 DEF VerifyMerkleInclusionProof
<1>23. ReceiptError(b) = "none"
  BY <1>20, <1>21, <1>22 DEF ReceiptError
<1>24. r.record_index < IndexModulus
  BY <1>5, <1>18
<1>25. b.signature = Sign(b.verification_key, SignedMessage(d))
  BY <1>2, <1>7, <1>11, <1>17
<1> QED
  BY <1>2, <1>11, <1>16, <1>17, <1>19, <1>20, <1>23, <1>24, <1>25 DEF b, d

\* Messages of different kinds differ, and a proof signs one of its own version.
LEMMA MessageKinds ==
  ASSUME NEW p \in Profiles
  PROVE  LET message == SignedMessage(Issued[p])
             step8   == Last(Issued[p].chain).chain_hash
             hash    == RecomputeCanonicalHash(Issued[p])
         IN  /\ message = step8 <=> p.version = "1.0"
             /\ message = hash <=> p.version \in CanonicalViewSignedVersions
             /\ p.version = "1.0" => p.version \notin CanonicalViewSignedVersions
<1>1. p.version \in {"1.0", "2.0", "2.1", "2.2"}
  BY IssuerAssumption DEF SupportedVersions
<1>2. CanonicalViewSignedVersions = {"2.1", "2.2"}
  BY DEF CanonicalViewSignedVersions
<1>3. PICK roots : Last(Issued[p].chain).chain_hash = <<"step", ChainSteps, p.at, roots>>
  BY MessagesByVersion
<1>4. \E view : RecomputeCanonicalHash(Issued[p]) = <<"canonical", view>>
  BY DEF RecomputeCanonicalHash
<1>5. CASE p.version = "1.0"
  <2>1. SignedMessage(Issued[p]) = Last(Issued[p].chain).chain_hash
    BY <1>5, MessagesByVersion
  <2>2. SignedMessage(Issued[p]) # RecomputeCanonicalHash(Issued[p])
    BY <1>3, <1>4, <2>1
  <2> QED
    BY <1>2, <1>5, <2>1, <2>2
<1>6. CASE p.version = "2.0"
  <2>1. PICK view : SignedMessage(Issued[p]) = <<"document", view>>
    BY <1>6, MessagesByVersion
  <2> QED
    BY <1>2, <1>3, <1>4, <1>6, <2>1
<1>7. CASE p.version \in {"2.1", "2.2"}
  BY <1>2, <1>3, <1>4, <1>7, MessagesByVersion
<1> QED
  BY <1>1, <1>5, <1>6, <1>7

\* The bundle of an unaltered proof verifies: of one that signs step 8 in every
\* language, whichever extracted it; of one that signs its canonical view from
\* Rust or Go to Rust or Go.
THEOREM GenuineMeansAccepted == Spec => []GenuineBundleVerifies
<1>1. Inv => GenuineBundleVerifies
  <2> SUFFICES ASSUME Inv, Verified, changes = 0, NEW language \in Languages,
                      \/ source.version = "1.0"
                      \/ /\ source.version \in CanonicalViewSignedVersions
                         /\ {extractor, language} \subseteq Targeting
               PROVE  Accepted(language)
    BY DEF GenuineBundleVerifies
  <2> DEFINE message == SignedMessage(Issued[source])
             step8 == Last(Issued[source].chain).chain_hash
             hash == RecomputeCanonicalHash(Issued[source])
  <2>1. source \in Profiles /\ proof = Issued[source] /\ ~tampered /\ bundle # NoValue
    BY DEF Inv, Verified
  <2>2. PICK record \in Records : /\ ExtractError(Issued[source], record) = "none"
                                  /\ bundle = ExtractedBy(extractor, Issued[source], record)
    BY <2>1 DEF Inv, Untouched
  <2>3. /\ bundle.bundle_version = "1.0" /\ bundle.bundle_type = "receipt"
        /\ bundle.signature = Sign(bundle.verification_key, message)
        /\ bundle.step_8_chain_hash = step8
        /\ extractor \in Targeting =>
             /\ bundle.signature_target = SignatureTarget(source.version)
             /\ bundle.signature_target = CanonicalTarget => bundle.document_canonical_hash = hash
        /\ extractor \notin Targeting => bundle.signature_target = NoValue
        /\ WellReceipt(bundle.receipt) /\ bundle.receipt.record_index < IndexModulus
        /\ InOrder(bundle.receipt)
        /\ ReceiptError(bundle) = "none"
    BY <2>1, <2>2, GenuineBundle
  <2>4. /\ message = step8 <=> source.version = "1.0"
        /\ message = hash <=> source.version \in CanonicalViewSignedVersions
        /\ source.version = "1.0" => source.version \notin CanonicalViewSignedVersions
    BY <2>1, MessageKinds
  <2>5. hash \notin {NoValue, NoText} /\ CanonicalTarget \notin {NoValue, Step8Target}
    BY <2>1, BundlePresenceAssumption DEF CanonicalTarget, Step8Target
  <2>6. language # "rust" => PortReceiptError(language, bundle) = "none"
    BY <2>3, ReceiptErrorsAgree DEF InOrder
  <2>7. Accepted(language) <=> VerifiedBy(language, bundle) = "none"
    BY DEF Inv, Accepted
  <2> HIDE DEF message, step8, hash
  <2>8. bundle.signature_target
          = IF extractor \in Targeting /\ source.version \in CanonicalViewSignedVersions
              THEN CanonicalTarget ELSE NoValue
    BY <2>3 DEF SignatureTarget
  <2> DEFINE anchor == IF language \in Targeting /\ bundle.signature_target = CanonicalTarget
                         THEN hash ELSE step8
  <2>9. VerifiedBy(language, bundle) = "none" <=> message = anchor
    <3>1. CASE language = "rust"
      <4>1. VerifiedBy(language, bundle) = SignatureError(bundle)
        BY <2>3, <3>1 DEF VerifiedBy, VerifyReceiptBundle
      <4>2. SignatureError(bundle) = "none" <=> message = SignedAnchor(bundle)
        BY <2>3, <2>5, <2>8 DEF SignatureError, SignedAnchor, Sign
      <4>3. SignedAnchor(bundle) = anchor
        BY <2>3, <2>5, <2>8, <3>1 DEF SignedAnchor, Targeting
      <4> QED
        BY <4>1, <4>2, <4>3
    <3>2. CASE language = "go"
      <4>1. VerifiedBy(language, bundle) = GoSignatureError(bundle)
        BY <2>3, <2>6, <3>2 DEF VerifiedBy, PortVerify
      <4>2. GoSignatureError(bundle) = SignedOver(bundle, anchor)
        BY <2>3, <2>5, <2>8, <3>2 DEF GoSignatureError, Targeting
      <4> QED
        BY <2>3, <4>1, <4>2 DEF SignedOver, Sign
    <3>3. CASE language \in {"python", "typescript"}
      <4>1. VerifiedBy(language, bundle) = PlainSignatureError(bundle)
        BY <2>3, <2>6, <3>3 DEF VerifiedBy, PortVerify
      <4> QED
        BY <2>3, <3>3, <4>1 DEF PlainSignatureError, SignedOver, Sign, Targeting
    <3> QED
      BY <3>1, <3>2, <3>3 DEF Languages
  <2> QED
    BY <2>4, <2>5, <2>7, <2>8, <2>9
<1> QED
  BY <1>1, Invariance, PTL
=============================================================================
