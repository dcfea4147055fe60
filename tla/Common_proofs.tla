---------------------------- MODULE Common_proofs ----------------------------
(***************************************************************************)
(* Facts the other proofs share: the least of a set of numbers, induction  *)
(* over a set of them, what the lookups of the code answer with, which     *)
(* take the first entry of a list that matches, and what a Merkle root     *)
(* says of its leaves.                                                     *)
(***************************************************************************)
EXTENDS TrustChain, Merkle, Integers, FiniteSetTheorems, WellFoundedInduction, TLAPS

-----------------------------------------------------------------------------
(* Numbers.                                                                *)

\* A set of natural numbers that has a member has a least one.
LEMMA LeastNumber ==
  ASSUME NEW S, S \subseteq Nat, S # {}
  PROVE  \E least \in S : \A j \in S : least <= j
<1> DEFINE Less == {pair \in Nat \X Nat : pair[1] < pair[2]}
<1>1. IsWellFoundedOn(Less, Nat)
  BY NatLessThanWellFounded, Zenon DEF OpToRel
<1> HIDE DEF Less
<1>2. PICK least \in S : \A j \in S : <<j, least>> \notin Less
  BY <1>1, WFMin
<1>3. \A j \in S : j \in Nat /\ least \in Nat /\ ~(j < least)
  BY <1>2 DEF Less
<1> QED
  BY <1>3

\* CHOOSE finds it.
LEMMA ChosenLeast ==
  ASSUME NEW S, S \subseteq Nat, S # {}
  PROVE  LET least == CHOOSE i \in S : \A j \in S : i <= j
         IN  least \in S /\ \A j \in S : least <= j
BY LeastNumber

\* Induction, over the set of the numbers that have a property.
LEMMA SetInduction ==
  ASSUME NEW S, 0 \in S, \A n \in Nat : n \in S => n + 1 \in S
  PROVE  Nat \subseteq S
<1> SUFFICES ASSUME Nat \ S # {} PROVE FALSE
  OBVIOUS
<1>1. PICK least \in Nat \ S : \A j \in Nat \ S : least <= j
  BY LeastNumber
<1>2. least - 1 \in Nat /\ least - 1 \notin Nat \ S
  BY <1>1
<1> QED
  BY <1>1, <1>2

\* The same over the numbers up to a bound.
LEMMA BoundedInduction ==
  ASSUME NEW S, NEW N \in Nat, 0 \in S, \A n \in 0 .. N - 1 : n \in S => n + 1 \in S
  PROVE  0 .. N \subseteq S
<1> DEFINE T == S \cup {n \in Nat : n > N}
<1>1. 0 \in T /\ \A n \in Nat : n \in T => n + 1 \in T
  OBVIOUS
<1> HIDE DEF T
<1>2. Nat \subseteq T
  BY <1>1, SetInduction
<1> QED
  BY <1>2 DEF T

-----------------------------------------------------------------------------
(* Sequences, of whatever elements.                                        *)

IsList(list) == Len(list) \in Nat /\ DOMAIN list = 1 .. Len(list)

\* The empty sequence is one.
LEMMA EmptyIsList == IsList(<<>>) /\ Len(<<>>) = 0 /\ DOMAIN <<>> = {} /\ 1 .. 0 = {}
BY DEF IsList

\* One element is replaced.
LEMMA ReplacedList ==
  ASSUME NEW list, IsList(list), NEW i \in DOMAIN list, NEW x
  PROVE  LET new == [list EXCEPT ![i] = x]
         IN  /\ IsList(new) /\ Len(new) = Len(list) /\ DOMAIN new = DOMAIN list
             /\ new[i] = x
             /\ \A j \in DOMAIN list : j # i => new[j] = list[j]
BY DEF IsList

\* One element is appended.
LEMMA AppendedList ==
  ASSUME NEW list, IsList(list), NEW x
  PROVE  LET new == Append(list, x)
         IN  /\ IsList(new) /\ Len(new) = Len(list) + 1 /\ DOMAIN new = 1 .. Len(list) + 1
             /\ new[Len(list) + 1] = x
             /\ \A j \in DOMAIN list : new[j] = list[j]
BY DEF IsList

-----------------------------------------------------------------------------
(* The trust-chain lookup.                                                 *)

\* FirstOf returns an entry of the list with the version asked for, or nothing.
LEMMA FirstOfIsAnEntry ==
  ASSUME NEW list, NEW version, IsList(list), FirstOf(list, version) # NoValue
  PROVE  \E i \in DOMAIN list :
           FirstOf(list, version) = list[i] /\ list[i].signing_key_version = version
<1> DEFINE hits == {i \in DOMAIN list : list[i].signing_key_version = version}
<1>1. hits # {} /\ hits \subseteq Nat
  BY DEF FirstOf, IsList
<1>2. (CHOOSE i \in hits : \A j \in hits : i <= j) \in hits
  BY <1>1, ChosenLeast
<1> QED
  BY <1>1, <1>2 DEF FirstOf

\* It returns one if there is one: an entry is a record, and NoValue is none.
LEMMA FirstOfFinds ==
  ASSUME NEW list, NEW version, NEW i \in DOMAIN list, IsList(list),
         list[i].signing_key_version = version, \A j \in DOMAIN list : list[j] # NoValue
  PROVE  FirstOf(list, version) # NoValue
<1> DEFINE hits == {j \in DOMAIN list : list[j].signing_key_version = version}
<1>1. hits # {} /\ hits \subseteq Nat
  BY DEF IsList
<1>2. (CHOOSE k \in hits : \A j \in hits : k <= j) \in hits
  BY <1>1, ChosenLeast
<1> QED
  BY <1>1, <1>2 DEF FirstOf

\* find_key answers with an entry of the authority's own record, active or
\* archived, of the version asked for, and with the revocation of that record.
LEMMA FindKeyIsAnEntry ==
  ASSUME NEW manifest, NEW a, NEW version, FindKey(manifest, a, version) # NoValue,
         a \in DOMAIN manifest => /\ IsList(manifest[a].active_versions)
                                  /\ IsList(manifest[a].archived_versions)
  PROVE  LET found    == FindKey(manifest, a, version)
             active   == manifest[a].active_versions
             archived == manifest[a].archived_versions
         IN  /\ a \in DOMAIN manifest
             /\ found.revoked = manifest[a].revoked
             /\ found.record.signing_key_version = version
             /\ \/ /\ found.status = "Active"
                   /\ \E i \in DOMAIN active : found.record = active[i]
                \/ /\ found.status = "Archived"
                   /\ FirstOf(active, version) = NoValue
                   /\ \E i \in DOMAIN archived : found.record = archived[i]
<1> DEFINE active   == manifest[a].active_versions
           archived == manifest[a].archived_versions
<1>1. a \in DOMAIN manifest
  BY DEF FindKey
<1>2. CASE FirstOf(active, version) # NoValue
  <2>1. FindKey(manifest, a, version) = Lookup(FirstOf(active, version), manifest[a], "Active")
    BY <1>1, <1>2 DEF FindKey
  <2>2. \E i \in DOMAIN active :
          FirstOf(active, version) = active[i] /\ active[i].signing_key_version = version
    BY <1>1, <1>2, FirstOfIsAnEntry
  <2> QED
    BY <1>1, <2>1, <2>2 DEF Lookup
<1>3. CASE FirstOf(active, version) = NoValue
  <2>1. /\ FirstOf(archived, version) # NoValue
        /\ FindKey(manifest, a, version)
             = Lookup(FirstOf(archived, version), manifest[a], "Archived")
    BY <1>1, <1>3 DEF FindKey
  <2>2. \E i \in DOMAIN archived :
          FirstOf(archived, version) = archived[i] /\ archived[i].signing_key_version = version
    BY <1>1, <2>1, FirstOfIsAnEntry
  <2> QED
    BY <1>1, <1>3, <2>1, <2>2 DEF Lookup
<1> QED
  BY <1>2, <1>3

\* So the key is one that the authority publishes.
LEMMA FindKeyIsPublished ==
  ASSUME NEW manifest, NEW a, NEW version, FindKey(manifest, a, version) # NoValue,
         a \in DOMAIN manifest => /\ IsList(manifest[a].active_versions)
                                  /\ IsList(manifest[a].archived_versions)
  PROVE  /\ a \in DOMAIN manifest
         /\ FindKey(manifest, a, version).revoked = manifest[a].revoked
         /\ FindKey(manifest, a, version).record.public_key
              \in PublishedKeys([b \in {a} |-> manifest[a]])
<1> DEFINE one == [b \in {a} |-> manifest[a]]
           found == FindKey(manifest, a, version)
<1>1. ASSUME NEW list \in {manifest[a].active_versions, manifest[a].archived_versions},
             NEW i \in DOMAIN list
      PROVE  list[i].public_key \in PublishedKeys(one)
  BY <1>1 DEF PublishedKeys
<1>2. /\ a \in DOMAIN manifest
      /\ found.revoked = manifest[a].revoked
      /\ \/ \E i \in DOMAIN manifest[a].active_versions : found.record = manifest[a].active_versions[i]
         \/ \E i \in DOMAIN manifest[a].archived_versions :
              found.record = manifest[a].archived_versions[i]
  BY FindKeyIsAnEntry
<1> QED
  BY <1>1, <1>2

\* What one authority publishes, the manifest publishes.
LEMMA PublishedByOne ==
  ASSUME NEW manifest, NEW a \in DOMAIN manifest
  PROVE  PublishedKeys([b \in {a} |-> manifest[a]]) \subseteq PublishedKeys(manifest)
BY DEF PublishedKeys

-----------------------------------------------------------------------------
(* The receipt / parent / activity-record tree.                            *)

Members(list) == {list[i] : i \in DOMAIN list}

\* The levels of a tree: each pairs the one below it, up to a single node.
Tree(level, height) ==
  /\ \A k \in 0 .. height : IsList(level[k])
  /\ \A k \in 0 .. height - 1 : Len(level[k]) > 1 /\ level[k + 1] = PairLevel(level[k])
  /\ Len(level[height]) = 1

\* The levels are computed from the leaves up.
LEMMA LevelsUnfold ==
  ASSUME NEW leaves, IsList(leaves)
  PROVE  /\ PairLevels(leaves)[0] = leaves
         /\ \A k \in 1 .. Len(leaves) : PairLevels(leaves)[k] = PairLevel(PairLevels(leaves)[k - 1])
<1> DEFINE N == Len(leaves)
           Entry(f, n) == IF n = 0 THEN leaves ELSE PairLevel(f[n - 1])
           Chain(f, m) == f = [n \in 0 .. m |-> Entry(f, n)]
           S == {m \in 0 .. N : \E f : Chain(f, m)}
<1>1. N \in Nat
  BY DEF IsList
<1>2. PairLevels(leaves) = CHOOSE f : Chain(f, N)
  BY DEF PairLevels
<1> HIDE DEF N, Entry
<1>3. ASSUME NEW f, NEW m, Chain(f, m), NEW n \in 0 .. m
      PROVE  f[n] = Entry(f, n)
  BY <1>3
<1>4. 0 \in S
  <2> DEFINE f == [n \in 0 .. 0 |-> leaves]
  <2>1. Chain(f, 0) /\ 0 \in 0 .. N
    BY <1>1 DEF Entry
  <2> QED
    BY <2>1, Zenon
<1>5. ASSUME NEW m \in 0 .. N - 1, m \in S PROVE m + 1 \in S
  <2>1. PICK f : Chain(f, m)
    BY <1>5
  <2> DEFINE g == [n \in 0 .. m + 1 |-> IF n = m + 1 THEN PairLevel(f[m]) ELSE f[n]]
  <2>2. ASSUME NEW n \in 0 .. m + 1
        PROVE  g[n] = Entry(g, n)
    <3>1. \A l \in 0 .. m : f[l] = Entry(f, l) /\ g[l] = f[l]
      <4> HIDE DEF Chain
      <4>1. \A l \in 0 .. m : f[l] = Entry(f, l)
        BY <1>3, <2>1
      <4> QED
        BY <1>1, <4>1
    <3>2. CASE n = m + 1
      <4>1. g[n] = PairLevel(f[m]) /\ n # 0 /\ n - 1 = m /\ m \in 0 .. m
        BY <1>1, <3>2
      <4> QED
        BY <3>1, <3>2, <4>1 DEF Entry
    <3>3. CASE n \in 0 .. m
      <4>1. n # 0 => n - 1 \in 0 .. m
        BY <1>1, <3>3
      <4> HIDE DEF g
      <4> QED
        BY <3>1, <3>3, <4>1 DEF Entry
    <3> QED
      BY <1>1, <3>2, <3>3
  <2>3. Chain(g, m + 1)
    BY <2>2
  <2>4. m + 1 \in 0 .. N
    BY <1>1
  <2> QED
    BY <2>3, <2>4, Zenon
<1>6. N \in S
  <2> HIDE DEF S
  <2>1. 0 .. N \subseteq S
    BY <1>1, <1>4, <1>5, BoundedInduction
  <2> QED
    BY <1>1, <2>1
<1>7. Chain(PairLevels(leaves), N)
  BY <1>2, <1>6
<1> DEFINE f == PairLevels(leaves)
<1> HIDE DEF Chain, f
<1>8. \A n \in 0 .. N : f[n] = Entry(f, n)
  BY <1>3, <1>7 DEF f
<1>9. 0 \in 0 .. N /\ \A n \in 1 .. N : n \in 0 .. N /\ n # 0
  BY <1>1
<1>10. f[0] = leaves /\ \A n \in 1 .. N : f[n] = PairLevel(f[n - 1])
  BY <1>8, <1>9 DEF Entry
<1> QED
  BY <1>10 DEF f, N

\* Half of an even number, or of the one below an odd number.
LEMMA Halves ==
  ASSUME NEW n \in Nat
  PROVE  /\ n \div 2 \in Nat
         /\ n = 2 * (n \div 2) \/ n = 2 * (n \div 2) + 1
OBVIOUS

\* A level above one of several nodes pairs these, a last odd one with itself.
LEMMA PairsOfLevel ==
  ASSUME NEW level, IsList(level), Len(level) > 1
  PROVE  LET n   == Len(level)
             new == PairLevel(level)
         IN  /\ IsList(new) /\ Len(new) = (n + 1) \div 2 /\ Len(new) >= 1 /\ Len(new) < n
             /\ \A i \in DOMAIN new :
                  /\ 2 * i - 1 \in DOMAIN level
                  /\ 2 * i <= n => 2 * i \in DOMAIN level
                  /\ new[i] = PairHash(level[2 * i - 1],
                                      IF 2 * i <= n THEN level[2 * i] ELSE level[2 * i - 1])
             /\ \A j \in DOMAIN level :
                  \E i \in DOMAIN new : j = 2 * i - 1 \/ (j = 2 * i /\ 2 * i <= n)
<1> DEFINE n   == Len(level)
           new == PairLevel(level)
           half == (n + 1) \div 2
<1>1. n \in Nat /\ DOMAIN level = 1 .. n
  BY DEF IsList
<1>2. half \in Nat /\ half >= 1 /\ half < n /\ (n = 2 * half \/ n + 1 = 2 * half)
  <2>1. n + 1 \in Nat /\ n > 1
    BY <1>1
  <2>2. half \in Nat /\ (n + 1 = 2 * half \/ n + 1 = 2 * half + 1)
    BY <2>1, Halves
  <2> HIDE DEF half, n
  <2> QED
    BY <1>1, <2>1, <2>2
<1>3. new = [i \in 1 .. half |-> PairHash(level[2 * i - 1],
                                          IF 2 * i <= n THEN level[2 * i] ELSE level[2 * i - 1])]
  BY DEF PairLevel
<1> HIDE DEF half, new
<1>4. DOMAIN new = 1 .. half /\ Len(new) = half
  BY <1>2, <1>3
<1>5. \A i \in 1 .. half : 2 * i - 1 \in 1 .. n /\ (2 * i <= n => 2 * i \in 1 .. n)
  <2> HIDE DEF n
  <2> QED
    BY <1>1, <1>2
<1>6. ASSUME NEW j \in 1 .. n
      PROVE  \E i \in 1 .. half : j = 2 * i - 1 \/ (j = 2 * i /\ 2 * i <= n)
  <2> DEFINE i == (j + 1) \div 2
  <2>1. j + 1 \in Nat /\ j \in Nat /\ j >= 1 /\ j <= n
    BY <1>1
  <2>2. i \in Nat /\ (j + 1 = 2 * i \/ j + 1 = 2 * i + 1)
    BY <2>1, Halves
  <2> HIDE DEF i, n
  <2>3. i \in 1 .. half
    BY <1>1, <1>2, <2>1, <2>2
  <2> QED
    BY <1>1, <2>1, <2>2, <2>3
<1>7. \A i \in 1 .. half : new[i] = PairHash(level[2 * i - 1],
                                      IF 2 * i <= n THEN level[2 * i] ELSE level[2 * i - 1])
  BY <1>3
<1>8. IsList(new)
  BY <1>2, <1>4 DEF IsList
<1> QED
  BY <1>1, <1>2, <1>4, <1>5, <1>6, <1>7, <1>8 DEF half, new

\* The loop ends in one node, the root, fewer turns than there are leaves later.
LEMMA TreeOf ==
  ASSUME NEW leaves, IsList(leaves), Len(leaves) # 0
  PROVE  \E height \in Nat :
           /\ Tree(PairLevels(leaves), height)
           /\ PairLevels(leaves)[0] = leaves
           /\ PairLevels(leaves)[height][1] = MerkleRoot(leaves)
           /\ Height(leaves) = height
<1> DEFINE N == Len(leaves)
           level == PairLevels(leaves)
           size(k) == Len(level[k])
           Shrinks(k) == /\ IsList(level[k])
                         /\ size(k) \in Nat /\ size(k) >= 1
                         /\ size(k) = 1 \/ size(k) + k <= N
           S == {k \in 0 .. N : Shrinks(k)}
<1>1. N \in Nat /\ N >= 1 /\ leaves # <<>>
  BY EmptyIsList DEF IsList
<1>2. level[0] = leaves /\ \A k \in 1 .. N : level[k] = PairLevel(level[k - 1])
  BY LevelsUnfold
<1>3. level[0] = leaves /\ IsList(level[0]) /\ size(0) = N
  BY <1>2
<1> HIDE DEF N, level
<1>4. \A k \in 0 .. N - 1 : level[k + 1] = PairLevel(level[k])
  <2> TAKE k \in 0 .. N - 1
  <2>1. k + 1 \in 1 .. N /\ (k + 1) - 1 = k
    BY <1>1
  <2> QED
    BY <1>2, <2>1
<1>5. \A k \in 0 .. N - 1 : size(k) = 1 => level[k + 1] = level[k] /\ size(k + 1) = 1
  <2> TAKE k \in 0 .. N - 1
  <2>1. Len(level[k]) = 1 => Len(level[k]) <= 1
    OBVIOUS
  <2>2. size(k) = 1 => PairLevel(level[k]) = level[k]
    BY <2>1, Zenon DEF PairLevel, size
  <2>3. size(k) = 1 => level[k + 1] = level[k]
    BY <1>4, <2>2
  <2> QED
    BY <2>3
<1>6. \A k \in 0 .. N - 1 : IsList(level[k]) /\ size(k) > 1 =>
        /\ IsList(level[k + 1]) /\ size(k + 1) \in Nat
        /\ size(k + 1) >= 1 /\ size(k + 1) < size(k)
  <2> SUFFICES ASSUME NEW k \in 0 .. N - 1, IsList(level[k]), size(k) > 1
               PROVE  /\ IsList(level[k + 1]) /\ size(k + 1) \in Nat
                      /\ size(k + 1) >= 1 /\ size(k + 1) < size(k)
    OBVIOUS
  <2>1. level[k + 1] = PairLevel(level[k])
    BY <1>4
  <2>2. IsList(level[k + 1]) /\ Len(level[k + 1]) >= 1 /\ Len(level[k + 1]) < Len(level[k])
    BY <2>1, PairsOfLevel
  <2> QED
    BY <2>2 DEF IsList
<1> HIDE DEF size
<1>7. 0 \in S
  BY <1>1, <1>3
<1>8. ASSUME NEW k \in 0 .. N - 1, k \in S PROVE k + 1 \in S
  <2>1. IsList(level[k]) /\ size(k) \in Nat /\ size(k) >= 1
    BY <1>8
  <2>2. k \in Nat /\ k + 1 \in 0 .. N
    BY <1>1
  <2>3. CASE size(k) = 1
    BY <1>5, <2>1, <2>2, <2>3
  <2>4. CASE size(k) > 1
    BY <1>1, <1>6, <1>8, <2>2, <2>4
  <2> QED
    BY <2>1, <2>3, <2>4
<1>9. \A k \in 0 .. N : Shrinks(k)
  <2> HIDE DEF Shrinks
  <2>1. 0 .. N \subseteq S
    <3> HIDE DEF S
    <3> QED
      BY <1>1, <1>7, <1>8, BoundedInduction
  <2> QED
    BY <2>1
<1> DEFINE single == {k \in 0 .. N : size(k) = 1}
<1>10. N \in single
  <2>1. Shrinks(N) /\ N \in 0 .. N
    BY <1>1, <1>9
  <2> QED
    BY <1>1, <2>1
<1>11. PICK height \in single : \A k \in single : height <= k
  <2>1. single # {} /\ single \subseteq Nat
    BY <1>1, <1>10
  <2> HIDE DEF single
  <2> QED
    BY <2>1, LeastNumber
<1>12. height \in 0 .. N /\ size(height) = 1
  BY <1>11
<1>13. Tree(level, height)
  <2>1. ASSUME NEW k \in 0 .. height - 1
        PROVE  size(k) > 1 /\ level[k + 1] = PairLevel(level[k])
    <3>1. k \in 0 .. N - 1 /\ k \in 0 .. N /\ k < height
      BY <1>1, <1>12
    <3>2. size(k) # 1
      BY <1>1, <1>11, <1>12, <3>1
    <3>3. size(k) > 1
      BY <1>9, <3>1, <3>2
    <3> QED
      BY <1>4, <3>1, <3>3
  <2>2. \A k \in 0 .. height : IsList(level[k])
    BY <1>1, <1>9, <1>12
  <2> QED
    BY <1>12, <2>1, <2>2 DEF Tree, size
<1> DEFINE T == {k \in 0 .. N : k >= height => level[k] = level[height] /\ size(k) = 1}
<1>14. \A k \in 0 .. N : k \in T
  <2>1. 0 \in T
    BY <1>1, <1>12
  <2>2. ASSUME NEW k \in 0 .. N - 1, k \in T PROVE k + 1 \in T
    <3>1. CASE k >= height
      BY <1>1, <1>5, <2>2, <3>1
    <3>2. CASE k + 1 = height
      BY <1>12, <3>2
    <3>3. CASE k + 1 < height
      BY <1>1, <1>12, <3>3
    <3> QED
      BY <1>1, <1>12, <3>1, <3>2, <3>3
  <2>3. 0 .. N \subseteq T
    <3> HIDE DEF T
    <3> QED
      BY <1>1, <2>1, <2>2, BoundedInduction
  <2> QED
    BY <1>1, <2>3
<1>15. MerkleRoot(leaves) = level[N][1]
  BY <1>1 DEF MerkleRoot, level, N
<1>16. level[0] = leaves /\ level[height][1] = MerkleRoot(leaves) /\ height \in Nat
  BY <1>1, <1>3, <1>12, <1>14, <1>15
<1>17. Height(leaves) = height
  <2>1. \A k \in 0 .. N : size(k) > 1 <=> k \in 0 .. height - 1
    <3>1. \A k \in 0 .. height - 1 : size(k) > 1
      BY <1>13 DEF Tree, size
    <3>2. \A k \in 0 .. N : k >= height => size(k) = 1
      BY <1>14
    <3> QED
      BY <1>1, <1>12, <3>1, <3>2
  <2>2. {k \in 0 .. N : size(k) > 1} = 0 .. height - 1
    BY <1>1, <1>12, <2>1
  <2>3. Cardinality(0 .. height - 1) = height
    BY <1>16, FS_Interval
  <2>4. Height(leaves) = Cardinality({k \in 0 .. N : size(k) > 1})
    BY DEF Height, level, N, size
  <2> QED
    BY <2>2, <2>3, <2>4
<1> QED
  BY <1>13, <1>16, <1>17 DEF level

\* The nodes of a level are found again in the level above it.
LEMMA PairsInclude ==
  ASSUME NEW a, NEW b, IsList(a), IsList(b), Len(a) > 1, Len(b) > 1,
         Members(PairLevel(a)) \subseteq Members(PairLevel(b))
  PROVE  Members(a) \subseteq Members(b)
<1> DEFINE pa == PairLevel(a)
           pb == PairLevel(b)
<1>1. \A j \in DOMAIN a : \E i \in DOMAIN pa : \E left, right :
        pa[i] = PairHash(left, right) /\ a[j] \in {left, right}
  <2> TAKE j \in DOMAIN a
  <2>1. PICK i \in DOMAIN pa : j = 2 * i - 1 \/ (j = 2 * i /\ 2 * i <= Len(a))
    BY PairsOfLevel
  <2>2. pa[i] = PairHash(a[2 * i - 1], IF 2 * i <= Len(a) THEN a[2 * i] ELSE a[2 * i - 1])
    BY PairsOfLevel
  <2> HIDE DEF pa
  <2>3. a[j] \in {a[2 * i - 1], IF 2 * i <= Len(a) THEN a[2 * i] ELSE a[2 * i - 1]}
    BY <2>1
  <2> QED
    BY <2>2, <2>3
<1>2. \A i \in DOMAIN pb : \A left, right :
        pb[i] = PairHash(left, right) => {left, right} \subseteq Members(b)
  <2> TAKE i \in DOMAIN pb
  <2>1. /\ 2 * i - 1 \in DOMAIN b /\ (2 * i <= Len(b) => 2 * i \in DOMAIN b)
        /\ pb[i] = PairHash(b[2 * i - 1], IF 2 * i <= Len(b) THEN b[2 * i] ELSE b[2 * i - 1])
    BY PairsOfLevel
  <2> HIDE DEF pb
  <2> QED
    BY <2>1 DEF PairHash, Members
<1>3. \A i \in DOMAIN pa : \E k \in DOMAIN pb : pb[k] = pa[i]
  <2> HIDE DEF pa, pb
  <2> QED
    BY DEF Members, pa, pb
<1> HIDE DEF pa, pb
<1>4. ASSUME NEW j \in DOMAIN a PROVE a[j] \in Members(b)
  <2>1. PICK i \in DOMAIN pa : \E left, right :
          pa[i] = PairHash(left, right) /\ a[j] \in {left, right}
    BY <1>1
  <2>2. PICK left, right : pa[i] = PairHash(left, right) /\ a[j] \in {left, right}
    BY <2>1
  <2>3. PICK k \in DOMAIN pb : pb[k] = pa[i]
    BY <1>3
  <2> QED
    BY <1>2, <2>2, <2>3
<1> QED
  BY <1>4 DEF Members

\* Two trees with one root have the same nodes as many levels down as both have.
LEMMA TreesMeet ==
  ASSUME NEW level, NEW h \in Nat, Tree(level, h),
         NEW other, NEW g \in Nat, Tree(other, g), level[h][1] = other[g][1]
  PROVE  \A t \in Nat : t <= h /\ t <= g => Members(level[h - t]) = Members(other[g - t])
<1> DEFINE S == {t \in Nat : t <= h /\ t <= g => Members(level[h - t]) = Members(other[g - t])}
<1>1. 0 \in S
  <2>1. DOMAIN level[h] = {1} /\ DOMAIN other[g] = {1} /\ h - 0 = h /\ g - 0 = g
    BY DEF Tree, IsList
  <2> QED
    BY <2>1 DEF Members
<1>2. ASSUME NEW t \in Nat, t \in S PROVE t + 1 \in S
  <2> SUFFICES ASSUME t + 1 <= h, t + 1 <= g
               PROVE  Members(level[h - (t + 1)]) = Members(other[g - (t + 1)])
    OBVIOUS
  <2> DEFINE i == h - (t + 1)
             j == g - (t + 1)
  <2>1. i \in 0 .. h - 1 /\ j \in 0 .. g - 1 /\ i + 1 = h - t /\ j + 1 = g - t
          /\ i \in 0 .. h /\ j \in 0 .. g
    OBVIOUS
  <2>2. Members(level[i + 1]) = Members(other[j + 1])
    BY <1>2, <2>1
  <2> HIDE DEF i, j
  <2>3. /\ IsList(level[i]) /\ Len(level[i]) > 1 /\ level[i + 1] = PairLevel(level[i])
        /\ IsList(other[j]) /\ Len(other[j]) > 1 /\ other[j + 1] = PairLevel(other[j])
    BY <2>1 DEF Tree
  <2>4. /\ Members(level[i]) \subseteq Members(other[j])
        /\ Members(other[j]) \subseteq Members(level[i])
    BY <2>2, <2>3, PairsInclude
  <2>5. Members(level[i]) = Members(other[j])
    BY <2>4
  <2> QED
    BY <2>5 DEF i, j
<1>3. Nat \subseteq S
  <2> HIDE DEF S
  <2> QED
    BY <1>1, <1>2, SetInduction
<1> QED
  BY <1>3

\* No leaf is mistaken for an inner node.
NoInnerNode(list) == \A i \in DOMAIN list : \A left, right : list[i] # PairHash(left, right)

\* A level above the leaves consists of inner nodes, and has one.
LEMMA UpperLevels ==
  ASSUME NEW level, NEW h \in Nat, Tree(level, h), NEW k \in 1 .. h
  PROVE  \E left, right : PairHash(left, right) \in Members(level[k])
<1>1. /\ k - 1 \in 0 .. h - 1 /\ k - 1 \in 0 .. h /\ (k - 1) + 1 = k
  OBVIOUS
<1>2. /\ IsList(level[k - 1]) /\ Len(level[k - 1]) > 1 /\ level[k] = PairLevel(level[k - 1])
  BY <1>1 DEF Tree
<1>3. IsList(level[k]) /\ Len(level[k]) >= 1
  BY <1>2, PairsOfLevel
<1>4. 1 \in DOMAIN level[k]
  BY <1>3 DEF IsList
<1>5. \E left, right : level[k][1] = PairHash(left, right)
  BY <1>2, <1>4, PairsOfLevel
<1> QED
  BY <1>4, <1>5 DEF Members

\* So trees with one root, over leaves that are no inner nodes, are equally high.
LEMMA SameHeight ==
  ASSUME NEW level, NEW h \in Nat, Tree(level, h), NoInnerNode(level[0]),
         NEW other, NEW g \in Nat, Tree(other, g), NoInnerNode(other[0]),
         level[h][1] = other[g][1]
  PROVE  h = g
<1>1. \A t \in Nat : t <= h /\ t <= g => Members(level[h - t]) = Members(other[g - t])
  BY TreesMeet
<1>2. CASE h < g
  <2>1. Members(level[0]) = Members(other[g - h]) /\ g - h \in 1 .. g
    BY <1>1, <1>2
  <2>2. \E left, right : PairHash(left, right) \in Members(other[g - h])
    BY <2>1, UpperLevels
  <2> QED
    BY <2>1, <2>2 DEF NoInnerNode, Members
<1>3. CASE g < h
  <2>1. Members(other[0]) = Members(level[h - g]) /\ h - g \in 1 .. h
    BY <1>1, <1>3
  <2>2. \E left, right : PairHash(left, right) \in Members(level[h - g])
    BY <2>1, UpperLevels
  <2> QED
    BY <2>1, <2>2 DEF NoInnerNode, Members
<1> QED
  BY <1>2, <1>3

\* A root determines the set of the leaves it is over.  Not how often each is
\* among them: an odd tail is paired with itself.
LEMMA RootBindsSet ==
  ASSUME NEW a, IsList(a), Len(a) # 0, NoInnerNode(a),
         NEW b, IsList(b), Len(b) # 0, NoInnerNode(b),
         MerkleRoot(a) = MerkleRoot(b)
  PROVE  Members(a) = Members(b)
<1>1. PICK h \in Nat : /\ Tree(PairLevels(a), h) /\ PairLevels(a)[0] = a
                       /\ PairLevels(a)[h][1] = MerkleRoot(a)
  BY TreeOf
<1>2. PICK g \in Nat : /\ Tree(PairLevels(b), g) /\ PairLevels(b)[0] = b
                       /\ PairLevels(b)[g][1] = MerkleRoot(b)
  BY TreeOf
<1>3. h = g
  BY <1>1, <1>2, SameHeight
<1>4. \A t \in Nat : t <= h /\ t <= g =>
        Members(PairLevels(a)[h - t]) = Members(PairLevels(b)[g - t])
  BY <1>1, <1>2, TreesMeet
<1> QED
  BY <1>1, <1>2, <1>3, <1>4

\* Two levels of one length with the same level above them are the same.
LEMMA PairsDetermine ==
  ASSUME NEW a, NEW b, IsList(a), IsList(b), Len(a) > 1, Len(a) = Len(b),
         \A i \in DOMAIN PairLevel(a) : PairLevel(a)[i] = PairLevel(b)[i]
  PROVE  \A j \in DOMAIN a : a[j] = b[j]
<1> DEFINE pa == PairLevel(a)
           pb == PairLevel(b)
           n  == Len(a)
<1>1. IsList(pa) /\ IsList(pb) /\ Len(pa) = Len(pb)
  BY PairsOfLevel
<1>2. DOMAIN pa = DOMAIN pb
  BY <1>1 DEF IsList
<1>3. \A i \in DOMAIN pa :
        /\ pa[i] = PairHash(a[2 * i - 1], IF 2 * i <= n THEN a[2 * i] ELSE a[2 * i - 1])
        /\ pb[i] = PairHash(b[2 * i - 1], IF 2 * i <= n THEN b[2 * i] ELSE b[2 * i - 1])
  BY <1>2, PairsOfLevel
<1>4. \A j \in DOMAIN a : \E i \in DOMAIN pa : j = 2 * i - 1 \/ (j = 2 * i /\ 2 * i <= n)
  BY PairsOfLevel
<1> HIDE DEF pa, pb, n
<1>5. \A i \in DOMAIN pa : /\ a[2 * i - 1] = b[2 * i - 1]
                           /\ 2 * i <= n => a[2 * i] = b[2 * i]
  BY <1>3 DEF PairHash, pa, pb
<1> QED
  BY <1>4, <1>5

\* So a root and the number of the leaves determine their sequence.
LEMMA RootBindsSequence ==
  ASSUME NEW a, IsList(a), Len(a) # 0, NoInnerNode(a),
         NEW b, IsList(b), NoInnerNode(b), Len(a) = Len(b),
         MerkleRoot(a) = MerkleRoot(b)
  PROVE  \A i \in DOMAIN a : a[i] = b[i]
<1> DEFINE level == PairLevels(a)
           other == PairLevels(b)
<1>1. PICK h \in Nat : Tree(level, h) /\ level[0] = a /\ level[h][1] = MerkleRoot(a)
  BY TreeOf
<1>2. PICK g \in Nat : Tree(other, g) /\ other[0] = b /\ other[g][1] = MerkleRoot(b)
  BY TreeOf
<1> HIDE DEF level, other
<1>3. h = g
  BY <1>1, <1>2, SameHeight
<1>4. \A k \in 0 .. h - 1 : /\ IsList(level[k]) /\ Len(level[k]) > 1
                            /\ level[k + 1] = PairLevel(level[k])
                            /\ IsList(other[k]) /\ Len(other[k]) > 1
                            /\ other[k + 1] = PairLevel(other[k])
  BY <1>1, <1>2, <1>3 DEF Tree
<1> DEFINE S == {k \in 0 .. h : Len(level[k]) = Len(other[k])}
<1>5. 0 .. h \subseteq S
  <2>1. 0 \in S
    BY <1>1, <1>2
  <2>2. ASSUME NEW k \in 0 .. h - 1, k \in S PROVE k + 1 \in S
    <3>1. /\ Len(level[k + 1]) = (Len(level[k]) + 1) \div 2
          /\ Len(other[k + 1]) = (Len(other[k]) + 1) \div 2
      BY <1>4, PairsOfLevel
    <3>2. Len(level[k]) = Len(other[k]) /\ k + 1 \in 0 .. h
      BY <2>2
    <3> QED
      BY <3>1, <3>2
  <2> HIDE DEF S
  <2> QED
    BY <2>1, <2>2, BoundedInduction
<1> DEFINE Same(k) == \A i \in DOMAIN level[k] : level[k][i] = other[k][i]
           T == {t \in 0 .. h : Same(h - t)}
<1>6. Same(h)
  <2>1. DOMAIN level[h] = {1}
    BY <1>1 DEF Tree, IsList
  <2> QED
    BY <1>1, <1>2, <1>3, <2>1
<1>7. \A k \in 0 .. h - 1 : Same(k + 1) => Same(k)
  <2> SUFFICES ASSUME NEW k \in 0 .. h - 1, Same(k + 1) PROVE Same(k)
    OBVIOUS
  <2>1. Len(level[k]) = Len(other[k])
    BY <1>5
  <2>2. \A i \in DOMAIN PairLevel(level[k]) : PairLevel(level[k])[i] = PairLevel(other[k])[i]
    BY <1>4
  <2>3. /\ IsList(level[k]) /\ Len(level[k]) > 1
        /\ IsList(other[k])
    BY <1>4
  <2> QED
    BY <2>1, <2>2, <2>3, PairsDetermine
<1> HIDE DEF Same
<1>8. 0 .. h \subseteq T
  <2>1. 0 \in T
    BY <1>6
  <2>2. ASSUME NEW t \in 0 .. h - 1, t \in T PROVE t + 1 \in T
    <3>1. h - (t + 1) \in 0 .. h - 1 /\ (h - (t + 1)) + 1 = h - t /\ t + 1 \in 0 .. h
      OBVIOUS
    <3> QED
      BY <1>7, <2>2, <3>1
  <2> HIDE DEF T
  <2> QED
    BY <2>1, <2>2, BoundedInduction
<1>9. Same(0)
  <2>1. h \in T /\ h - h = 0
    BY <1>8
  <2> QED
    BY <2>1
<1> QED
  BY <1>1, <1>2, <1>9 DEF Same
=============================================================================
