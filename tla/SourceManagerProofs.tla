-------------------------- MODULE SourceManagerProofs --------------------------
(***************************************************************************)
(* Proofs about the walks of two versions and their merge, for any trees   *)
(* and any list of sources: every entry of a version is taken once, and    *)
(* the files of two directories that were entered together meet.           *)
(***************************************************************************)
EXTENDS SourceManager, SequenceTheorems, FiniteSetTheorems, TLAPS

(***************************************************************************)
(* A function between finite sets of one size that maps no two elements to *)
(* one, maps some element to each.                                         *)
(***************************************************************************)
LEMMA OntoBySize ==
  ASSUME NEW S, NEW T, IsFiniteSet(S), IsFiniteSet(T), Cardinality(S) = Cardinality(T),
         NEW f \in [S -> T], \A p, q \in S : f[p] = f[q] => p = q
  PROVE  \A t \in T : \E p \in S : f[p] = t
<1> SUFFICES ASSUME NEW t \in T, \A p \in S : f[p] # t
             PROVE  FALSE
  OBVIOUS
<1>1. /\ IsFiniteSet(T \ {t})
      /\ Cardinality(T \ {t}) = Cardinality(T) - 1
  BY FS_RemoveElement
<1>2. Cardinality(T \ {t}) < Cardinality(S)
  BY <1>1, FS_CardinalityType
<1>3. f \in [S -> T \ {t}]
  OBVIOUS
<1> QED BY <1>1, <1>2, <1>3, FS_PigeonHole

(***************************************************************************)
(* A finite set with a strict order can be written as a row.               *)
(***************************************************************************)
LEMMA RowOfOrder ==
  ASSUME NEW S, IsFiniteSet(S), NEW R,
         \A p, q \in S : p # q => <<p, q>> \in R \/ <<q, p>> \in R,
         \A p \in S : <<p, p>> \notin R,
         \A p, q, r \in S : <<p, q>> \in R /\ <<q, r>> \in R => <<p, r>> \in R
  PROVE  \E row \in [1 .. Cardinality(S) -> S] :
           \A m, n \in 1 .. Cardinality(S) : m < n => <<row[m], row[n]>> \in R
<1> DEFINE N == Cardinality(S)
           Before(p) == {q \in S : <<q, p>> \in R}
           Rank == [p \in S |-> Cardinality(Before(p)) + 1]
<1>1. N \in Nat
  BY FS_CardinalityType
<1>2. \A p \in S : IsFiniteSet(Before(p)) /\ Cardinality(Before(p)) \in Nat
  BY FS_Subset, FS_CardinalityType
<1>3. \A p \in S : Cardinality(Before(p)) < N
  <2> SUFFICES ASSUME NEW p \in S PROVE Cardinality(Before(p)) < N
    OBVIOUS
  <2>1. Before(p) \in SUBSET S /\ Before(p) # S
    OBVIOUS
  <2>2. Cardinality(Before(p)) <= N /\ Cardinality(Before(p)) # N
    <3> HIDE DEF Before
    <3> QED BY <2>1, FS_Subset
  <2> HIDE DEF Before, N
  <2> QED BY <2>2, <1>1, <1>2
<1>4. \A p, q \in S : <<p, q>> \in R => Cardinality(Before(p)) < Cardinality(Before(q))
  <2> SUFFICES ASSUME NEW p \in S, NEW q \in S, <<p, q>> \in R
               PROVE  Cardinality(Before(p)) < Cardinality(Before(q))
    OBVIOUS
  <2>1. Before(p) \in SUBSET Before(q) /\ p \in Before(q) /\ p \notin Before(p)
    OBVIOUS
  <2>2. IsFiniteSet(Before(q)) /\ Cardinality(Before(q)) \in Nat /\ Cardinality(Before(p)) \in Nat
    BY <1>2
  <2> HIDE DEF Before
  <2>3. /\ Cardinality(Before(p)) <= Cardinality(Before(q))
        /\ Cardinality(Before(p)) # Cardinality(Before(q))
    BY <2>1, <2>2, FS_Subset
  <2> QED BY <2>2, <2>3
<1> HIDE DEF Before
<1>5. Rank \in [S -> 1 .. N]
  <2> HIDE DEF N
  <2> QED BY <1>1, <1>2, <1>3
<1>6. \A p, q \in S : <<p, q>> \in R => Rank[p] < Rank[q]
  BY <1>4, <1>2
<1> HIDE DEF Rank
<1>7. \A p, q \in S : Rank[p] = Rank[q] => p = q
  <2> SUFFICES ASSUME NEW p \in S, NEW q \in S, Rank[p] = Rank[q], p # q
               PROVE  FALSE
    OBVIOUS
  <2>1. Rank[p] < Rank[q] \/ Rank[q] < Rank[p]
    BY <1>6
  <2>2. Rank[p] \in Int /\ Rank[q] \in Int
    BY <1>5
  <2> QED BY <2>1, <2>2
<1>8. IsFiniteSet(1 .. N) /\ Cardinality(1 .. N) = N
  <2> HIDE DEF N
  <2> QED BY <1>1, FS_Interval
<1>10. \A k \in 1 .. N : \E p \in S : Rank[p] = k
  <2> DEFINE T == 1 .. N
  <2>1. IsFiniteSet(T) /\ Cardinality(S) = Cardinality(T)
    BY <1>8
  <2>2. Rank \in [S -> T]
    BY <1>5
  <2> HIDE DEF T
  <2>3. \A k \in T : \E p \in S : Rank[p] = k
    BY <2>1, <2>2, <1>7, OntoBySize
  <2> QED BY <2>3 DEF T
<1> DEFINE row == [k \in 1 .. N |-> CHOOSE p \in S : Rank[p] = k]
<1>11. \A k \in 1 .. N : row[k] \in S /\ Rank[row[k]] = k
  BY <1>10
<1>12. row \in [1 .. N -> S]
  BY <1>11
<1>13. \A m, n \in 1 .. N : m < n => <<row[m], row[n]>> \in R
  <2> SUFFICES ASSUME NEW m \in 1 .. N, NEW n \in 1 .. N, m < n
               PROVE  <<row[m], row[n]>> \in R
    OBVIOUS
  <2> HIDE DEF row, N
  <2>1. row[m] \in S /\ row[n] \in S /\ Rank[row[m]] = m /\ Rank[row[n]] = n
    BY <1>11
  <2>2. m \in Int /\ n \in Int
    BY <1>1
  <2>3. <<row[n], row[m]>> \notin R
    BY <2>1, <2>2, <1>6
  <2>4. row[m] # row[n]
    BY <2>1, <2>2
  <2> QED BY <2>1, <2>3, <2>4
<1> QED BY <1>12, <1>13

(***************************************************************************)
(* Such a row has all of the set.                                          *)
(***************************************************************************)
LEMMA RowIsAll ==
  ASSUME NEW S, IsFiniteSet(S), NEW row, row \in [1 .. Cardinality(S) -> S],
         \A m, n \in 1 .. Cardinality(S) : m < n => row[m] # row[n]
  PROVE  \A p \in S : \E n \in 1 .. Cardinality(S) : row[n] = p
<1> DEFINE N == Cardinality(S)
<1>1. N \in Nat
  BY FS_CardinalityType
<1>2. \A m, n \in 1 .. N : row[m] = row[n] => m = n
  <2> SUFFICES ASSUME NEW m \in 1 .. N, NEW n \in 1 .. N, row[m] = row[n], m # n
               PROVE  FALSE
    OBVIOUS
  <2>1. m < n \/ n < m
    BY <1>1
  <2> QED BY <2>1
<1>3. IsFiniteSet(1 .. N) /\ Cardinality(1 .. N) = N
  <2> HIDE DEF N
  <2> QED BY <1>1, FS_Interval
<1>4. row \in [1 .. N -> S] /\ Cardinality(1 .. N) = Cardinality(S)
  BY <1>3
<1>5. \A p \in S : \E n \in 1 .. N : row[n] = p
  <2> DEFINE T == 1 .. N
  <2>1. IsFiniteSet(T) /\ Cardinality(T) = Cardinality(S)
    BY <1>3
  <2>2. row \in [T -> S] /\ \A m, n \in T : row[m] = row[n] => m = n
    BY <1>2, <1>4
  <2> HIDE DEF T
  <2>3. \A p \in S : \E n \in T : row[n] = p
    <3>1. IsFiniteSet(S)
      OBVIOUS
    <3> QED BY ONLY <2>1, <2>2, <3>1, OntoBySize
  <2> QED BY <2>3 DEF T
<1> QED BY <1>5

LOCAL INSTANCE SequencesExt

(***************************************************************************)
(* Paths                                                                   *)
(***************************************************************************)
Paths == Seq(Nat \ {0})

\* No path is the row that stands for no path.
LEMMA AbsentIsNoPath ==
  Absent \notin Paths
<1> SUFFICES ASSUME Absent \in Paths PROVE FALSE
  OBVIOUS
<1>1. Absent[1] \in Nat \ {0}
  BY DEF Paths, Absent
<1> QED BY <1>1 DEF Absent

\* A prefix, element by element.
LEMMA PrefixAt ==
  ASSUME NEW p \in Paths, NEW q \in Paths
  PROVE  IsPrefix(p, q) <=> Len(p) <= Len(q) /\ \A i \in 1 .. Len(p) : p[i] = q[i]
<1>1. Len(p) \in Nat /\ Len(q) \in Nat
  BY DEF Paths
<1>2. SubSeq(p, 1, Len(p)) = p
  BY SubSeqFull DEF Paths
<1>3. ASSUME Len(p) <= Len(q)
      PROVE  /\ SubSeq(q, 1, Len(p)) \in Paths
             /\ Len(SubSeq(q, 1, Len(p))) = Len(p)
             /\ \A i \in 1 .. Len(p) : SubSeq(q, 1, Len(p))[i] = q[i]
  BY <1>1, <1>3 DEF Paths
<1>4. ASSUME Len(p) <= Len(q), \A i \in 1 .. Len(p) : p[i] = q[i]
      PROVE  SubSeq(q, 1, Len(p)) = p
  BY <1>3, <1>4, SeqEqual DEF Paths
<1>5. ASSUME Len(p) <= Len(q), SubSeq(q, 1, Len(p)) = p
      PROVE  \A i \in 1 .. Len(p) : p[i] = q[i]
  BY <1>3, <1>5
<1> QED BY <1>2, <1>4, <1>5 DEF IsPrefix

\* Prefixes are a partial order.
LEMMA PrefixReflexive ==
  ASSUME NEW p \in Paths PROVE IsPrefix(p, p)
<1>1. Len(p) \in Nat
  BY DEF Paths
<1> QED BY <1>1, PrefixAt

\* Of three paths, each in front of the next one.
LEMMA PrefixTransitive ==
  ASSUME NEW p \in Paths, NEW q \in Paths, NEW r \in Paths, IsPrefix(p, q), IsPrefix(q, r)
  PROVE  IsPrefix(p, r)
<1>1. Len(p) \in Nat /\ Len(q) \in Nat /\ Len(r) \in Nat
  BY DEF Paths
<1>2. /\ Len(p) <= Len(q) /\ \A i \in 1 .. Len(p) : p[i] = q[i]
      /\ Len(q) <= Len(r) /\ \A i \in 1 .. Len(q) : q[i] = r[i]
  BY PrefixAt
<1> QED BY <1>1, <1>2, PrefixAt

\* A path in front of one of its length is that one.
LEMMA PrefixSameLength ==
  ASSUME NEW p \in Paths, NEW q \in Paths, IsPrefix(p, q), Len(p) = Len(q)
  PROVE  p = q
<1>1. \A i \in 1 .. Len(p) : p[i] = q[i]
  BY PrefixAt
<1> QED BY <1>1, SeqEqual DEF Paths

\* Of two prefixes of one path, the shorter one is a prefix of the other.
LEMMA PrefixesOfOne ==
  ASSUME NEW p \in Paths, NEW q \in Paths, NEW r \in Paths, IsPrefix(p, r), IsPrefix(q, r), Len(p) <= Len(q)
  PROVE  IsPrefix(p, q)
<1>1. Len(p) \in Nat /\ Len(q) \in Nat /\ Len(r) \in Nat
  BY DEF Paths
<1>2. /\ Len(p) <= Len(r) /\ \A i \in 1 .. Len(p) : p[i] = r[i]
      /\ Len(q) <= Len(r) /\ \A i \in 1 .. Len(q) : q[i] = r[i]
  BY PrefixAt
<1> QED BY <1>1, <1>2, PrefixAt

(***************************************************************************)
(* A tree, and the entries of a directory                                  *)
(***************************************************************************)
LEMMA TreePaths ==
  ASSUME NEW version, IsTree(version), NEW p \in DOMAIN version
  PROVE  p \in Paths /\ version[p] \in {"directory", "file", "output"}
BY DEF IsTree, Paths

\* What is behind an entry is in a directory.
LEMMA BehindEntry ==
  ASSUME NEW version, IsTree(version), NEW p \in DOMAIN version, NEW q \in DOMAIN version,
         IsPrefix(p, q), p # q
  PROVE  /\ version[p] = "directory"
         /\ \E c \in Below(version, p) :
              IsPrefix(c, q) /\ (c # q => version[c] = "directory")
<1>1. p \in Paths /\ q \in Paths
  BY TreePaths
<1>2. Len(p) \in Nat /\ Len(q) \in Nat
  BY <1>1 DEF Paths
<1>3. Len(p) <= Len(q) /\ SubSeq(q, 1, Len(p)) = p
  BY <1>1, SubSeqFull DEF IsPrefix, Paths
<1>4. Len(p) < Len(q)
  BY <1>1, <1>2, <1>3, PrefixSameLength
<1>5. version[p] = "directory"
  <2>1. Len(p) \in 0 .. Len(q) - 1
    BY <1>2, <1>4
  <2> QED BY <2>1, <1>3 DEF IsTree
<1> DEFINE n == Len(p) + 1
           c == SubSeq(q, 1, n)
<1>6. n \in 1 .. Len(q) /\ n \in Nat
  BY <1>2, <1>4
<1>7. c \in DOMAIN version /\ (c # q => version[c] = "directory")
  <2>1. CASE n = Len(q)
    <3>1. c = q
      BY <2>1, <1>1, SubSeqFull DEF Paths
    <3> QED BY <3>1
  <2>2. CASE n # Len(q)
    <3>1. n \in 0 .. Len(q) - 1
      BY <1>6, <1>2, <2>2
    <3> HIDE DEF n
    <3> QED BY <3>1 DEF IsTree
  <2> QED BY <2>1, <2>2
<1>8. c \in Paths
  BY <1>7, TreePaths
<1>9. Len(c) = n /\ \A i \in 1 .. n : c[i] = q[i]
  <2> HIDE DEF n
  <2> QED BY <1>1, <1>2, <1>6 DEF Paths
<1>10. IsPrefix(c, q)
  <2> HIDE DEF c, n
  <2> QED BY <1>1, <1>2, <1>6, <1>8, <1>9, PrefixAt
<1>11. IsPrefix(p, c)
  <2>1. Len(p) <= Len(c)
    BY <1>9, <1>2
  <2> HIDE DEF c
  <2> QED BY <2>1, <1>1, <1>8, <1>10, PrefixesOfOne
<1>12. c \in Below(version, p)
  <2> HIDE DEF c
  <2> QED BY <1>7, <1>9, <1>11 DEF Below
<1> QED BY <1>5, <1>7, <1>10, <1>12

\* The order of the entries of a directory is that of their names.
LEMMA Siblings ==
  ASSUME NEW version, IsTree(version), NEW d \in DOMAIN version,
         NEW p \in Below(version, d), NEW q \in Below(version, d)
  PROVE  /\ p[Len(d) + 1] \in Nat
         /\ p[Len(d) + 1] = q[Len(d) + 1] => p = q
         /\ Precedes(p, q) <=> p[Len(d) + 1] < q[Len(d) + 1]
<1> DEFINE n == Len(d) + 1
<1>1. d \in Paths /\ p \in Paths /\ q \in Paths
  BY TreePaths DEF Below
<1>2. Len(d) \in Nat /\ Len(p) = n /\ Len(q) = n
  BY <1>1 DEF Below, Paths
<1>3. \A i \in 1 .. Len(d) : p[i] = q[i]
  BY <1>1, PrefixAt DEF Below
<1>4. p[n] \in Nat /\ q[n] \in Nat
  BY <1>1, <1>2 DEF Paths
<1>5. p[n] = q[n] => p = q
  <2> SUFFICES ASSUME p[n] = q[n] PROVE p = q
    OBVIOUS
  <2>1. \A i \in 1 .. n : p[i] = q[i]
    BY <1>2, <1>3
  <2> QED BY <2>1, <1>1, <1>2, SeqEqual DEF Paths
<1>6. p # Absent /\ q # Absent
  BY <1>1, AbsentIsNoPath
<1>7. ASSUME p[n] < q[n] PROVE Precedes(p, q)
  <2>1. p # q
    BY <1>4, <1>7
  <2>2. n \in 1 .. Len(q) /\ n <= Len(p) + 1 /\ \A k \in 1 .. n - 1 : p[k] = q[k]
    BY <1>2, <1>3
  <2> QED BY <2>1, <2>2, <1>6, <1>7 DEF Precedes
<1>8. ASSUME Precedes(p, q) PROVE p[n] < q[n]
  <2>1. PICK k \in 1 .. Len(q) : k <= Len(p) => p[k] < q[k]
    BY <1>6, <1>8 DEF Precedes
  <2>2. p[k] < q[k]
    BY <2>1, <1>2
  <2>3. k \in 1 .. n
    BY <1>2
  <2>4. p[k] \in Nat
    BY <2>3, <1>1, <1>2 DEF Paths
  <2>5. k \notin 1 .. Len(d)
    BY <1>3, <2>2, <2>4
  <2>6. k = n
    BY <2>3, <2>5, <1>2
  <2> QED BY <2>2, <2>6
<1> QED BY <1>4, <1>5, <1>7, <1>8

(***************************************************************************)
(* What is pushed for a directory                                          *)
(***************************************************************************)
Pushed(version, d) == {p \in Below(version, d) : version[p] # "output"}

\* What expand_directory pushes: each entry but the output file once, in the order of pushing.
LEMMA ExpandedRow ==
  ASSUME NEW version, IsTree(version), NEW d \in DOMAIN version
  PROVE  LET row == Expanded(version, d)
         IN  /\ row \in Seq(Pushed(version, d))
             /\ \A m, n \in DOMAIN row : m < n => IsPushedBefore(version, row[m], row[n])
             /\ \A m, n \in DOMAIN row : m # n => row[m] # row[n]
             /\ \A p \in Pushed(version, d) : \E n \in DOMAIN row : row[n] = p
<1> DEFINE S == Pushed(version, d)
           N == Cardinality(S)
           at == Len(d) + 1
           R == {r \in S \X S : IsPushedBefore(version, r[1], r[2])}
<1>1. IsFiniteSet(S) /\ N \in Nat
  <2>1. S \in SUBSET DOMAIN version
    BY DEF Pushed, Below
  <2>2. IsFiniteSet(DOMAIN version)
    BY DEF IsTree
  <2> HIDE DEF S
  <2> QED BY <2>1, <2>2, FS_Subset, FS_CardinalityType
<1>2. \A p \in S : p \in Below(version, d) /\ version[p] \in {"directory", "file"}
  BY TreePaths DEF Pushed, Below
<1>3. \A p, q \in S : /\ p[at] \in Nat
                      /\ p[at] = q[at] => p = q
                      /\ Precedes(p, q) <=> p[at] < q[at]
  BY <1>2, Siblings
<1>4. \A p, q \in S : <<p, q>> \in R <=> \/ version[p] = "directory" /\ version[q] = "file"
                                         \/ version[p] = version[q] /\ q[at] < p[at]
  <2> HIDE DEF S, at
  <2> QED BY <1>3 DEF IsPushedBefore
<1> HIDE DEF S, N, at, R
<1>5. \A p, q \in S : p # q => <<p, q>> \in R \/ <<q, p>> \in R
  BY <1>2, <1>3, <1>4
<1>6. \A p \in S : <<p, p>> \notin R
  BY <1>2, <1>3, <1>4
<1>7. \A p, q, r \in S : <<p, q>> \in R /\ <<q, r>> \in R => <<p, r>> \in R
  BY <1>2, <1>3, <1>4
<1>8. \E row \in [1 .. N -> S] : \A m, n \in 1 .. N : m < n => <<row[m], row[n]>> \in R
  BY <1>1, <1>5, <1>6, <1>7, RowOfOrder DEF N
<1>9. \E row \in [1 .. N -> S] : \A m, n \in DOMAIN row : m < n => IsPushedBefore(version, row[m], row[n])
  <2>1. PICK row \in [1 .. N -> S] : \A m, n \in 1 .. N : m < n => <<row[m], row[n]>> \in R
    BY <1>8
  <2>2. \A m, n \in DOMAIN row : m < n => IsPushedBefore(version, row[m], row[n])
    BY <2>1 DEF R
  <2> QED BY <2>2
<1> DEFINE row == Expanded(version, d)
<1>10. row = CHOOSE s \in [1 .. N -> S] : \A m, n \in DOMAIN s : m < n => IsPushedBefore(version, s[m], s[n])
  BY DEF Expanded, N, S, Pushed
<1> HIDE DEF row
<1>11. /\ row \in [1 .. N -> S]
       /\ \A m, n \in DOMAIN row : m < n => IsPushedBefore(version, row[m], row[n])
  BY <1>9, <1>10
<1>12. \A m, n \in 1 .. N : m < n => row[m] # row[n]
  <2> SUFFICES ASSUME NEW m \in 1 .. N, NEW n \in 1 .. N, m < n, row[m] = row[n]
               PROVE  FALSE
    OBVIOUS
  <2>1. row[m] \in S /\ IsPushedBefore(version, row[m], row[m])
    BY <1>11
  <2> QED BY <2>1, <1>2, <1>3 DEF IsPushedBefore
<1>13. \A p \in S : \E n \in 1 .. N : row[n] = p
  BY <1>1, <1>11, <1>12, RowIsAll DEF N
<1>14. row \in Seq(S) /\ DOMAIN row = 1 .. N
  BY <1>1, <1>11
<1>15. \A m, n \in DOMAIN row : m # n => row[m] # row[n]
  <2> SUFFICES ASSUME NEW m \in 1 .. N, NEW n \in 1 .. N, m # n
               PROVE  row[m] # row[n]
    BY <1>14
  <2>1. m < n \/ n < m
    BY <1>1
  <2> QED BY <2>1, <1>12
<1> QED BY <1>11, <1>13, <1>14, <1>15 DEF row, S

(***************************************************************************)
(* A step of a walk                                                        *)
(***************************************************************************)
Shown(version) == {p \in DOMAIN version : version[p] # "output"}

IsStack(version, cache) ==
  /\ cache \in Seq(Shown(version))
  /\ \A m, n \in DOMAIN cache : m # n => ~ IsPrefix(cache[m], cache[n])

IsCovered(cache, p) == \E n \in DOMAIN cache : IsPrefix(cache[n], p)

\* What takes the place of an entry.
Follow(version, p) == IF version[p] = "directory" THEN Expanded(version, p) ELSE <<>>

\* What takes the place of an entry covers what is below it, but not the entry.
LEMMA FollowEntry ==
  ASSUME NEW version, IsTree(version), NEW p \in Shown(version)
  PROVE  LET row == Follow(version, p)
         IN  /\ row \in Seq(Shown(version))
             /\ \A n \in DOMAIN row : IsPrefix(p, row[n]) /\ ~ IsPrefix(row[n], p)
             /\ \A m, n \in DOMAIN row : m # n => ~ IsPrefix(row[m], row[n])
             /\ \A q \in Shown(version) : IsCovered(row, q) <=> IsPrefix(p, q) /\ p # q
<1> DEFINE row == Follow(version, p)
<1>0. p \in DOMAIN version /\ p \in Paths /\ Len(p) \in Nat
  BY TreePaths DEF Shown, Paths
<1>1. CASE version[p] = "directory"
  <2>1. row = Expanded(version, p)
    BY <1>1 DEF Follow
  <2> HIDE DEF row
  <2>2. /\ row \in Seq(Pushed(version, p))
        /\ \A m, n \in DOMAIN row : m # n => row[m] # row[n]
        /\ \A q \in Pushed(version, p) : \E n \in DOMAIN row : row[n] = q
    BY <1>0, <2>1, ExpandedRow
  <2>3. \A q \in Pushed(version, p) : /\ q \in Shown(version) /\ q \in DOMAIN version /\ q \in Paths
                                      /\ Len(q) = Len(p) + 1 /\ IsPrefix(p, q)
    BY TreePaths DEF Pushed, Below, Shown
  <2>4. row \in Seq(Shown(version))
    BY <2>2, <2>3
  <2>5. \A n \in DOMAIN row : row[n] \in Pushed(version, p)
    BY <2>2
  <2>6. \A n \in DOMAIN row : IsPrefix(p, row[n]) /\ ~ IsPrefix(row[n], p)
    <3> SUFFICES ASSUME NEW n \in DOMAIN row PROVE IsPrefix(p, row[n]) /\ ~ IsPrefix(row[n], p)
      OBVIOUS
    <3>1. row[n] \in Paths /\ Len(row[n]) = Len(p) + 1 /\ IsPrefix(p, row[n])
      BY <2>3, <2>5
    <3>2. ~ (Len(row[n]) <= Len(p))
      BY <3>1, <1>0
    <3> QED BY <3>1, <3>2, <1>0, PrefixAt
  <2>7. \A m, n \in DOMAIN row : m # n => ~ IsPrefix(row[m], row[n])
    <3> SUFFICES ASSUME NEW m \in DOMAIN row, NEW n \in DOMAIN row, m # n, IsPrefix(row[m], row[n])
                 PROVE  FALSE
      OBVIOUS
    <3>1. row[m] \in Paths /\ row[n] \in Paths /\ Len(row[m]) = Len(row[n])
      BY <2>3, <2>5
    <3>2. row[m] = row[n]
      BY <3>1, PrefixSameLength
    <3> QED BY <3>2, <2>2
  <2>8. ASSUME NEW q \in Shown(version), IsCovered(row, q)
        PROVE  IsPrefix(p, q) /\ p # q
    <3>1. PICK n \in DOMAIN row : IsPrefix(row[n], q)
      BY <2>8 DEF IsCovered
    <3>2. q \in Paths /\ row[n] \in Paths /\ IsPrefix(p, row[n])
      BY <2>3, <2>5, TreePaths DEF Shown
    <3>3. IsPrefix(p, q)
      BY <3>1, <3>2, <1>0, PrefixTransitive
    <3>4. p # q
      BY <3>1, <2>6
    <3> QED BY <3>3, <3>4
  <2>9. ASSUME NEW q \in Shown(version), IsPrefix(p, q), p # q
        PROVE  IsCovered(row, q)
    <3>1. q \in DOMAIN version /\ version[q] # "output"
      BY DEF Shown
    <3>2. PICK c \in Below(version, p) : IsPrefix(c, q) /\ (c # q => version[c] = "directory")
      BY <3>1, <1>0, <2>9, BehindEntry
    <3>3. c \in Pushed(version, p)
      BY <3>1, <3>2 DEF Pushed
    <3> QED BY <3>2, <3>3, <2>2 DEF IsCovered
  <2> QED BY <2>4, <2>6, <2>7, <2>8, <2>9 DEF row
<1>2. CASE version[p] # "directory"
  <2>1. row = <<>>
    BY <1>2 DEF Follow
  <2>2. \A q \in Shown(version) : ~ (IsPrefix(p, q) /\ p # q)
    BY <1>0, <1>2, BehindEntry DEF Shown
  <2>3. row \in Seq(Shown(version)) /\ DOMAIN row = {}
    BY <2>1
  <2> HIDE DEF row
  <2> QED BY <2>2, <2>3 DEF IsCovered, row
<1> QED BY <1>1, <1>2

\* The last entry is taken, and what is in it follows.
LEMMA StackStep ==
  ASSUME NEW version, IsTree(version), NEW cache, IsStack(version, cache), cache # <<>>
  PROVE  LET last == cache[Len(cache)]
             next == SubSeq(cache, 1, Len(cache) - 1) \o Follow(version, last)
         IN  /\ last \in Shown(version)
             /\ IsCovered(cache, last)
             /\ IsStack(version, next)
             /\ \A p \in Shown(version) : IsCovered(next, p) <=> IsCovered(cache, p) /\ p # last
<1> DEFINE N == Len(cache)
           last == cache[N]
           front == SubSeq(cache, 1, N - 1)
           row == Follow(version, last)
           next == front \o row
<1>1. cache \in Seq(Shown(version)) /\ N \in Nat /\ N > 0 /\ DOMAIN cache = 1 .. N
  BY DEF IsStack
<1>2. last \in Shown(version)
  BY <1>1
<1>3. \A p \in Shown(version) : p \in Paths
  BY TreePaths DEF Shown
<1>4. /\ front \in Seq(Shown(version)) /\ Len(front) = N - 1
      /\ \A n \in 1 .. N - 1 : front[n] = cache[n]
  <2> HIDE DEF N
  <2> QED BY <1>1
<1>5. /\ row \in Seq(Shown(version))
      /\ \A n \in DOMAIN row : IsPrefix(last, row[n]) /\ ~ IsPrefix(row[n], last)
      /\ \A m, n \in DOMAIN row : m # n => ~ IsPrefix(row[m], row[n])
      /\ \A q \in Shown(version) : IsCovered(row, q) <=> IsPrefix(last, q) /\ last # q
  BY <1>2, FollowEntry
<1>6. \A m, n \in 1 .. N : m # n => ~ IsPrefix(cache[m], cache[n])
  BY <1>1 DEF IsStack
<1>7. IsCovered(cache, last)
  BY <1>1, <1>2, <1>3, PrefixReflexive DEF IsCovered
<1> DEFINE M == Len(row)
<1>8. M \in Nat /\ DOMAIN row = 1 .. M
  BY <1>5
<1> HIDE DEF row, front, N, M
<1>9. /\ next \in Seq(Shown(version)) /\ Len(next) = N - 1 + M /\ DOMAIN next = 1 .. N - 1 + M
      /\ \A n \in 1 .. N - 1 : next[n] = cache[n]
      /\ \A n \in 1 .. M : next[N - 1 + n] = row[n]
  <2>1. /\ front \o row \in Seq(Shown(version)) /\ Len(front \o row) = Len(front) + Len(row)
        /\ \A i \in 1 .. Len(front) + Len(row) :
             (front \o row)[i] = IF i <= Len(front) THEN front[i] ELSE row[i - Len(front)]
    BY ONLY <1>4, <1>5, ConcatProperties
  <2> QED BY <2>1, <1>1, <1>4, <1>8 DEF M
<1> HIDE DEF next
<1>10. \A n \in DOMAIN next : (n \in 1 .. N - 1) \/ \E k \in 1 .. M : n = N - 1 + k
  <2> SUFFICES ASSUME NEW n \in 1 .. N - 1 + M, n \notin 1 .. N - 1
               PROVE  \E k \in 1 .. M : n = N - 1 + k
    BY <1>9
  <2>1. n - (N - 1) \in 1 .. M /\ n = N - 1 + (n - (N - 1))
    BY <1>1, <1>8
  <2> QED BY <2>1
<1>11. \A n \in 1 .. N - 1 : n \in 1 .. N /\ n # N /\ cache[n] \in Paths
  BY <1>1, <1>3
<1>12. \A n \in 1 .. M : row[n] \in Paths
  BY <1>3, <1>5, <1>8
<1>13. \A n \in 1 .. N - 1, k \in 1 .. M : ~ IsPrefix(cache[n], row[k]) /\ ~ IsPrefix(row[k], cache[n])
  <2> SUFFICES ASSUME NEW n \in 1 .. N - 1, NEW k \in 1 .. M
               PROVE  ~ IsPrefix(cache[n], row[k]) /\ ~ IsPrefix(row[k], cache[n])
    OBVIOUS
  <2>1. /\ ~ IsPrefix(cache[n], last) /\ ~ IsPrefix(last, cache[n])
    BY <1>1, <1>6, <1>11
  <2>2. IsPrefix(last, row[k]) /\ cache[n] \in Paths /\ row[k] \in Paths /\ last \in Paths
    BY <1>2, <1>3, <1>5, <1>8, <1>11, <1>12
  <2>3. ~ IsPrefix(row[k], cache[n])
    BY <2>1, <2>2, PrefixTransitive
  <2>4. ~ IsPrefix(cache[n], row[k])
    <3> HIDE DEF last
    <3>1. Len(cache[n]) \in Nat /\ Len(last) \in Nat
      BY <2>2 DEF Paths
    <3>2. Len(cache[n]) <= Len(last) \/ Len(last) <= Len(cache[n])
      BY <3>1
    <3> QED BY <3>2, <2>1, <2>2, PrefixesOfOne
  <2> QED BY <2>3, <2>4
<1>14. \A m, n \in DOMAIN next : m # n => ~ IsPrefix(next[m], next[n])
  <2> SUFFICES ASSUME NEW m \in DOMAIN next, NEW n \in DOMAIN next, m # n
               PROVE  ~ IsPrefix(next[m], next[n])
    OBVIOUS
  <2>1. CASE m \in 1 .. N - 1 /\ n \in 1 .. N - 1
    BY <2>1, <1>6, <1>9, <1>11
  <2>2. CASE m \in 1 .. N - 1 /\ n \notin 1 .. N - 1
    BY <2>2, <1>9, <1>10, <1>13
  <2>3. CASE m \notin 1 .. N - 1 /\ n \in 1 .. N - 1
    BY <2>3, <1>9, <1>10, <1>13
  <2>4. CASE m \notin 1 .. N - 1 /\ n \notin 1 .. N - 1
    BY <2>4, <1>5, <1>8, <1>9, <1>10
  <2> QED BY <2>1, <2>2, <2>3, <2>4
<1>15. IsStack(version, next)
  BY <1>9, <1>14 DEF IsStack
<1>16. ASSUME NEW p \in Shown(version), IsCovered(next, p)
       PROVE  IsCovered(cache, p) /\ p # last
  <2>1. PICK n \in DOMAIN next : IsPrefix(next[n], p)
    BY <1>16 DEF IsCovered
  <2>2. CASE n \in 1 .. N - 1
    <3>1. n \in 1 .. N /\ IsPrefix(cache[n], p) /\ ~ IsPrefix(cache[n], last)
      BY <2>1, <2>2, <1>1, <1>6, <1>9, <1>11
    <3> QED BY <3>1, <1>1 DEF IsCovered
  <2>3. CASE n \notin 1 .. N - 1
    <3>1. PICK k \in 1 .. M : n = N - 1 + k
      BY <2>3, <1>10
    <3>2. IsCovered(row, p)
      BY <2>1, <3>1, <1>8, <1>9 DEF IsCovered
    <3>3. IsPrefix(last, p) /\ last # p
      BY <3>2, <1>5
    <3> QED BY <3>3, <1>1 DEF IsCovered
  <2> QED BY <2>2, <2>3
<1>17. ASSUME NEW p \in Shown(version), IsCovered(cache, p), p # last
       PROVE  IsCovered(next, p)
  <2>1. PICK n \in 1 .. N : IsPrefix(cache[n], p)
    BY <1>1, <1>17 DEF IsCovered
  <2>2. CASE n # N
    <3>1. n \in 1 .. N - 1 /\ n \in DOMAIN next
      BY <2>2, <1>1, <1>8, <1>9
    <3> QED BY <2>1, <3>1, <1>9 DEF IsCovered
  <2>3. CASE n = N
    <3>1. IsCovered(row, p)
      BY <2>1, <2>3, <1>5, <1>17
    <3>2. PICK k \in 1 .. M : IsPrefix(row[k], p)
      BY <3>1, <1>8 DEF IsCovered
    <3>3. N - 1 + k \in DOMAIN next
      BY <1>1, <1>8, <1>9
    <3> QED BY <3>2, <3>3, <1>9 DEF IsCovered
  <2> QED BY <2>2, <2>3
<1>18. \A p \in Shown(version) : IsCovered(next, p) <=> IsCovered(cache, p) /\ p # last
  BY <1>16, <1>17
<1> QED BY <1>2, <1>7, <1>15, <1>18 DEF next, front, row, N

(***************************************************************************)
(* What was reported of a source, and what is to come                      *)
(***************************************************************************)
Matches(s, g) == s.pair = g.pair /\ s.side = g.side

Kinds == {"directory", "compared", "skipped", "view"}

Items == [pair : Nat, kind : Kinds, original : Seq(Nat), modified : Seq(Nat)]

Takes(rep, g) == {n \in DOMAIN rep : rep[n].pair = g.pair /\ rep[n][g.side] # Absent}

InStep(g, held, rep) ==
  /\ \A m, n \in Takes(rep, g) : rep[m][g.side] = rep[n][g.side] => m = n
  /\ \A n \in Takes(rep, g) : rep[n][g.side] \in Shown(g.version)
  /\ \A p \in Shown(g.version) :
       (\E n \in Takes(rep, g) : rep[n][g.side] = p) <=> ~ \E s \in held : Matches(s, g) /\ IsCovered(s.cache, p)
  /\ \A s \in held : Matches(s, g) => s.version = g.version /\ IsStack(g.version, s.cache)

\* A report is behind all others, which stay where they are.
LEMMA AppendedItem ==
  ASSUME NEW rep, rep \in Seq(Items), NEW r, r \in Items
  PROVE  \E more : /\ more = Append(rep, r)
                   /\ DOMAIN more = DOMAIN rep \cup {Len(rep) + 1}
                   /\ Len(rep) + 1 \notin DOMAIN rep
                   /\ \A n \in DOMAIN rep : more[n] = rep[n]
                   /\ more[Len(rep) + 1] = r
<1>1. /\ Len(rep) \in Nat /\ DOMAIN rep = 1 .. Len(rep)
      /\ DOMAIN Append(rep, r) = 1 .. Len(rep) + 1
      /\ \A n \in 1 .. Len(rep) : Append(rep, r)[n] = rep[n]
      /\ Append(rep, r)[Len(rep) + 1] = r
  BY AppendProperties
<1> DEFINE N == Len(rep)
<1>2. 1 .. N + 1 = 1 .. N \cup {N + 1} /\ N + 1 \notin 1 .. N
  BY <1>1
<1> QED BY <1>1, <1>2

\* A source of which nothing is reported.
LEMMA InStepOther ==
  ASSUME NEW g, NEW held, NEW rep, rep \in Seq(Items), NEW r, r \in Items, InStep(g, held, rep),
         r.pair # g.pair \/ r[g.side] = Absent,
         NEW then,
         \A t \in then : Matches(t, g) => t \in held,
         \A t \in held : Matches(t, g) => t \in then \/ t.cache = <<>>
  PROVE  InStep(g, then, rep) /\ InStep(g, then, Append(rep, r))
<1>0. PICK more : /\ more = Append(rep, r)
                  /\ DOMAIN more = DOMAIN rep \cup {Len(rep) + 1}
                  /\ Len(rep) + 1 \notin DOMAIN rep
                  /\ \A n \in DOMAIN rep : more[n] = rep[n]
                  /\ more[Len(rep) + 1] = r
  BY AppendedItem
<1>a. /\ DOMAIN more = DOMAIN rep \cup {Len(rep) + 1}
      /\ Len(rep) + 1 \notin DOMAIN rep
      /\ \A n \in DOMAIN rep : more[n] = rep[n]
      /\ more[Len(rep) + 1] = r
      /\ ~ (r.pair = g.pair /\ r[g.side] # Absent)
  BY <1>0
<1>1. /\ Takes(more, g) = Takes(rep, g)
      /\ \A n \in Takes(rep, g) : more[n] = rep[n]
  BY ONLY <1>a DEF Takes
<1>2. \A p : ~ IsCovered(<<>>, p)
  BY DEF IsCovered
<1>3. \A p : (\E s \in held : Matches(s, g) /\ IsCovered(s.cache, p))
               <=> (\E s \in then : Matches(s, g) /\ IsCovered(s.cache, p))
  BY <1>2
<1>4. InStep(g, then, rep)
  BY <1>3 DEF InStep
<1>5. InStep(g, then, more)
  BY <1>1, <1>4 DEF InStep
<1> QED BY <1>4, <1>5, <1>0

\* A source of which the next entry is reported.
LEMMA InStepTaken ==
  ASSUME NEW g, IsTree(g.version), NEW held, NEW rep, rep \in Seq(Items), NEW r, r \in Items, InStep(g, held, rep),
         NEW s \in held, Matches(s, g), s.cache # <<>>, \A t \in held : Matches(t, g) => t = s,
         r.pair = g.pair, r[g.side] = s.cache[Len(s.cache)],
         NEW next,
         next = SubSeq(s.cache, 1, Len(s.cache) - 1) \o Follow(g.version, s.cache[Len(s.cache)]),
         NEW then,
         \A t \in then : Matches(t, g) => t.version = g.version /\ t.cache = next,
         next = <<>> \/ \E t \in then : Matches(t, g)
  PROVE  InStep(g, then, Append(rep, r))
<1> DEFINE last == s.cache[Len(s.cache)]
           N == Len(rep) + 1
<1>1. IsStack(g.version, s.cache)
  BY DEF InStep
<1>2. /\ last \in Shown(g.version)
      /\ IsCovered(s.cache, last)
      /\ IsStack(g.version, next)
      /\ \A p \in Shown(g.version) : IsCovered(next, p) <=> IsCovered(s.cache, p) /\ p # last
  BY <1>1, StackStep
<1>3. r[g.side] # Absent
  BY <1>2, TreePaths, AbsentIsNoPath DEF Shown
<1>0. PICK more : /\ more = Append(rep, r)
                  /\ DOMAIN more = DOMAIN rep \cup {Len(rep) + 1}
                  /\ Len(rep) + 1 \notin DOMAIN rep
                  /\ \A n \in DOMAIN rep : more[n] = rep[n]
                  /\ more[Len(rep) + 1] = r
  BY AppendedItem
<1>a. /\ DOMAIN more = DOMAIN rep \cup {N}
      /\ N \notin DOMAIN rep
      /\ \A n \in DOMAIN rep : more[n] = rep[n]
      /\ more[N] = r
      /\ r.pair = g.pair /\ r[g.side] # Absent
  BY <1>0, <1>3
<1> HIDE DEF N
<1>4. /\ Takes(more, g) = Takes(rep, g) \cup {N}
      /\ \A n \in Takes(rep, g) : more[n] = rep[n]
      /\ more[N] = r
  BY ONLY <1>a DEF Takes
<1> HIDE DEF N, last
<1>5. r[g.side] = last
  BY DEF last
<1>6. \A p \in Shown(g.version) :
        (\E n \in Takes(rep, g) : rep[n][g.side] = p) <=> ~ IsCovered(s.cache, p)
  BY DEF InStep
<1>7. \A n \in Takes(rep, g) : rep[n][g.side] # last
  BY <1>2, <1>6
<1>8. \A m, n \in Takes(more, g) : more[m][g.side] = more[n][g.side] => m = n
  <2>1. \A m, n \in Takes(rep, g) : rep[m][g.side] = rep[n][g.side] => m = n
    BY DEF InStep
  <2> QED BY <2>1, <1>4, <1>5, <1>7
<1>9. \A n \in Takes(more, g) : more[n][g.side] \in Shown(g.version)
  <2>1. \A n \in Takes(rep, g) : rep[n][g.side] \in Shown(g.version)
    BY DEF InStep
  <2> QED BY <2>1, <1>2, <1>4, <1>5
<1>10. \A p : ~ IsCovered(<<>>, p)
  BY DEF IsCovered
<1>11. \A p : (\E t \in then : Matches(t, g) /\ IsCovered(t.cache, p)) <=> IsCovered(next, p)
  BY <1>10
<1>12. \A p \in Shown(g.version) :
         (\E n \in Takes(more, g) : more[n][g.side] = p) <=> (\E n \in Takes(rep, g) : rep[n][g.side] = p) \/ p = last
  BY <1>4, <1>5
<1>13. \A p \in Shown(g.version) :
         (\E n \in Takes(more, g) : more[n][g.side] = p)
           <=> ~ \E t \in then : Matches(t, g) /\ IsCovered(t.cache, p)
  BY <1>2, <1>6, <1>11, <1>12
<1>14. \A t \in then : Matches(t, g) => t.version = g.version /\ IsStack(g.version, t.cache)
  BY <1>2
<1>15. InStep(g, then, more)
  BY <1>8, <1>9, <1>13, <1>14 DEF InStep
<1> QED BY <1>15, <1>0

(***************************************************************************)
(* In the beginning                                                        *)
(***************************************************************************)
IsLostOf(list, g) == \E other \in ToSet(list) : other.pair = g.pair /\ other.missing

\* The source that stands for none has nothing to come.
LEMMA NothingFits ==
  ASSUME NEW g, IsSource(g)
  PROVE  ~ Matches(Nothing, g) /\ Nothing.cache = <<>>
BY DEF IsSource, Matches, Nothing, Source

\* In the beginning, all of a version is to come.
LEMMA InStepFirst ==
  ASSUME NEW list, IsList(list), NEW g \in ToSet(list), g.kind # "single", ~ IsLostOf(list, g),
         NEW held, \A s \in held : s \in ToSet(list) \/ s = Nothing, g \in held
  PROVE  InStep(g, held, <<>>)
<1>1. IsSource(g) /\ ~ g.missing
  BY DEF IsList, IsLostOf
<1>2. Takes(<<>>, g) = {}
  BY DEF Takes
<1>3. \A s \in held : Matches(s, g) => s = g
  <2> SUFFICES ASSUME NEW s \in held, Matches(s, g) PROVE s = g
    OBVIOUS
  <2>1. s \in ToSet(list)
    BY <1>1, NothingFits
  <2>2. PICK m \in DOMAIN list : s = list[m]
    BY <2>1 DEF ToSet
  <2>3. PICK n \in DOMAIN list : g = list[n]
    BY DEF ToSet
  <2>4. m = n
    BY <2>2, <2>3 DEF IsList, IsPaired, Matches
  <2> QED BY <2>2, <2>3, <2>4
<1>4. Matches(g, g)
  BY DEF Matches
<1>5. CASE g.kind = "local"
  <2>1. <<>> \in Shown(g.version) /\ IsTree(g.version)
    BY <1>1, <1>5 DEF IsSource, Shown
  <2>2. g.cache = <<<<>>>>
    BY <1>1, <1>5 DEF IsSource, Source
  <2>3. IsStack(g.version, g.cache)
    BY <2>1, <2>2 DEF IsStack
  <2>4. \A p \in Shown(g.version) : IsCovered(g.cache, p)
    <3> SUFFICES ASSUME NEW p \in Shown(g.version) PROVE IsCovered(g.cache, p)
      OBVIOUS
    <3>1. p \in Paths /\ <<>> \in Paths
      BY <2>1, TreePaths DEF Shown
    <3>2. Len(<<>>) = 0 /\ Len(p) \in Nat /\ \A i \in 1 .. 0 : FALSE
      BY <3>1 DEF Paths
    <3>3. IsPrefix(<<>>, p)
      BY <3>1, <3>2, PrefixAt
    <3> QED BY <3>3, <2>2 DEF IsCovered
  <2> QED BY <1>2, <1>3, <1>4, <2>3, <2>4 DEF InStep
<1>6. CASE g.kind # "local"
  <2>1. Shown(g.version) = {} /\ g.cache = <<>>
    BY <1>1, <1>6 DEF IsSource, Source, Shown
  <2>2. IsStack(g.version, g.cache)
    BY <2>1 DEF IsStack
  <2> QED BY <1>2, <1>3, <2>1, <2>2 DEF InStep
<1> QED BY <1>5, <1>6

(***************************************************************************)
(* Lists of pairs and single sources                                       *)
(***************************************************************************)
IsRow(list) == list \in Seq(ToSet(list))

\* A row over any set is one over its elements.
LEMMA RowIsRow ==
  ASSUME NEW S, NEW list \in Seq(S)
  PROVE  IsRow(list)
<1>1. /\ Len(list) \in Nat /\ DOMAIN list = 1 .. Len(list)
      /\ list = [n \in 1 .. Len(list) |-> list[n]]
  OBVIOUS
<1>2. \A n \in 1 .. Len(list) : list[n] \in ToSet(list)
  BY <1>1 DEF ToSet
<1> DEFINE N == Len(list)
<1>3. list \in [1 .. N -> ToSet(list)]
  BY <1>1, <1>2
<1>4. N \in Nat
  BY <1>1
<1> HIDE DEF N
<1>5. list \in Seq(ToSet(list))
  BY <1>3, <1>4
<1> QED BY <1>5 DEF IsRow

\* Behind a single source is again a list of pairs and single sources.
LEMMA DropSingle ==
  ASSUME NEW list, IsRow(list), IsPaired(list), list # <<>>, list[1].kind = "single",
         NEW rest, rest = Tail(list)
  PROVE  /\ IsRow(rest) /\ IsPaired(rest)
         /\ ToSet(list) = ToSet(rest) \cup {list[1]}
<1>1. list \in Seq(ToSet(list)) /\ Len(list) \in Nat /\ Len(list) >= 1 /\ DOMAIN list = 1 .. Len(list)
  BY DEF IsRow
<1>2. /\ rest \in Seq(ToSet(list)) /\ Len(rest) = Len(list) - 1
      /\ DOMAIN rest = 1 .. Len(list) - 1
      /\ \A n \in 1 .. Len(list) - 1 : rest[n] = list[n + 1]
  <2>1. /\ Tail(list) \in Seq(ToSet(list)) /\ Len(Tail(list)) = Len(list) - 1
        /\ \A n \in 1 .. Len(list) - 1 : Tail(list)[n] = list[n + 1]
    BY <1>1
  <2> QED BY <2>1
<1> DEFINE N == Len(list)
<1> HIDE DEF N
<1>3. /\ N \in Nat /\ N >= 1 /\ DOMAIN list = 1 .. N /\ Len(list) = N
      /\ Len(rest) = N - 1 /\ DOMAIN rest = 1 .. N - 1
      /\ \A n \in 1 .. N - 1 : rest[n] = list[n + 1] /\ n + 1 \in 1 .. N
  BY <1>1, <1>2 DEF N
<1>4. IsRow(rest)
  BY <1>2, RowIsRow
<1>5. ToSet(list) = ToSet(rest) \cup {list[1]}
  <2>1. \A n \in 1 .. N : n = 1 \/ (n - 1 \in 1 .. N - 1 /\ (n - 1) + 1 = n)
    BY <1>3
  <2>2. ASSUME NEW s \in ToSet(list) PROVE s \in ToSet(rest) \cup {list[1]}
    <3>1. PICK n \in 1 .. N : s = list[n]
      BY <1>3 DEF ToSet
    <3>2. CASE n = 1
      BY <3>1, <3>2
    <3>3. CASE n # 1
      <4>1. n - 1 \in 1 .. N - 1 /\ rest[n - 1] = s
        BY <3>1, <3>3, <2>1, <1>3
      <4> QED BY <4>1, <1>3 DEF ToSet
    <3> QED BY <3>2, <3>3
  <2>3. list[1] \in ToSet(list)
    BY <1>3 DEF ToSet
  <2>4. \A s \in ToSet(rest) : s \in ToSet(list)
    BY <1>3 DEF ToSet
  <2> QED BY <2>2, <2>3, <2>4
<1>a. \A m, n \in 1 .. N : list[m].pair = list[n].pair /\ list[m].side = list[n].side => m = n
  BY <1>3 DEF IsPaired
<1>6. IsPaired(rest)
  <2>1. rest # <<>> => rest[1].side = "original"
    <3> SUFFICES ASSUME rest # <<>> PROVE rest[1].side = "original"
      OBVIOUS
    <3>1. Len(rest) # 0
      BY <1>2
    <3>2. 1 \in 1 .. N - 1 /\ 1 # N
      BY <3>1, <1>3
    <3>3. rest[1] = list[2]
      BY <3>2, <1>3
    <3>4. list[1 + 1].side = "original"
      <4>1. 1 \in DOMAIN list /\ 1 # Len(list)
        BY <3>2, <1>3
      <4> QED BY <4>1 DEF IsPaired
    <3> QED BY <3>3, <3>4
  <2>2. ASSUME NEW n \in DOMAIN rest
        PROVE  LET isLast == n = Len(rest)
               IN  IF rest[n].kind = "single" \/ rest[n].side = "modified"
                   THEN /\ rest[n].kind = "single" => rest[n].side = "original"
                        /\ ~ isLast => rest[n + 1].side = "original"
                   ELSE /\ ~ isLast
                        /\ rest[n + 1].kind # "single"
                        /\ rest[n + 1].pair = rest[n].pair /\ rest[n + 1].side = "modified"
    <3>1. /\ n + 1 \in DOMAIN list /\ rest[n] = list[n + 1]
          /\ (n = Len(rest)) <=> (n + 1 = Len(list))
          /\ n # Len(rest) => rest[n + 1] = list[n + 1 + 1]
      BY <1>3
    <3> QED BY <3>1 DEF IsPaired
  <2>3. \A m, n \in DOMAIN rest : rest[m].pair = rest[n].pair /\ rest[m].side = rest[n].side => m = n
    <3> SUFFICES ASSUME NEW m \in 1 .. N - 1, NEW n \in 1 .. N - 1,
                        rest[m].pair = rest[n].pair, rest[m].side = rest[n].side
                 PROVE  m = n
      BY <1>3
    <3>1. m + 1 = n + 1
      BY <1>3, <1>a
    <3> QED BY <3>1, <1>3
  <2> QED BY <2>1, <2>2, <2>3 DEF IsPaired
<1> QED BY <1>2, <1>4, <1>5, <1>6

\* A list without its first pair.
BehindPair(list) == SubSeq(list, 3, Len(list))

\* And so it is behind a pair.
LEMMA DropPair ==
  ASSUME NEW list, IsRow(list), IsPaired(list), list # <<>>, list[1].kind # "single",
         \A s \in ToSet(list) : s.side \in Both,
         NEW rest, rest = BehindPair(list)
  PROVE  /\ Len(list) > 1
         /\ list[1].side = "original" /\ list[2].side = "modified" /\ list[2].kind # "single"
         /\ list[2].pair = list[1].pair
         /\ IsRow(rest) /\ IsPaired(rest)
         /\ ToSet(list) = ToSet(rest) \cup {list[1], list[2]}
         /\ \A s \in ToSet(rest) : s.pair # list[1].pair
<1>1. list \in Seq(ToSet(list)) /\ Len(list) \in Nat /\ Len(list) >= 1 /\ DOMAIN list = 1 .. Len(list)
  BY DEF IsRow
<1> DEFINE N == Len(list)
<1> HIDE DEF N
<1>2. N \in Nat /\ N >= 1 /\ DOMAIN list = 1 .. N /\ Len(list) = N /\ 1 \in DOMAIN list
  BY <1>1 DEF N
<1>3. list[1].side = "original"
  BY <1>2 DEF IsPaired
<1>4. 1 # Len(list) /\ list[1 + 1].kind # "single" /\ list[1 + 1].pair = list[1].pair /\ list[1 + 1].side = "modified"
  BY <1>2, <1>3 DEF IsPaired
<1>5. N >= 2 /\ 2 \in DOMAIN list
  BY <1>2, <1>4
<1>6. /\ list[2].kind # "single" /\ list[2].pair = list[1].pair /\ list[2].side = "modified"
  BY <1>4
<1>7. /\ rest \in Seq(ToSet(list)) /\ Len(rest) = N - 2 /\ DOMAIN rest = 1 .. N - 2
      /\ \A n \in 1 .. N - 2 : rest[n] = list[n + 2] /\ n + 2 \in 1 .. N
  <2>1. /\ SubSeq(list, 3, N) \in Seq(ToSet(list)) /\ Len(SubSeq(list, 3, N)) = N - 2
        /\ \A n \in 1 .. N - 2 : SubSeq(list, 3, N)[n] = list[n + 2]
    BY <1>1, <1>2, <1>5
  <2>2. rest = SubSeq(list, 3, N)
    BY <1>2 DEF BehindPair
  <2>3. \A n \in 1 .. N - 2 : n + 2 \in 1 .. N
    BY <1>5, <1>2
  <2> QED BY <2>1, <2>2, <2>3
<1>8. IsRow(rest)
  BY <1>7, RowIsRow
<1>9. ToSet(list) = ToSet(rest) \cup {list[1], list[2]}
  <2>1. \A n \in 1 .. N : n = 1 \/ n = 2 \/ (n - 2 \in 1 .. N - 2 /\ (n - 2) + 2 = n)
    BY <1>2
  <2>2. ASSUME NEW s \in ToSet(list) PROVE s \in ToSet(rest) \cup {list[1], list[2]}
    <3>1. PICK n \in 1 .. N : s = list[n]
      BY <1>2 DEF ToSet
    <3>2. CASE n = 1 \/ n = 2
      BY <3>1, <3>2
    <3>3. CASE n # 1 /\ n # 2
      <4>1. n - 2 \in 1 .. N - 2 /\ rest[n - 2] = s
        BY <3>1, <3>3, <2>1, <1>7
      <4> QED BY <4>1, <1>7 DEF ToSet
    <3> QED BY <3>2, <3>3
  <2>3. list[1] \in ToSet(list) /\ list[2] \in ToSet(list)
    BY <1>2, <1>5 DEF ToSet
  <2>4. \A s \in ToSet(rest) : s \in ToSet(list)
    BY <1>7, <1>2 DEF ToSet
  <2> QED BY <2>2, <2>3, <2>4
<1>10. \A m, n \in 1 .. N : list[m].pair = list[n].pair /\ list[m].side = list[n].side => m = n
  BY <1>2 DEF IsPaired
<1>11. \A s \in ToSet(rest) : s.pair # list[1].pair
  <2> SUFFICES ASSUME NEW s \in ToSet(rest), s.pair = list[1].pair PROVE FALSE
    OBVIOUS
  <2>1. PICK n \in 1 .. N - 2 : s = list[n + 2]
    BY <1>7 DEF ToSet
  <2>2. n + 2 \in 1 .. N /\ n + 2 # 1 /\ n + 2 # 2
    BY <1>7
  <2>3. s.side \in Both
    BY <1>9
  <2>4. s.side # "original"
    BY <2>1, <2>2, <1>2, <1>3, <1>10
  <2>5. s.side # "modified"
    BY <2>1, <2>2, <1>2, <1>5, <1>6, <1>10
  <2> QED BY <2>3, <2>4, <2>5 DEF Both
<1>12. IsPaired(rest)
  <2>1. rest # <<>> => rest[1].side = "original"
    <3> SUFFICES ASSUME rest # <<>> PROVE rest[1].side = "original"
      OBVIOUS
    <3>1. Len(rest) # 0
      BY <1>7
    <3>2. 1 \in 1 .. N - 2 /\ 2 # N
      BY <3>1, <1>7, <1>5, <1>2
    <3>3. rest[1] = list[2 + 1]
      BY <3>2, <1>7
    <3>4. list[2 + 1].side = "original"
      BY <3>2, <1>2, <1>5, <1>6 DEF IsPaired
    <3> QED BY <3>3, <3>4
  <2>2. ASSUME NEW n \in DOMAIN rest
        PROVE  LET isLast == n = Len(rest)
               IN  IF rest[n].kind = "single" \/ rest[n].side = "modified"
                   THEN /\ rest[n].kind = "single" => rest[n].side = "original"
                        /\ ~ isLast => rest[n + 1].side = "original"
                   ELSE /\ ~ isLast
                        /\ rest[n + 1].kind # "single"
                        /\ rest[n + 1].pair = rest[n].pair /\ rest[n + 1].side = "modified"
    <3>1. /\ n + 2 \in DOMAIN list /\ rest[n] = list[n + 2]
          /\ (n = Len(rest)) <=> (n + 2 = Len(list))
      BY <1>7, <1>2
    <3>2. n # Len(rest) => rest[n + 1] = list[n + 2 + 1]
      <4> SUFFICES ASSUME n # Len(rest) PROVE rest[n + 1] = list[n + 2 + 1]
        OBVIOUS
      <4>1. n + 1 \in 1 .. N - 2 /\ (n + 1) + 2 = n + 2 + 1
        BY <1>7, <1>2
      <4> QED BY <4>1, <1>7
    <3> QED BY <3>1, <3>2 DEF IsPaired
  <2>3. \A m, n \in DOMAIN rest : rest[m].pair = rest[n].pair /\ rest[m].side = rest[n].side => m = n
    <3> SUFFICES ASSUME NEW m \in 1 .. N - 2, NEW n \in 1 .. N - 2,
                        rest[m].pair = rest[n].pair, rest[m].side = rest[n].side
                 PROVE  m = n
      BY <1>7
    <3>1. m + 2 = n + 2
      BY <1>7, <1>10
    <3> QED BY <3>1, <1>2
  <2> QED BY <2>1, <2>2, <2>3 DEF IsPaired
<1> QED BY <1>2, <1>3, <1>5, <1>6, <1>8, <1>9, <1>11, <1>12

InFront(a, b, list) == <<a, b>> \o list

AtEnd(list, a, b) == list \o <<a, b>>

\* A pair may be put in front of a list, if it is not yet one of it.
LEMMA PutBack ==
  ASSUME NEW list, IsRow(list), IsPaired(list), NEW a, NEW b,
         a.kind # "single", b.kind # "single", a.side = "original", b.side = "modified", b.pair = a.pair,
         \A s \in ToSet(list) : s.pair # a.pair,
         NEW more, more = InFront(a, b, list)
  PROVE  /\ IsRow(more) /\ IsPaired(more)
         /\ ToSet(more) = ToSet(list) \cup {a, b}
<1>1. list \in Seq(ToSet(list)) /\ Len(list) \in Nat /\ DOMAIN list = 1 .. Len(list)
  BY DEF IsRow
<1> DEFINE N == Len(list)
           S == ToSet(list) \cup {a, b}
<1>2. /\ more \in Seq(S) /\ Len(more) = N + 2 /\ DOMAIN more = 1 .. N + 2
      /\ more[1] = a /\ more[2] = b
      /\ \A n \in 1 .. N : more[n + 2] = list[n]
  <2>1. list \in Seq(S) /\ <<a, b>> \in Seq(S) /\ Len(<<a, b>>) = 2 /\ <<a, b>>[1] = a /\ <<a, b>>[2] = b
    BY <1>1
  <2> HIDE DEF S, N
  <2> DEFINE ab == <<a, b>>
  <2>2. more = ab \o list /\ ab \in Seq(S) /\ Len(ab) = 2 /\ ab[1] = a /\ ab[2] = b /\ list \in Seq(S)
    BY <2>1 DEF InFront
  <2> HIDE DEF ab
  <2>3. /\ more \in Seq(S) /\ Len(more) = Len(ab) + Len(list)
        /\ \A i \in 1 .. Len(ab) + Len(list) : more[i] = IF i <= Len(ab) THEN ab[i] ELSE list[i - Len(ab)]
    BY ONLY <2>2, ConcatProperties
  <2>4. Len(more) = N + 2 /\ DOMAIN more = 1 .. N + 2 /\ N \in Nat
    BY <1>1, <2>2, <2>3 DEF N
  <2>5. \A i \in 1 .. N + 2 : more[i] = IF i <= 2 THEN ab[i] ELSE list[i - 2]
    BY <1>1, <2>2, <2>3 DEF N
  <2>6. more[1] = a /\ more[2] = b
    BY <2>2, <2>4, <2>5
  <2>7. \A n \in 1 .. N : more[n + 2] = list[n]
    <3> SUFFICES ASSUME NEW n \in 1 .. N PROVE more[n + 2] = list[n]
      OBVIOUS
    <3>1. n + 2 \in 1 .. N + 2 /\ ~ (n + 2 <= 2) /\ (n + 2) - 2 = n
      BY <2>4
    <3> QED BY <3>1, <2>5
  <2> QED BY <2>3, <2>4, <2>6, <2>7
<1> HIDE DEF N, S
<1>3. N \in Nat /\ DOMAIN list = 1 .. N /\ Len(list) = N
  BY <1>1 DEF N
<1>4. IsRow(more)
  BY <1>2, RowIsRow
<1>5. \A n \in 1 .. N + 2 : n = 1 \/ n = 2 \/ (n - 2 \in 1 .. N /\ more[n] = list[n - 2])
  <2> SUFFICES ASSUME NEW n \in 1 .. N + 2, n # 1, n # 2
               PROVE  n - 2 \in 1 .. N /\ more[n] = list[n - 2]
    OBVIOUS
  <2>1. n - 2 \in 1 .. N /\ (n - 2) + 2 = n
    BY <1>3
  <2> QED BY <2>1, <1>2
<1>6. 1 \in 1 .. N + 2 /\ 2 \in 1 .. N + 2 /\ \A n \in 1 .. N : n + 2 \in 1 .. N + 2
  BY <1>3
<1>7. ToSet(more) = ToSet(list) \cup {a, b}
  <2>1. \A s \in ToSet(more) : s \in ToSet(list) \cup {a, b}
    BY <1>2, <1>3, <1>5 DEF ToSet
  <2>2. a \in ToSet(more) /\ b \in ToSet(more)
    BY <1>2, <1>6 DEF ToSet
  <2>3. ASSUME NEW s \in ToSet(list) PROVE s \in ToSet(more)
    <3>1. PICK n \in 1 .. N : s = list[n]
      BY <1>3 DEF ToSet
    <3>2. n + 2 \in DOMAIN more /\ more[n + 2] = s
      BY <3>1, <1>2, <1>6
    <3> QED BY <3>2 DEF ToSet
  <2> QED BY <2>1, <2>2, <2>3
<1>8. \A n \in 1 .. N : list[n].pair # a.pair
  BY <1>3 DEF ToSet
<1>9. \A m, n \in 1 .. N : list[m].pair = list[n].pair /\ list[m].side = list[n].side => m = n
  BY <1>3 DEF IsPaired
<1>10. \A m, n \in DOMAIN more : more[m].pair = more[n].pair /\ more[m].side = more[n].side => m = n
  <2> SUFFICES ASSUME NEW m \in 1 .. N + 2, NEW n \in 1 .. N + 2,
                      more[m].pair = more[n].pair, more[m].side = more[n].side
               PROVE  m = n
    BY <1>2
  <2>1. CASE (m = 1 \/ m = 2) /\ (n = 1 \/ n = 2)
    BY <2>1, <1>2
  <2>2. CASE m # 1 /\ m # 2 /\ n # 1 /\ n # 2
    <3>1. m - 2 = n - 2
      BY <2>2, <1>5, <1>9
    <3> QED BY <3>1, <1>3
  <2>3. CASE (m = 1 \/ m = 2) /\ n # 1 /\ n # 2
    BY <2>3, <1>2, <1>5, <1>8
  <2>4. CASE m # 1 /\ m # 2 /\ (n = 1 \/ n = 2)
    BY <2>4, <1>2, <1>5, <1>8
  <2> QED BY <2>1, <2>2, <2>3, <2>4
<1>11. ASSUME NEW n \in DOMAIN more
       PROVE  LET isLast == n = Len(more)
              IN  IF more[n].kind = "single" \/ more[n].side = "modified"
                  THEN /\ more[n].kind = "single" => more[n].side = "original"
                       /\ ~ isLast => more[n + 1].side = "original"
                  ELSE /\ ~ isLast
                       /\ more[n + 1].kind # "single"
                       /\ more[n + 1].pair = more[n].pair /\ more[n + 1].side = "modified"
  <2>1. CASE n = 1
    <3>1. n # Len(more) /\ n + 1 = 2
      BY <2>1, <1>2, <1>3
    <3> QED BY <2>1, <3>1, <1>2
  <2>2. CASE n = 2
    <3>1. n # Len(more) => list # <<>> /\ more[n + 1] = list[1]
      <4> SUFFICES ASSUME n # Len(more) PROVE list # <<>> /\ more[n + 1] = list[1]
        OBVIOUS
      <4>1. 1 \in 1 .. N /\ n + 1 = 1 + 2
        BY <2>2, <1>2, <1>3
      <4> QED BY <4>1, <1>2, <1>3
    <3> QED BY <2>2, <3>1, <1>2 DEF IsPaired
  <2>3. CASE n # 1 /\ n # 2
    <3> DEFINE k == n - 2
    <3>1. k \in DOMAIN list /\ more[n] = list[k] /\ ((n = Len(more)) <=> (k = Len(list)))
      BY <2>3, <1>2, <1>3, <1>5
    <3>2. n # Len(more) => more[n + 1] = list[k + 1]
      <4> SUFFICES ASSUME n # Len(more) PROVE more[n + 1] = list[k + 1]
        OBVIOUS
      <4>1. k + 1 \in 1 .. N /\ n + 1 = (k + 1) + 2
        BY <3>1, <1>2, <1>3
      <4> QED BY <4>1, <1>2
    <3> HIDE DEF k
    <3> QED BY <3>1, <3>2 DEF IsPaired
  <2> QED BY <2>1, <2>2, <2>3
<1>12. IsPaired(more)
  BY <1>2, <1>10, <1>11 DEF IsPaired
<1> QED BY <1>4, <1>7, <1>12

\* And behind it.
LEMMA AddPair ==
  ASSUME NEW list, IsRow(list), IsPaired(list), NEW a, NEW b,
         a.kind # "single", b.kind # "single", a.side = "original", b.side = "modified", b.pair = a.pair,
         \A s \in ToSet(list) : s.pair # a.pair,
         NEW more, more = AtEnd(list, a, b)
  PROVE  /\ IsRow(more) /\ IsPaired(more)
         /\ ToSet(more) = ToSet(list) \cup {a, b}
         /\ Len(more) = Len(list) + 2
<1>1. list \in Seq(ToSet(list)) /\ Len(list) \in Nat /\ DOMAIN list = 1 .. Len(list)
  BY DEF IsRow
<1> DEFINE N == Len(list)
           S == ToSet(list) \cup {a, b}
<1>2. /\ more \in Seq(S) /\ Len(more) = N + 2 /\ DOMAIN more = 1 .. N + 2
      /\ more[N + 1] = a /\ more[N + 2] = b
      /\ \A n \in 1 .. N : more[n] = list[n]
  <2>1. list \in Seq(S) /\ <<a, b>> \in Seq(S) /\ Len(<<a, b>>) = 2 /\ <<a, b>>[1] = a /\ <<a, b>>[2] = b
    BY <1>1
  <2> HIDE DEF S, N
  <2> DEFINE ab == <<a, b>>
  <2>2. more = list \o ab /\ ab \in Seq(S) /\ Len(ab) = 2 /\ ab[1] = a /\ ab[2] = b /\ list \in Seq(S)
    BY <2>1 DEF AtEnd
  <2> HIDE DEF ab
  <2>3. /\ more \in Seq(S) /\ Len(more) = Len(list) + Len(ab)
        /\ \A i \in 1 .. Len(list) + Len(ab) : more[i] = IF i <= Len(list) THEN list[i] ELSE ab[i - Len(list)]
    BY ONLY <2>2, ConcatProperties
  <2>4. Len(more) = N + 2 /\ DOMAIN more = 1 .. N + 2 /\ N \in Nat
    BY <1>1, <2>2, <2>3 DEF N
  <2>5. \A i \in 1 .. N + 2 : more[i] = IF i <= N THEN list[i] ELSE ab[i - N]
    BY <1>1, <2>2, <2>3 DEF N
  <2>6. more[N + 1] = a /\ more[N + 2] = b
    <3>1. /\ N + 1 \in 1 .. N + 2 /\ N + 2 \in 1 .. N + 2 /\ ~ (N + 1 <= N) /\ ~ (N + 2 <= N)
          /\ (N + 1) - N = 1 /\ (N + 2) - N = 2
      BY <2>4
    <3> QED BY <3>1, <2>2, <2>5
  <2>7. \A n \in 1 .. N : more[n] = list[n]
    BY <2>4, <2>5
  <2> QED BY <2>3, <2>4, <2>6, <2>7
<1> HIDE DEF N, S
<1>3. N \in Nat /\ DOMAIN list = 1 .. N /\ Len(list) = N
  BY <1>1 DEF N
<1>4. IsRow(more)
  BY <1>2, RowIsRow
<1>5. \A n \in 1 .. N + 2 : n = N + 1 \/ n = N + 2 \/ n \in 1 .. N
  BY <1>3
<1>6. N + 1 \in 1 .. N + 2 /\ N + 2 \in 1 .. N + 2 /\ \A n \in 1 .. N : n \in 1 .. N + 2
  BY <1>3
<1>7. ToSet(more) = ToSet(list) \cup {a, b}
  <2>1. \A s \in ToSet(more) : s \in ToSet(list) \cup {a, b}
    BY <1>2, <1>3, <1>5 DEF ToSet
  <2>2. a \in ToSet(more) /\ b \in ToSet(more)
    BY <1>2, <1>6 DEF ToSet
  <2>3. ASSUME NEW s \in ToSet(list) PROVE s \in ToSet(more)
    BY <1>2, <1>3, <1>6 DEF ToSet
  <2> QED BY <2>1, <2>2, <2>3
<1>8. \A n \in 1 .. N : list[n].pair # a.pair
  BY <1>3 DEF ToSet
<1>9. \A m, n \in 1 .. N : list[m].pair = list[n].pair /\ list[m].side = list[n].side => m = n
  BY <1>3 DEF IsPaired
<1>10. \A m, n \in DOMAIN more : more[m].pair = more[n].pair /\ more[m].side = more[n].side => m = n
  <2> SUFFICES ASSUME NEW m \in 1 .. N + 2, NEW n \in 1 .. N + 2,
                      more[m].pair = more[n].pair, more[m].side = more[n].side
               PROVE  m = n
    BY <1>2
  <2>1. CASE m \notin 1 .. N /\ n \notin 1 .. N
    BY <2>1, <1>2, <1>5
  <2>2. CASE m \in 1 .. N /\ n \in 1 .. N
    BY <2>2, <1>2, <1>9
  <2>3. CASE m \notin 1 .. N /\ n \in 1 .. N
    BY <2>3, <1>2, <1>5, <1>8
  <2>4. CASE m \in 1 .. N /\ n \notin 1 .. N
    BY <2>4, <1>2, <1>5, <1>8
  <2> QED BY <2>1, <2>2, <2>3, <2>4
<1>11. ASSUME NEW n \in DOMAIN more
       PROVE  LET isLast == n = Len(more)
              IN  IF more[n].kind = "single" \/ more[n].side = "modified"
                  THEN /\ more[n].kind = "single" => more[n].side = "original"
                       /\ ~ isLast => more[n + 1].side = "original"
                  ELSE /\ ~ isLast
                       /\ more[n + 1].kind # "single"
                       /\ more[n + 1].pair = more[n].pair /\ more[n + 1].side = "modified"
  <2>1. CASE n = N + 2
    BY <2>1, <1>2
  <2>2. CASE n = N + 1
    <3>1. n # Len(more) /\ n + 1 = N + 2
      BY <2>2, <1>2, <1>3
    <3> QED BY <2>2, <3>1, <1>2
  <2>3. CASE n \in 1 .. N
    <3>1. n \in DOMAIN list /\ more[n] = list[n] /\ n # Len(more)
      BY <2>3, <1>2, <1>3
    <3>2. CASE n = N
      <4>1. more[n].kind = "single" \/ more[n].side = "modified"
        BY <3>1, <3>2, <1>3 DEF IsPaired
      <4>2. more[n + 1].side = "original"
        BY <3>2, <1>2
      <4>3. more[n].kind = "single" => more[n].side = "original"
        BY <3>1 DEF IsPaired
      <4> QED BY <4>1, <4>2, <4>3
    <3>3. CASE n # N
      <4>1. more[n + 1] = list[n + 1] /\ n # Len(list)
        <5>1. n + 1 \in 1 .. N
          BY <2>3, <3>3, <1>3
        <5> QED BY <5>1, <3>3, <1>2, <1>3
      <4> QED BY <3>1, <4>1 DEF IsPaired
    <3> QED BY <3>2, <3>3
  <2> QED BY <2>1, <2>2, <2>3, <1>2, <1>5
<1>12. more # <<>> => more[1].side = "original"
  <2>1. CASE N = 0
    <3>1. more[1] = a
      BY <2>1, <1>2
    <3> QED BY <3>1
  <2>2. CASE N # 0
    <3>1. 1 \in 1 .. N /\ list # <<>>
      BY <2>2, <1>3
    <3> QED BY <3>1, <1>2 DEF IsPaired
  <2> QED BY <2>1, <2>2
<1>13. IsPaired(more)
  BY <1>10, <1>11, <1>12 DEF IsPaired
<1> QED BY <1>2, <1>3, <1>4, <1>7, <1>13

(***************************************************************************)
(* The inductive invariant                                                 *)
(***************************************************************************)
\* A source that was given, after some of its entries.
IsOf(s, g) == s = [g EXCEPT !.cache = s.cache]

Held == ToSet(sources) \cup {current[side] : side \in Both}

SourcesSound ==
  /\ IsRow(sources) /\ IsPaired(sources)
  /\ \A s \in ToSet(sources) : \E g \in ToSet(given) : IsOf(s, g)

IsCurrentPair ==
  /\ current["original"].pair = current["modified"].pair
  /\ \A side \in Both :
       /\ \E g \in ToSet(given) : IsOf(current[side], g)
       /\ current[side].side = side /\ current[side].kind # "single" /\ ~ current[side].missing
       /\ \A s \in ToSet(sources) : s.pair # current[side].pair

CurrentSound ==
  /\ current = [side \in Both |-> current[side]]
  /\ IF phase = "process" THEN IsCurrentPair ELSE \A side \in Both : current[side] = Nothing

\* While the list of files is read, nothing is consumed.
OnlyGiven ==
  phase \in {"read", "look"} =>
    /\ sources = given /\ reported = <<>>
    /\ \A s \in ToSet(given) : s.pair <= Len(given) \div 2

AllInStep ==
  \A g \in ToSet(given) :
    g.kind # "single" => IF IsLost(g) THEN Takes(reported, g) = {} ELSE InStep(g, Held, reported)

IInv ==
  /\ IsList(given)
  /\ SourcesSound
  /\ CurrentSound
  /\ OnlyGiven
  /\ reported \in Seq(Items)
  /\ AllInStep

\* Pair and side tell which source it is.
LEMMA GivenOnce ==
  ASSUME NEW list, IsList(list), NEW g \in ToSet(list), NEW h \in ToSet(list), g.pair = h.pair, g.side = h.side
  PROVE  g = h
<1>1. PICK m \in DOMAIN list : g = list[m]
  BY DEF ToSet
<1>2. PICK n \in DOMAIN list : h = list[n]
  BY DEF ToSet
<1>3. m = n
  BY <1>1, <1>2 DEF IsList, IsPaired
<1> QED BY <1>1, <1>2, <1>3

\* A source that has advanced has all of the one that was given, but its stack.
LEMMA OfGiven ==
  ASSUME NEW g, IsSource(g), NEW s, IsOf(s, g)
  PROVE  /\ s.kind = g.kind /\ s.missing = g.missing /\ s.pair = g.pair /\ s.side = g.side
         /\ s.version = g.version
         /\ \A c : /\ IsOf([s EXCEPT !.cache = c], g)
                   /\ [s EXCEPT !.cache = c].cache = c
<1>1. g = [kind |-> g.kind, missing |-> g.missing, pair |-> g.pair, side |-> g.side, version |-> g.version,
           cache |-> g.cache]
  BY DEF IsSource, Source
<1>2. s = [kind |-> g.kind, missing |-> g.missing, pair |-> g.pair, side |-> g.side, version |-> g.version,
           cache |-> s.cache]
  BY <1>1 DEF IsOf
<1>3. /\ s.kind = g.kind /\ s.missing = g.missing /\ s.pair = g.pair /\ s.side = g.side
      /\ s.version = g.version
  BY <1>2
<1>4. ASSUME NEW c
      PROVE  /\ IsOf([s EXCEPT !.cache = c], g)
             /\ [s EXCEPT !.cache = c].cache = c
  <2>1. [s EXCEPT !.cache = c] =
           [kind |-> g.kind, missing |-> g.missing, pair |-> g.pair, side |-> g.side, version |-> g.version,
            cache |-> c]
    BY <1>2
  <2>2. [g EXCEPT !.cache = c] =
           [kind |-> g.kind, missing |-> g.missing, pair |-> g.pair, side |-> g.side, version |-> g.version,
            cache |-> c]
    BY <1>1
  <2>3. [s EXCEPT !.cache = c].cache = c
    BY <2>1
  <2> QED BY <2>1, <2>2, <2>3 DEF IsOf
<1> QED BY <1>3, <1>4

\* What was given is given, after none of its entries.
LEMMA GivenOfItself ==
  ASSUME NEW g, IsSource(g)
  PROVE  IsOf(g, g)
<1>1. g = [kind |-> g.kind, missing |-> g.missing, pair |-> g.pair, side |-> g.side, version |-> g.version,
           cache |-> g.cache]
  BY DEF IsSource, Source
<1> QED BY <1>1 DEF IsOf

\* The next entry of a source that is not exhausted.
LEMMA NextOfGiven ==
  ASSUME NEW g, IsSource(g), NEW s, IsOf(s, g), IsStack(g.version, s.cache)
  PROVE  /\ IsOf(NextEntry(s), g)
         /\ Entry(s) \in Seq(Nat)
         /\ HasEntry(s) =>
              /\ Entry(s) = s.cache[Len(s.cache)]
              /\ Entry(s) \in Shown(g.version)
              /\ NextEntry(s).cache = SubSeq(s.cache, 1, Len(s.cache) - 1) \o Follow(g.version, s.cache[Len(s.cache)])
         /\ ~ HasEntry(s) => NextEntry(s) = s
<1>1. s.version = g.version /\ \A c : IsOf([s EXCEPT !.cache = c], g) /\ [s EXCEPT !.cache = c].cache = c
  BY OfGiven
<1>2. CASE ~ HasEntry(s)
  <2>1. NextEntry(s) = s /\ Entry(s) = <<0>>
    BY <1>2 DEF NextEntry, Entry, Absent
  <2>2. <<0>> \in Seq(Nat)
    OBVIOUS
  <2> QED BY <1>2, <2>1, <2>2
<1>3. CASE HasEntry(s)
  <2> DEFINE cache == s.cache
             last == cache[Len(cache)]
             front == SubSeq(cache, 1, Len(cache) - 1)
  <2>1. cache \in Seq(Shown(g.version)) /\ Len(cache) \in Nat /\ Len(cache) > 0
    BY <1>3 DEF IsStack, HasEntry
  <2>2. last \in Shown(g.version) /\ front \in Seq(Shown(g.version))
    BY <2>1
  <2>3. Entry(s) = last
    BY <1>3 DEF Entry, Last
  <2>4. last \in Seq(Nat)
    <3>1. last \in Paths
      BY <2>2, TreePaths DEF Shown, IsSource
    <3> QED BY <3>1 DEF Paths
  <2>5. front \o <<>> = front
    <3> HIDE DEF front
    <3> QED BY <2>2, ConcatEmptySeq
  <2>6. CASE g.version[last] = "directory"
    <3>1. NextEntry(s) = [s EXCEPT !.cache = front \o Expanded(g.version, last)]
      BY <1>1, <1>3, <2>3, <2>6 DEF NextEntry, IsDirectory, Front, Last
    <3>2. Follow(g.version, last) = Expanded(g.version, last)
      BY <2>6 DEF Follow
    <3> HIDE DEF cache, last, front
    <3>3. NextEntry(s).cache = front \o Follow(g.version, last) /\ IsOf(NextEntry(s), g)
      BY <1>1, <3>1, <3>2
    <3>4. NextEntry(s).cache = SubSeq(s.cache, 1, Len(s.cache) - 1) \o Follow(g.version, s.cache[Len(s.cache)])
      BY <3>3 DEF cache, last, front
    <3> QED BY <1>3, <2>2, <2>3, <2>4, <3>3, <3>4 DEF cache, last
  <2>7. CASE g.version[last] # "directory"
    <3>1. NextEntry(s) = [s EXCEPT !.cache = front]
      BY <1>1, <1>3, <2>3, <2>7 DEF NextEntry, IsDirectory, Front, Last
    <3>2. Follow(g.version, last) = <<>>
      BY <2>7 DEF Follow
    <3> HIDE DEF cache, last, front
    <3>3. NextEntry(s).cache = front \o Follow(g.version, last) /\ IsOf(NextEntry(s), g)
      BY <1>1, <2>5, <3>1, <3>2
    <3>4. NextEntry(s).cache = SubSeq(s.cache, 1, Len(s.cache) - 1) \o Follow(g.version, s.cache[Len(s.cache)])
      BY <3>3 DEF cache, last, front
    <3> QED BY <1>3, <2>2, <2>3, <2>4, <3>3, <3>4 DEF cache, last
  <2> QED BY <2>6, <2>7
<1> QED BY <1>2, <1>3

\* The two sources that consume works on.
LEMMA CurrentOne ==
  ASSUME IInv, phase = "process", NEW side \in Both
  PROVE  \E g \in ToSet(given) :
           /\ IsSource(g) /\ IsOf(current[side], g)
           /\ g.side = side /\ g.pair = current["original"].pair /\ g.kind # "single" /\ ~ IsLost(g)
           /\ InStep(g, Held, reported) /\ IsStack(g.version, current[side].cache)
<1>1. IsCurrentPair
  BY DEF IInv, CurrentSound
<1>2. PICK g \in ToSet(given) : IsOf(current[side], g)
  BY <1>1 DEF IsCurrentPair
<1>3. IsSource(g)
  BY DEF IInv, IsList
<1>4. /\ current[side].side = side /\ current[side].kind # "single"
      /\ current[side].pair = current["original"].pair
  BY <1>1 DEF IsCurrentPair, Both
<1>5. g.side = side /\ g.pair = current["original"].pair /\ g.kind # "single"
  BY <1>2, <1>3, <1>4, OfGiven
<1>6. ~ IsLost(g)
  <2> SUFFICES ASSUME NEW other \in ToSet(given), other.pair = g.pair, other.missing
               PROVE  FALSE
    BY DEF IsLost
  <2>1. IsSource(other) /\ other.side \in Both
    BY DEF IInv, IsList, IsSource
  <2>2. PICK h \in ToSet(given) : IsOf(current[other.side], h)
    BY <1>1, <2>1 DEF IsCurrentPair
  <2>3. IsSource(h)
    BY DEF IInv, IsList
  <2>4. /\ current[other.side].side = other.side /\ ~ current[other.side].missing
        /\ current[other.side].pair = current["original"].pair
    BY <1>1, <2>1 DEF IsCurrentPair, Both
  <2>5. h.side = other.side /\ h.pair = other.pair /\ ~ h.missing
    BY <2>2, <2>3, <2>4, <1>5, OfGiven
  <2>6. h = other
    BY <2>5, GivenOnce DEF IInv
  <2> QED BY <2>5, <2>6
<1>7. InStep(g, Held, reported)
  BY <1>5, <1>6 DEF IInv, AllInStep
<1>8. Matches(current[side], g) /\ current[side] \in Held
  BY <1>4, <1>5 DEF Matches, Held
<1>9. IsStack(g.version, current[side].cache)
  BY <1>7, <1>8 DEF InStep
<1> QED BY <1>2, <1>3, <1>5, <1>6, <1>7, <1>9

\* What is reported of the two sources, and what is held then.
LEMMA TakeStep ==
  ASSUME IInv, phase = "process",
         NEW taken, taken \subseteq Both, \A side \in taken : HasEntry(current[side]),
         NEW kind, kind \in Kinds,
         NEW r, r = [pair |-> current["original"].pair, kind |-> kind,
                     original |-> IF "original" \in taken THEN Path("original") ELSE Absent,
                     modified |-> IF "modified" \in taken THEN Path("modified") ELSE Absent],
         NEW then,
         \A t \in then : t \in ToSet(sources) \/ t = Nothing \/ \E side \in Both : t = Advanced(taken)[side],
         ToSet(sources) \subseteq then,
         \A side \in Both : Advanced(taken)[side] \in then \/ Advanced(taken)[side].cache = <<>>
  PROVE  /\ r \in Items
         /\ \A g \in ToSet(given) : g.kind # "single" =>
              IF IsLost(g) THEN Takes(Append(reported, r), g) = {} ELSE InStep(g, then, Append(reported, r))
<1> DEFINE next == Advanced(taken)
<1>1. IsCurrentPair /\ reported \in Seq(Items)
  BY DEF IInv, CurrentSound
<1>2. \A side \in Both : Path(side) \in Seq(Nat)
  <2> SUFFICES ASSUME NEW side \in Both PROVE Path(side) \in Seq(Nat)
    OBVIOUS
  <2>1. PICK g \in ToSet(given) :
           /\ IsSource(g) /\ IsOf(current[side], g)
           /\ g.side = side /\ g.pair = current["original"].pair /\ g.kind # "single" /\ ~ IsLost(g)
           /\ InStep(g, Held, reported) /\ IsStack(g.version, current[side].cache)
    BY CurrentOne
  <2> QED BY <2>1, NextOfGiven DEF Path
<1>3. current["original"].pair \in Nat /\ current["original"].pair # 0
  <2>1. PICK g \in ToSet(given) :
           /\ IsSource(g) /\ IsOf(current["original"], g)
           /\ g.side = "original" /\ g.pair = current["original"].pair /\ g.kind # "single" /\ ~ IsLost(g)
           /\ InStep(g, Held, reported) /\ IsStack(g.version, current["original"].cache)
    BY CurrentOne DEF Both
  <2> QED BY <2>1 DEF IsSource
<1>4. r \in Items
  <2>1. Absent \in Seq(Nat)
    BY DEF Absent
  <2>2. Path("original") \in Seq(Nat) /\ Path("modified") \in Seq(Nat)
    BY <1>2 DEF Both
  <2> QED BY <1>3, <2>1, <2>2 DEF Items
<1>5. /\ r.pair = current["original"].pair
      /\ \A side \in Both : r[side] = IF side \in taken THEN Path(side) ELSE Absent
  BY DEF Both
<1>6. \A side \in Both : next[side] = IF side \in taken THEN NextEntry(current[side]) ELSE current[side]
  BY DEF Advanced
<1>7. \A side \in Both : /\ current[side].pair = current["original"].pair /\ current[side].side = side
                         /\ \A s \in ToSet(sources) : s.pair # current[side].pair
  BY <1>1 DEF IsCurrentPair, Both
<1>8. \A side \in Both : next[side].pair = current["original"].pair /\ next[side].side = side
  <2> SUFFICES ASSUME NEW side \in Both
               PROVE  next[side].pair = current["original"].pair /\ next[side].side = side
    OBVIOUS
  <2>1. PICK g \in ToSet(given) :
           /\ IsSource(g) /\ IsOf(current[side], g)
           /\ g.side = side /\ g.pair = current["original"].pair /\ g.kind # "single" /\ ~ IsLost(g)
           /\ InStep(g, Held, reported) /\ IsStack(g.version, current[side].cache)
    BY CurrentOne
  <2>2. IsOf(NextEntry(current[side]), g)
    BY <2>1, NextOfGiven
  <2>3. IsOf(next[side], g)
    BY <1>6, <2>1, <2>2
  <2> HIDE DEF next
  <2> QED BY <2>1, <2>3, OfGiven
<1> HIDE DEF next
<1>9. ASSUME NEW g \in ToSet(given), g.kind # "single", g.pair # current["original"].pair
      PROVE  IF IsLost(g) THEN Takes(Append(reported, r), g) = {} ELSE InStep(g, then, Append(reported, r))
  <2>1. r.pair # g.pair
    BY <1>5, <1>9
  <2>2. CASE IsLost(g)
    <3>1. Takes(reported, g) = {}
      BY <1>9, <2>2 DEF IInv, AllInStep
    <3>2. PICK more : /\ more = Append(reported, r)
                      /\ DOMAIN more = DOMAIN reported \cup {Len(reported) + 1}
                      /\ Len(reported) + 1 \notin DOMAIN reported
                      /\ \A n \in DOMAIN reported : more[n] = reported[n]
                      /\ more[Len(reported) + 1] = r
      <4>1. reported \in Seq(Items) /\ r \in Items
        BY <1>1, <1>4
      <4> QED BY ONLY <4>1, AppendedItem
    <3>3. Takes(more, g) = {}
      BY <3>1, <3>2, <2>1 DEF Takes
    <3> QED BY <2>2, <3>2, <3>3
  <2>3. CASE ~ IsLost(g)
    <3>1. InStep(g, Held, reported)
      BY <1>9, <2>3 DEF IInv, AllInStep
    <3>2. IsSource(g)
      BY DEF IInv, IsList
    <3>3. \A t \in then : Matches(t, g) => t \in Held
      BY <1>8, <1>9, <3>2, NothingFits DEF Matches, Held, next
    <3>4. \A t \in Held : Matches(t, g) => t \in then \/ t.cache = <<>>
      BY <1>7, <1>9 DEF Matches, Held
    <3>5. InStep(g, then, Append(reported, r))
      BY <1>1, <1>4, <2>1, <3>1, <3>3, <3>4, InStepOther
    <3> QED BY <2>3, <3>5
  <2> QED BY <2>2, <2>3
<1>10. ASSUME NEW g \in ToSet(given), g.kind # "single", g.pair = current["original"].pair
       PROVE  IF IsLost(g) THEN Takes(Append(reported, r), g) = {} ELSE InStep(g, then, Append(reported, r))
  <2> DEFINE side == g.side
             c == current[side]
  <2>1. side \in Both
    BY DEF IInv, IsList, IsSource
  <2> HIDE DEF side
  <2>2. PICK h \in ToSet(given) :
           /\ IsSource(h) /\ IsOf(current[side], h)
           /\ h.side = side /\ h.pair = current["original"].pair /\ h.kind # "single" /\ ~ IsLost(h)
           /\ InStep(h, Held, reported) /\ IsStack(h.version, current[side].cache)
    BY <2>1, CurrentOne
  <2>3. h = g
    BY <1>10, <2>2, GivenOnce DEF IInv, side
  <2>4. /\ IsSource(g) /\ IsTree(g.version) /\ IsOf(c, g) /\ ~ IsLost(g) /\ InStep(g, Held, reported)
        /\ IsStack(g.version, c.cache)
    BY <2>2, <2>3 DEF IsSource
  <2> HIDE DEF c
  <2>5. Matches(c, g) /\ c \in Held
    BY <1>7, <1>10, <2>1 DEF Matches, Held, c, side
  <2>6. \A t \in Held : Matches(t, g) => t = c
    BY <1>7, <1>10, <2>1 DEF Matches, Held, c, side
  <2>7. \A t \in then : Matches(t, g) => t = next[side]
    <3> SUFFICES ASSUME NEW t \in then, Matches(t, g) PROVE t = next[side]
      OBVIOUS
    <3>1. t \notin ToSet(sources)
      BY <1>7, <1>10, <2>1 DEF Matches
    <3>2. t # Nothing
      BY <2>4, NothingFits
    <3>3. PICK other \in Both : t = next[other]
      BY <3>1, <3>2 DEF next
    <3>4. other = side
      BY <1>8, <3>3 DEF Matches, side
    <3> QED BY <3>3, <3>4
  <2>8. Matches(next[side], g)
    BY <1>8, <1>10, <2>1 DEF Matches, side
  <2>9. next[side] \in then \/ next[side].cache = <<>>
    BY <2>1 DEF next
  <2>10. CASE side \in taken
    <3>1. HasEntry(c) /\ next[side] = NextEntry(c) /\ r[g.side] = Entry(c)
      BY <2>10, <2>1, <1>5, <1>6 DEF c, Path, side
    <3>2. /\ r[g.side] = c.cache[Len(c.cache)]
          /\ IsOf(next[side], g)
          /\ next[side].cache = SubSeq(c.cache, 1, Len(c.cache) - 1) \o Follow(g.version, c.cache[Len(c.cache)])
      BY <3>1, <2>4, NextOfGiven
    <3>3. c.cache # <<>>
      BY <3>1 DEF HasEntry
    <3>4. next[side].version = g.version
      BY <3>2, <2>4, OfGiven
    <3>5. \A t \in then : Matches(t, g) => t.version = g.version /\ t.cache = next[side].cache
      BY <2>7, <3>4
    <3>6. next[side].cache = <<>> \/ \E t \in then : Matches(t, g)
      BY <2>8, <2>9
    <3>7. r.pair = g.pair
      BY <1>5, <1>10
    <3> DEFINE after == next[side].cache
    <3>8. /\ IsTree(g.version) /\ reported \in Seq(Items) /\ r \in Items /\ InStep(g, Held, reported)
          /\ c \in Held /\ Matches(c, g) /\ c.cache # <<>> /\ \A t \in Held : Matches(t, g) => t = c
          /\ r.pair = g.pair /\ r[g.side] = c.cache[Len(c.cache)]
          /\ after = SubSeq(c.cache, 1, Len(c.cache) - 1) \o Follow(g.version, c.cache[Len(c.cache)])
          /\ \A t \in then : Matches(t, g) => t.version = g.version /\ t.cache = after
          /\ after = <<>> \/ \E t \in then : Matches(t, g)
      BY <1>1, <1>4, <2>4, <2>5, <2>6, <3>2, <3>3, <3>5, <3>6, <3>7
    <3> HIDE DEF side, after
    <3>9. InStep(g, then, Append(reported, r))
      BY ONLY <3>8, InStepTaken
    <3> QED BY <2>4, <3>9
  <2>11. CASE side \notin taken
    <3>1. next[side] = c /\ r[g.side] = Absent
      BY <2>11, <2>1, <1>5, <1>6 DEF c, side
    <3>2. \A t \in then : Matches(t, g) => t \in Held
      BY <2>5, <2>7, <3>1
    <3>3. \A t \in Held : Matches(t, g) => t \in then \/ t.cache = <<>>
      BY <2>6, <2>9, <3>1
    <3>4. InStep(g, then, Append(reported, r))
      BY <1>1, <1>4, <2>4, <3>1, <3>2, <3>3, InStepOther
    <3> QED BY <2>4, <3>4
  <2> QED BY <2>10, <2>11
<1> QED BY <1>4, <1>9, <1>10

\* Sources that have nothing more to come may be dropped.
LEMMA InStepKept ==
  ASSUME NEW g, NEW held, NEW rep, InStep(g, held, rep), NEW then,
         \A t \in then : Matches(t, g) => t \in held,
         \A t \in held : Matches(t, g) => t \in then \/ t.cache = <<>>
  PROVE  InStep(g, then, rep)
<1>1. \A p : ~ IsCovered(<<>>, p)
  BY DEF IsCovered
<1>2. \A p : (\E s \in held : Matches(s, g) /\ IsCovered(s.cache, p))
               <=> (\E s \in then : Matches(s, g) /\ IsCovered(s.cache, p))
  BY <1>1
<1> QED BY <1>2 DEF InStep

\* A single source shares its number with no other one.
LEMMA SinglePair ==
  ASSUME NEW list, IsList(list), NEW g \in ToSet(list), NEW h \in ToSet(list), g.kind # "single", h.kind = "single"
  PROVE  g.pair # h.pair
<1> SUFFICES ASSUME g.pair = h.pair PROVE FALSE
  OBVIOUS
<1>1. list \in Seq(ToSet(list)) /\ DOMAIN list = 1 .. Len(list) /\ Len(list) \in Nat /\ IsPaired(list)
  BY DEF IsList
<1>2. \A s \in ToSet(list) : s.side = "original" \/ s.side = "modified"
  BY DEF IsList, IsSource, Both
<1>3. h.side = "original"
  BY DEF IsList, IsPaired, ToSet
<1>4. g.side = "modified"
  BY <1>2, <1>3, GivenOnce
<1>5. PICK n \in 1 .. Len(list) : g = list[n]
  BY <1>1 DEF ToSet
<1>6. n # 1
  <2>1. list # <<>>
    BY <1>1, <1>5
  <2> QED BY <2>1, <1>1, <1>4, <1>5 DEF IsPaired
<1> DEFINE m == n - 1
<1>7. m \in DOMAIN list /\ m + 1 = n /\ m # Len(list)
  BY <1>1, <1>5, <1>6
<1> HIDE DEF m
<1>8. list[m + 1].side = "modified"
  BY <1>4, <1>5, <1>7
<1>9. list[m].kind # "single" /\ list[m].side # "modified"
  BY <1>1, <1>7, <1>8 DEF IsPaired
<1>10. list[m + 1].pair = list[m].pair
  BY <1>1, <1>7, <1>9 DEF IsPaired
<1>11. list[m] \in ToSet(list) /\ list[m].side = "original" /\ list[m].pair = h.pair
  BY <1>2, <1>5, <1>7, <1>9, <1>10 DEF ToSet
<1>12. list[m] = h
  BY <1>3, <1>11, GivenOnce
<1> QED BY <1>9, <1>12

\* Sources that are held have a side, and a kind that is given.
LEMMA SourceOfGiven ==
  ASSUME IInv, NEW s \in ToSet(sources)
  PROVE  \E g \in ToSet(given) :
           /\ IsSource(g) /\ IsOf(s, g)
           /\ s.side \in Both /\ s.pair = g.pair /\ s.side = g.side /\ s.kind = g.kind /\ s.missing = g.missing
<1>1. PICK g \in ToSet(given) : IsOf(s, g)
  BY DEF IInv, SourcesSound
<1>2. IsSource(g)
  BY DEF IInv, IsList
<1> QED BY <1>1, <1>2, OfGiven DEF IsSource

\* The first source, and the second of a pair.
LEMMA FirstSources ==
  ASSUME IInv, IsReady
  PROVE  /\ sources # <<>> /\ sources[1] \in ToSet(sources)
         /\ ~ IsSingle =>
              /\ sources[2] \in ToSet(sources)
              /\ sources[1].side = "original" /\ sources[2].side = "modified" /\ sources[1].kind # "single"
              /\ sources[2].kind # "single" /\ sources[2].pair = sources[1].pair
              /\ IsRow(BehindPair(sources)) /\ IsPaired(BehindPair(sources))
              /\ ToSet(sources) = ToSet(BehindPair(sources)) \cup {sources[1], sources[2]}
              /\ \A s \in ToSet(BehindPair(sources)) : s.pair # sources[1].pair
<1>1. IsRow(sources) /\ IsPaired(sources)
  BY DEF IInv, SourcesSound
<1>2. Len(sources) \in Nat /\ DOMAIN sources = 1 .. Len(sources)
  BY <1>1 DEF IsRow
<1>3. sources # <<>> /\ Len(sources) >= 1
  BY <1>1, <1>2 DEF IsReady, IsRow
<1>4. sources[1] \in ToSet(sources)
  BY <1>2, <1>3 DEF ToSet
<1>5. \A s \in ToSet(sources) : s.side \in Both
  BY SourceOfGiven
<1> DEFINE rest == BehindPair(sources)
<1>6. ASSUME ~ IsSingle
      PROVE  /\ sources[2] \in ToSet(sources)
             /\ sources[1].side = "original" /\ sources[2].side = "modified" /\ sources[1].kind # "single"
             /\ sources[2].kind # "single" /\ sources[2].pair = sources[1].pair
             /\ IsRow(rest) /\ IsPaired(rest)
             /\ ToSet(sources) = ToSet(rest) \cup {sources[1], sources[2]}
             /\ \A s \in ToSet(rest) : s.pair # sources[1].pair
  <2>1. sources[1].kind # "single"
    BY <1>6 DEF IsSingle
  <2>2. rest = BehindPair(sources)
    BY DEF rest
  <2> HIDE DEF rest
  <2>3. /\ Len(sources) > 1
        /\ sources[1].side = "original" /\ sources[2].side = "modified" /\ sources[2].kind # "single"
        /\ sources[2].pair = sources[1].pair
        /\ IsRow(rest) /\ IsPaired(rest)
        /\ ToSet(sources) = ToSet(rest) \cup {sources[1], sources[2]}
        /\ \A s \in ToSet(rest) : s.pair # sources[1].pair
    BY ONLY <1>1, <1>3, <1>5, <2>1, <2>2, DropPair
  <2>4. sources[2] \in ToSet(sources)
    BY <2>3
  <2> QED BY <2>1, <2>3, <2>4
<1> QED BY <1>3, <1>4, <1>6

\* The two sources go from the list to current.
LEMMA ConsumeKeeps ==
  ASSUME IInv, Consume
  PROVE  IInv'
<1> DEFINE rest == BehindPair(sources)
           one == sources[1]
           two == sources[2]
<1>1. /\ IsReady /\ ~ IsSingle /\ ~ IsMissing
      /\ current' = [original |-> one, modified |-> two]
      /\ sources' = rest /\ phase' = "process" /\ given' = given /\ reported' = reported
  BY DEF Consume, BehindPair
<1>2. /\ one \in ToSet(sources) /\ two \in ToSet(sources)
      /\ one.side = "original" /\ two.side = "modified" /\ one.kind # "single"
      /\ two.kind # "single" /\ two.pair = one.pair
      /\ IsRow(rest) /\ IsPaired(rest)
      /\ ToSet(sources) = ToSet(rest) \cup {one, two}
      /\ \A s \in ToSet(rest) : s.pair # one.pair
  BY <1>1, FirstSources
<1>3. phase = "consume" /\ ~ one.missing /\ ~ two.missing
  BY <1>1 DEF IsReady, IsMissing
<1> HIDE DEF rest, one, two
<1>4. current'["original"] = one /\ current'["modified"] = two /\ DOMAIN current' = Both
  BY <1>1 DEF Both
<1>5. \A side \in Both : current[side] = Nothing
  BY <1>3 DEF IInv, CurrentSound
<1>6. \A s \in ToSet(sources) : \E g \in ToSet(given) : IsOf(s, g)
  BY DEF IInv, SourcesSound
<1>7. SourcesSound'
  BY <1>1, <1>2, <1>6 DEF SourcesSound
<1>8. IsCurrentPair'
  <2>1. \A s \in ToSet(sources') : s.pair # one.pair /\ s.pair # two.pair
    BY <1>1, <1>2
  <2>2. \A side \in Both : current'[side] \in ToSet(sources)
    BY <1>2, <1>4 DEF Both
  <2> QED BY <1>1, <1>2, <1>3, <1>4, <1>6, <2>1, <2>2 DEF IsCurrentPair, Both
<1>9. CurrentSound'
  BY <1>1, <1>4, <1>8 DEF CurrentSound
<1>10. \A t : t \in Held' <=> t \in ToSet(sources)
  <2>1. \A t : t \in Held' <=> t \in ToSet(rest) \/ t = one \/ t = two
    BY <1>1, <1>4 DEF Held, Both
  <2> QED BY <2>1, <1>2
<1>11. \A t : t \in Held <=> t \in ToSet(sources) \/ t = Nothing
  BY <1>5 DEF Held, Both
<1>12. ASSUME NEW g \in ToSet(given), g.kind # "single", ~ IsLost(g)
       PROVE  InStep(g, Held', reported)
  <2>1. InStep(g, Held, reported)
    BY <1>12 DEF IInv, AllInStep
  <2>2. Nothing.cache = <<>>
    BY DEF Nothing, Source
  <2> QED BY <2>1, <2>2, <1>10, <1>11, InStepKept
<1>13. AllInStep'
  <2>1. \A g \in ToSet(given) : IsLost(g)' <=> IsLost(g)
    BY <1>1 DEF IsLost
  <2> QED BY <1>1, <1>12, <2>1 DEF IInv, AllInStep
<1>14. OnlyGiven'
  BY <1>1 DEF OnlyGiven
<1> QED BY <1>1, <1>7, <1>9, <1>13, <1>14 DEF IInv

\* A pair with a missing source is dropped, of which nothing was reported.
LEMMA ConsumeMissingKeeps ==
  ASSUME IInv, ConsumeMissing
  PROVE  IInv'
<1> DEFINE rest == BehindPair(sources)
           one == sources[1]
           two == sources[2]
<1>1. /\ IsReady /\ ~ IsSingle /\ IsMissing
      /\ sources' = rest /\ phase' = phase /\ given' = given /\ reported' = reported /\ current' = current
  BY DEF ConsumeMissing, BehindPair
<1>2. /\ one \in ToSet(sources) /\ two \in ToSet(sources)
      /\ one.side = "original" /\ two.side = "modified" /\ one.kind # "single"
      /\ two.kind # "single" /\ two.pair = one.pair
      /\ IsRow(rest) /\ IsPaired(rest)
      /\ ToSet(sources) = ToSet(rest) \cup {one, two}
      /\ \A s \in ToSet(rest) : s.pair # one.pair
  BY <1>1, FirstSources
<1>3. phase = "consume" /\ (one.missing \/ two.missing)
  BY <1>1 DEF IsReady, IsMissing
<1> HIDE DEF rest, one, two
<1>4. \A s \in ToSet(sources) : \E g \in ToSet(given) : IsOf(s, g)
  BY DEF IInv, SourcesSound
<1>5. SourcesSound'
  BY <1>1, <1>2, <1>4 DEF SourcesSound
<1>6. CurrentSound'
  BY <1>1, <1>3 DEF IInv, CurrentSound
<1>7. \A g \in ToSet(given) : g.pair = one.pair => IsLost(g)
  <2>1. PICK lost \in ToSet(sources) : lost.pair = one.pair /\ lost.missing
    BY <1>2, <1>3
  <2>2. PICK h \in ToSet(given) :
          /\ IsSource(h) /\ IsOf(lost, h)
          /\ lost.side \in Both /\ lost.pair = h.pair /\ lost.side = h.side /\ lost.kind = h.kind
          /\ lost.missing = h.missing
    BY SourceOfGiven
  <2> QED BY <2>1, <2>2 DEF IsLost
<1>8. \A t : t \in Held' => t \in Held
  BY <1>1, <1>2 DEF Held
<1>9. \A t : t \in Held => t \in Held' \/ t = one \/ t = two
  BY <1>1, <1>2 DEF Held
<1>10. ASSUME NEW g \in ToSet(given), g.kind # "single", ~ IsLost(g)
       PROVE  InStep(g, Held', reported)
  <2>1. InStep(g, Held, reported)
    BY <1>10 DEF IInv, AllInStep
  <2>2. ~ Matches(one, g) /\ ~ Matches(two, g)
    BY <1>2, <1>7, <1>10 DEF Matches
  <2> QED BY <2>1, <2>2, <1>8, <1>9, InStepKept
<1>11. AllInStep'
  <2>1. \A g \in ToSet(given) : IsLost(g)' <=> IsLost(g)
    BY <1>1 DEF IsLost
  <2> QED BY <1>1, <1>10, <2>1 DEF IInv, AllInStep
<1>12. OnlyGiven'
  BY <1>1, <1>3 DEF OnlyGiven
<1> QED BY <1>1, <1>5, <1>6, <1>11, <1>12 DEF IInv

\* What is reported of a single source is of no version.
LEMMA ConsumeSingleKeeps ==
  ASSUME IInv, ConsumeSingle
  PROVE  IInv'
<1> DEFINE rest == Tail(sources)
           one == sources[1]
           r == [pair |-> one.pair, kind |-> "view", original |-> <<>>, modified |-> Absent]
<1>1. /\ IsReady /\ one.kind = "single"
      /\ sources' = rest /\ phase' = phase /\ given' = given /\ current' = current
      /\ reported' = reported \/ reported' = Append(reported, r)
  BY DEF ConsumeSingle, IsSingle
<1>2. sources # <<>> /\ one \in ToSet(sources)
  BY <1>1, FirstSources
<1>3. IsRow(rest) /\ IsPaired(rest) /\ ToSet(sources) = ToSet(rest) \cup {one}
  <2>1. IsRow(sources) /\ IsPaired(sources) /\ sources # <<>> /\ sources[1].kind = "single" /\ rest = Tail(sources)
    BY <1>1, <1>2 DEF IInv, SourcesSound
  <2>2. IsRow(rest) /\ IsPaired(rest) /\ ToSet(sources) = ToSet(rest) \cup {sources[1]}
    <3> HIDE DEF rest
    <3> QED BY ONLY <2>1, DropSingle
  <2> QED BY <2>2
<1>4. phase = "consume"
  BY <1>1 DEF IsReady
<1>5. PICK h \in ToSet(given) :
        /\ IsSource(h) /\ IsOf(one, h)
        /\ one.side \in Both /\ one.pair = h.pair /\ one.side = h.side /\ one.kind = h.kind
        /\ one.missing = h.missing
  BY <1>2, SourceOfGiven
<1>6. r \in Items
  <2>1. one.pair \in Nat
    BY <1>5 DEF IsSource
  <2>2. <<>> \in Seq(Nat) /\ Absent \in Seq(Nat)
    BY DEF Absent
  <2>3. \A pair \in Nat, kind \in Kinds, a, b \in Seq(Nat) :
          [pair |-> pair, kind |-> kind, original |-> a, modified |-> b] \in Items
    BY DEF Items
  <2>4. "view" \in Kinds
    BY DEF Kinds
  <2> HIDE DEF one
  <2> QED BY <2>1, <2>2, <2>3, <2>4
<1>7. r.pair = one.pair
  OBVIOUS
<1> HIDE DEF rest, one, r
<1>8. \A s \in ToSet(sources) : \E g \in ToSet(given) : IsOf(s, g)
  BY DEF IInv, SourcesSound
<1>9. SourcesSound'
  BY <1>1, <1>3, <1>8 DEF SourcesSound
<1>10. CurrentSound'
  BY <1>1, <1>4 DEF IInv, CurrentSound
<1>11. \A g \in ToSet(given) : g.kind # "single" => g.pair # one.pair
  BY <1>1, <1>5, SinglePair DEF IInv
<1>12. \A t : t \in Held' => t \in Held
  BY <1>1, <1>3 DEF Held
<1>13. \A t : t \in Held => t \in Held' \/ t = one
  BY <1>1, <1>3 DEF Held
<1>14. reported \in Seq(Items)
  BY DEF IInv
<1>15. reported' \in Seq(Items)
  <2>1. Append(reported, r) \in Seq(Items)
    BY <1>6, <1>14, AppendProperties
  <2> QED BY <2>1, <1>1, <1>14
<1>16. ASSUME NEW g \in ToSet(given), g.kind # "single", ~ IsLost(g)
       PROVE  InStep(g, Held', reported')
  <2>1. InStep(g, Held, reported)
    BY <1>16 DEF IInv, AllInStep
  <2>2. ~ Matches(one, g) /\ r.pair # g.pair
    BY <1>7, <1>11, <1>16 DEF Matches
  <2>3. InStep(g, Held', reported) /\ InStep(g, Held', Append(reported, r))
    BY <2>1, <2>2, <1>6, <1>12, <1>13, <1>14, InStepOther
  <2> QED BY <2>3, <1>1
<1>17. ASSUME NEW g \in ToSet(given), g.kind # "single", IsLost(g)
       PROVE  Takes(reported', g) = {}
  <2>1. Takes(reported, g) = {}
    BY <1>17 DEF IInv, AllInStep
  <2>2. r.pair # g.pair
    BY <1>7, <1>11, <1>17
  <2>3. PICK more : /\ more = Append(reported, r)
                    /\ DOMAIN more = DOMAIN reported \cup {Len(reported) + 1}
                    /\ Len(reported) + 1 \notin DOMAIN reported
                    /\ \A n \in DOMAIN reported : more[n] = reported[n]
                    /\ more[Len(reported) + 1] = r
    BY ONLY <1>6, <1>14, AppendedItem
  <2>4. Takes(more, g) = {}
    BY <2>1, <2>2, <2>3 DEF Takes
  <2> QED BY <2>1, <2>3, <2>4, <1>1
<1>18. AllInStep'
  <2>1. \A g \in ToSet(given) : IsLost(g)' <=> IsLost(g)
    BY <1>1 DEF IsLost
  <2> QED BY <1>1, <1>16, <1>17, <2>1 DEF AllInStep
<1>19. OnlyGiven'
  BY <1>1, <1>4 DEF OnlyGiven
<1> QED BY <1>1, <1>9, <1>10, <1>15, <1>18, <1>19 DEF IInv

\* Both sources have nothing more to come.
LEMMA NoFileKeeps ==
  ASSUME IInv, NoFile
  PROVE  IInv'
<1>1. /\ phase = "process" /\ \A side \in Both : current[side].cache = <<>>
      /\ sources' = sources /\ phase' = "consume" /\ given' = given /\ reported' = reported
      /\ current' = [side \in Both |-> Nothing]
  BY DEF NoFile, HasEntry
<1>2. SourcesSound'
  BY <1>1 DEF IInv, SourcesSound
<1>3. CurrentSound'
  BY <1>1 DEF CurrentSound
<1>4. \A t : t \in Held' => t \in ToSet(sources) \/ t = Nothing
  BY <1>1 DEF Held
<1>5. \A t : t \in Held => t \in ToSet(sources) \/ t.cache = <<>>
  BY <1>1 DEF Held
<1>6. \A t \in ToSet(sources) : t \in Held /\ t \in Held'
  BY <1>1 DEF Held
<1>7. ASSUME NEW g \in ToSet(given), g.kind # "single", ~ IsLost(g)
      PROVE  InStep(g, Held', reported)
  <2>1. InStep(g, Held, reported)
    BY <1>7 DEF IInv, AllInStep
  <2>2. ~ Matches(Nothing, g)
    BY NothingFits DEF IInv, IsList
  <2> QED BY <2>1, <2>2, <1>4, <1>5, <1>6, InStepKept
<1>8. AllInStep'
  <2>1. \A g \in ToSet(given) : IsLost(g)' <=> IsLost(g)
    BY <1>1 DEF IsLost
  <2> QED BY <1>1, <1>7, <2>1 DEF IInv, AllInStep
<1>9. OnlyGiven'
  BY <1>1 DEF OnlyGiven
<1> QED BY <1>1, <1>2, <1>3, <1>8, <1>9 DEF IInv

\* The two sources, after the next entries of some of them.
LEMMA AdvancedOfGiven ==
  ASSUME IInv, phase = "process", NEW taken, taken \subseteq Both, NEW side \in Both
  PROVE  /\ \E g \in ToSet(given) : IsOf(Advanced(taken)[side], g)
         /\ Advanced(taken)[side].side = side
         /\ Advanced(taken)[side].kind # "single" /\ ~ Advanced(taken)[side].missing
         /\ Advanced(taken)[side].pair = current["original"].pair
         /\ \A s \in ToSet(sources) : s.pair # current["original"].pair
<1> DEFINE after == Advanced(taken)[side]
<1>1. IsCurrentPair
  BY DEF IInv, CurrentSound
<1>2. /\ current[side].side = side /\ current[side].kind # "single" /\ ~ current[side].missing
      /\ current[side].pair = current["original"].pair
      /\ \A s \in ToSet(sources) : s.pair # current["original"].pair
  BY <1>1 DEF IsCurrentPair, Both
<1>3. PICK g \in ToSet(given) :
           /\ IsSource(g) /\ IsOf(current[side], g)
           /\ g.side = side /\ g.pair = current["original"].pair /\ g.kind # "single" /\ ~ IsLost(g)
           /\ InStep(g, Held, reported) /\ IsStack(g.version, current[side].cache)
  BY CurrentOne
<1>4. ~ g.missing
  BY <1>2, <1>3, OfGiven
<1>5. after = NextEntry(current[side]) \/ after = current[side]
  BY DEF Advanced
<1> HIDE DEF after
<1>6. IsOf(after, g)
  BY <1>3, <1>5, NextOfGiven
<1>7. after.side = g.side /\ after.kind = g.kind /\ after.missing = g.missing /\ after.pair = g.pair
  BY <1>3, <1>6, OfGiven
<1>8. \E h \in ToSet(given) : IsOf(after, h)
  BY <1>6
<1> QED BY <1>2, <1>3, <1>4, <1>7, <1>8 DEF after

\* A directory is reported, and its entries take its place.
LEMMA ProcessDirectoryKeeps ==
  ASSUME IInv, ProcessDirectory
  PROVE  IInv'
<1> DEFINE taken == DirectorySides
           r == [pair |-> current["original"].pair, kind |-> "directory",
                 original |-> IF "original" \in taken THEN Path("original") ELSE Absent,
                 modified |-> IF "modified" \in taken THEN Path("modified") ELSE Absent]
<1>1. /\ phase = "process" /\ current' = Advanced(taken) /\ reported' = Append(reported, r)
      /\ sources' = sources /\ phase' = phase /\ given' = given
  BY DEF ProcessDirectory, Report
<1>2. taken \subseteq Both /\ \A side \in taken : HasEntry(current[side])
  BY DEF DirectorySides, IsDirectory
<1>3. r = [pair |-> current["original"].pair, kind |-> "directory",
           original |-> IF "original" \in taken THEN Path("original") ELSE Absent,
           modified |-> IF "modified" \in taken THEN Path("modified") ELSE Absent]
  OBVIOUS
<1> HIDE DEF taken, r
<1>4. /\ \A t \in Held' : t \in ToSet(sources) \/ t = Nothing \/ \E side \in Both : t = Advanced(taken)[side]
      /\ ToSet(sources) \subseteq Held'
      /\ \A side \in Both : Advanced(taken)[side] \in Held' \/ Advanced(taken)[side].cache = <<>>
  BY <1>1 DEF Held
<1>5. "directory" \in Kinds
  BY DEF Kinds
<1>6. /\ r \in Items
      /\ \A g \in ToSet(given) : g.kind # "single" =>
           IF IsLost(g) THEN Takes(Append(reported, r), g) = {} ELSE InStep(g, Held', Append(reported, r))
  <2> DEFINE then == Held'
  <2>1. /\ \A t \in then : t \in ToSet(sources) \/ t = Nothing \/ \E side \in Both : t = Advanced(taken)[side]
        /\ ToSet(sources) \subseteq then
        /\ \A side \in Both : Advanced(taken)[side] \in then \/ Advanced(taken)[side].cache = <<>>
    BY <1>4
  <2> HIDE DEF then
  <2>2. /\ r \in Items
        /\ \A g \in ToSet(given) : g.kind # "single" =>
             IF IsLost(g) THEN Takes(Append(reported, r), g) = {} ELSE InStep(g, then, Append(reported, r))
    BY <1>1, <1>2, <1>3, <1>5, <2>1, TakeStep
  <2> QED BY <2>2 DEF then
<1>7. AllInStep'
  <2>1. \A g \in ToSet(given) : IsLost(g)' <=> IsLost(g)
    BY <1>1 DEF IsLost
  <2> QED BY <1>1, <1>6, <2>1 DEF AllInStep
<1>8. reported' \in Seq(Items)
  <2>1. reported \in Seq(Items) /\ r \in Items
    BY <1>6 DEF IInv
  <2>2. Append(reported, r) \in Seq(Items)
    BY ONLY <2>1, AppendProperties
  <2> QED BY <1>1, <2>2
<1>9. SourcesSound'
  BY <1>1 DEF IInv, SourcesSound
<1>10. \A side \in Both :
         /\ \E g \in ToSet(given) : IsOf(current'[side], g)
         /\ current'[side].side = side
         /\ current'[side].kind # "single" /\ ~ current'[side].missing
         /\ current'[side].pair = current["original"].pair
         /\ \A s \in ToSet(sources) : s.pair # current["original"].pair
  BY <1>1, <1>2, AdvancedOfGiven
<1>11. CurrentSound'
  <2>1. current' = [side \in Both |-> current'[side]]
    BY <1>1 DEF Advanced
  <2>2. "original" \in Both /\ "modified" \in Both
    BY DEF Both
  <2>3. IsCurrentPair'
    BY <1>1, <1>10, <2>2 DEF IsCurrentPair
  <2> QED BY <1>1, <2>1, <2>3 DEF CurrentSound
<1>12. OnlyGiven'
  BY <1>1 DEF OnlyGiven
<1> QED BY <1>1, <1>7, <1>8, <1>9, <1>11, <1>12 DEF IInv

\* A file is reported, and the pair goes back if anything is to come.
LEMMA ProcessFileKeeps ==
  ASSUME IInv, ProcessFile
  PROVE  IInv'
<1> DEFINE taken == FileSides
           kind == IF Language THEN "compared" ELSE "skipped"
           r == [pair |-> current["original"].pair, kind |-> kind,
                 original |-> IF "original" \in taken THEN Path("original") ELSE Absent,
                 modified |-> IF "modified" \in taken THEN Path("modified") ELSE Absent]
           next == Advanced(taken)
           one == next["original"]
           two == next["modified"]
           more == <<one, two>> \o sources
<1>1. /\ phase = "process" /\ current' = [side \in Both |-> Nothing] /\ reported' = Append(reported, r)
      /\ sources' = IF \E side \in Both : HasEntry(next[side]) THEN more ELSE sources
      /\ phase' = "consume" /\ given' = given
  BY DEF ProcessFile, Report
<1>2. taken \subseteq Both /\ \A side \in taken : HasEntry(current[side])
  BY DEF FileSides
<1>3. r = [pair |-> current["original"].pair, kind |-> kind,
           original |-> IF "original" \in taken THEN Path("original") ELSE Absent,
           modified |-> IF "modified" \in taken THEN Path("modified") ELSE Absent]
  OBVIOUS
<1>4. kind \in Kinds
  BY DEF Kinds
<1>5. \A side \in Both :
         /\ \E g \in ToSet(given) : IsOf(next[side], g)
         /\ next[side].side = side
         /\ next[side].kind # "single" /\ ~ next[side].missing
         /\ next[side].pair = current["original"].pair
         /\ \A s \in ToSet(sources) : s.pair # current["original"].pair
  BY <1>1, <1>2, AdvancedOfGiven
<1>6. "original" \in Both /\ "modified" \in Both /\ \A side \in Both : side = "original" \/ side = "modified"
  BY DEF Both
<1>7. \A side \in Both : next[side] = one \/ next[side] = two
  BY <1>6
<1>8. IsRow(sources) /\ IsPaired(sources)
  BY DEF IInv, SourcesSound
<1> HIDE DEF taken, r, kind, next
<1>9. IsRow(more) /\ IsPaired(more) /\ ToSet(more) = ToSet(sources) \cup {one, two}
  <2>1. /\ one.kind # "single" /\ two.kind # "single" /\ one.side = "original" /\ two.side = "modified"
        /\ two.pair = one.pair /\ \A s \in ToSet(sources) : s.pair # one.pair
    BY <1>5, <1>6
  <2>2. more = InFront(one, two, sources)
    BY DEF InFront
  <2> HIDE DEF more, one, two
  <2> QED BY ONLY <1>8, <2>1, <2>2, PutBack
<1> HIDE DEF more
<1>10. SourcesSound'
  <2>1. \A s \in ToSet(sources) : \E g \in ToSet(given) : IsOf(s, g)
    BY DEF IInv, SourcesSound
  <2>2. \E g \in ToSet(given) : IsOf(one, g)
    BY <1>5, <1>6
  <2>3. \E g \in ToSet(given) : IsOf(two, g)
    BY <1>5, <1>6
  <2> HIDE DEF one, two
  <2>4. sources' = more \/ sources' = sources
    BY <1>1
  <2>5. IsRow(sources') /\ IsPaired(sources')
    BY <1>8, <1>9, <2>4
  <2>6. \A s \in ToSet(sources') : s \in ToSet(sources) \/ s = one \/ s = two
    BY <1>9, <2>4
  <2> QED BY <1>1, <2>1, <2>2, <2>3, <2>5, <2>6 DEF SourcesSound
<1>11. /\ \A t \in Held' : t \in ToSet(sources) \/ t = Nothing \/ \E side \in Both : t = next[side]
       /\ ToSet(sources) \subseteq Held'
       /\ \A side \in Both : next[side] \in Held' \/ next[side].cache = <<>>
  <2>1. CASE \E side \in Both : HasEntry(next[side])
    <3>1. sources' = more
      BY <1>1, <2>1
    <3>2. \A t \in Held' : t \in ToSet(sources) \/ t = one \/ t = two \/ t = Nothing
      BY <1>1, <1>9, <3>1 DEF Held
    <3>3. \A t \in ToSet(sources) : t \in Held'
      BY <1>9, <3>1 DEF Held
    <3>4. \A side \in Both : next[side] \in Held'
      BY <1>7, <1>9, <3>1 DEF Held
    <3> QED BY <3>2, <3>3, <3>4, <1>6
  <2>2. CASE ~ \E side \in Both : HasEntry(next[side])
    <3>1. sources' = sources /\ \A side \in Both : next[side].cache = <<>>
      BY <1>1, <2>2 DEF HasEntry
    <3> QED BY <3>1, <1>1 DEF Held
  <2> QED BY <2>1, <2>2
<1>12. /\ r \in Items
       /\ \A g \in ToSet(given) : g.kind # "single" =>
            IF IsLost(g) THEN Takes(Append(reported, r), g) = {} ELSE InStep(g, Held', Append(reported, r))
  <2> DEFINE then == Held'
  <2>1. /\ \A t \in then : t \in ToSet(sources) \/ t = Nothing \/ \E side \in Both : t = Advanced(taken)[side]
        /\ ToSet(sources) \subseteq then
        /\ \A side \in Both : Advanced(taken)[side] \in then \/ Advanced(taken)[side].cache = <<>>
    BY <1>11 DEF next
  <2> HIDE DEF then
  <2>2. /\ r \in Items
        /\ \A g \in ToSet(given) : g.kind # "single" =>
             IF IsLost(g) THEN Takes(Append(reported, r), g) = {} ELSE InStep(g, then, Append(reported, r))
    BY <1>1, <1>2, <1>3, <1>4, <2>1, TakeStep
  <2> QED BY <2>2 DEF then
<1>13. AllInStep'
  <2>1. \A g \in ToSet(given) : IsLost(g)' <=> IsLost(g)
    BY <1>1 DEF IsLost
  <2> QED BY <1>1, <1>12, <2>1 DEF AllInStep
<1>14. reported' \in Seq(Items)
  <2>1. reported \in Seq(Items) /\ r \in Items
    BY <1>12 DEF IInv
  <2>2. Append(reported, r) \in Seq(Items)
    BY ONLY <2>1, AppendProperties
  <2> QED BY <1>1, <2>2
<1>15. CurrentSound'
  BY <1>1 DEF CurrentSound
<1>16. OnlyGiven'
  BY <1>1 DEF OnlyGiven
<1> QED BY <1>1, <1>10, <1>13, <1>14, <1>15, <1>16 DEF IInv

\* A step in which only the phase may change, before anything is consumed.
LEMMA PhaseKeeps ==
  ASSUME IInv, sources' = sources, current' = current, given' = given, reported' = reported,
         phase' = "process" <=> phase = "process",
         phase' \in {"read", "look"} => phase \in {"read", "look"}
  PROVE  IInv'
<1>1. Held' = Held
  BY DEF Held
<1>2. AllInStep'
  <2>1. \A g \in ToSet(given) : IsLost(g)' <=> IsLost(g)
    BY DEF IsLost
  <2> QED BY <1>1, <2>1 DEF IInv, AllInStep
<1>3. SourcesSound' /\ CurrentSound' /\ OnlyGiven'
  BY DEF IInv, SourcesSound, CurrentSound, IsCurrentPair, OnlyGiven
<1> QED BY <1>2, <1>3 DEF IInv

\* The invariant is inductive.
LEMMA NextKeeps ==
  ASSUME IInv, [Next]_vars
  PROVE  IInv'
<1>1. CASE Next
  BY <1>1, ConsumeKeeps, ConsumeSingleKeeps, ConsumeMissingKeeps, ProcessDirectoryKeeps, ProcessFileKeeps,
     NoFileKeeps DEF Next
<1>2. CASE UNCHANGED vars
  BY <1>2, PhaseKeeps DEF vars
<1> QED BY <1>1, <1>2

\* A list of which nothing is consumed.
LEMMA GivenSound ==
  ASSUME IsList(given), sources = given, reported = <<>>, current = [side \in Both |-> Nothing],
         phase # "process", OnlyGiven
  PROVE  IInv
<1>1. SourcesSound
  <2>1. IsRow(sources) /\ IsPaired(sources)
    BY DEF IsList, IsRow
  <2>2. \A g \in ToSet(given) : IsOf(g, g)
    BY GivenOfItself DEF IsList
  <2> QED BY <2>1, <2>2 DEF SourcesSound
<1>2. CurrentSound
  BY DEF CurrentSound
<1>3. \A g : Takes(reported, g) = {}
  BY DEF Takes
<1>4. \A s \in Held : s \in ToSet(given) \/ s = Nothing
  BY DEF Held
<1>5. \A s \in ToSet(given) : s \in Held
  BY DEF Held
<1>6. ASSUME NEW g \in ToSet(given), g.kind # "single", ~ IsLost(g)
      PROVE  InStep(g, Held, reported)
  <2>1. ~ IsLostOf(given, g)
    BY <1>6 DEF IsLost, IsLostOf
  <2> QED BY <1>4, <1>5, <1>6, <2>1, InStepFirst
<1>7. AllInStep
  BY <1>3, <1>6 DEF AllInStep
<1>8. reported \in Seq(Items)
  OBVIOUS
<1> QED BY <1>1, <1>2, <1>7, <1>8 DEF IInv

\* What the invariant says of what was reported, and of what is to come.
LEMMA InvariantMeans == IInv => EachOnce
<1> SUFFICES ASSUME IInv, NEW g \in ToSet(given), g.kind # "single"
             PROVE  /\ \A m, n \in Taken(g) : reported[m][g.side] = reported[n][g.side] => m = n
                    /\ Seen(g) \cap ToCome(g) \cap Entries(g) = {}
                    /\ IF IsLost(g) THEN Seen(g) = {}
                       ELSE Seen(g) \cup (ToCome(g) \cap Entries(g)) = Entries(g)
  BY DEF EachOnce
<1>1. Taken(g) = Takes(reported, g)
  BY DEF Taken, Takes
<1>2. Entries(g) = Shown(g.version)
  BY DEF Entries, Shown
<1>3. CASE IsLost(g)
  <2>1. Takes(reported, g) = {}
    BY <1>3 DEF IInv, AllInStep
  <2>2. Seen(g) = {}
    BY <1>1, <2>1 DEF Seen
  <2> QED BY <1>1, <1>3, <2>1, <2>2
<1>4. CASE ~ IsLost(g)
  <2>1. InStep(g, Held, reported)
    BY <1>4 DEF IInv, AllInStep
  <2>2. \A p : p \in Seen(g) <=> \E n \in Takes(reported, g) : reported[n][g.side] = p
    BY <1>1 DEF Seen
  <2>3. \A p \in Entries(g) : p \in ToCome(g) <=> \E s \in Held : Matches(s, g) /\ IsCovered(s.cache, p)
    BY DEF Entries, ToCome, Held, Matches, IsCovered
  <2>4. \A m, n \in Taken(g) : reported[m][g.side] = reported[n][g.side] => m = n
    BY <1>1, <2>1 DEF InStep
  <2>5. \A p \in Seen(g) : p \in Entries(g)
    BY <1>2, <2>1, <2>2 DEF InStep
  <2>6. \A p \in Entries(g) : p \in Seen(g) <=> p \notin ToCome(g)
    BY <1>2, <2>1, <2>2, <2>3 DEF InStep
  <2> QED BY <1>4, <2>4, <2>5, <2>6
<1> QED BY <1>3, <1>4

\* All lists of sources are as they should be.
LEMMA InitSound == Init => IInv
<1> SUFFICES ASSUME Init
             PROVE  IInv
  OBVIOUS
<1>1. /\ IsList(given) /\ sources = given /\ reported = <<>> /\ current = [side \in Both |-> Nothing]
      /\ phase = "consume"
  BY InputsAssumption DEF Init
<1>2. OnlyGiven
  BY <1>1 DEF OnlyGiven
<1> QED BY <1>1, <1>2, GivenSound

\* Whatever the trees and however the walks of two of them are merged, each entry that is
\* not the output file is taken exactly once, or is still to come; of a pair with a missing
\* source nothing is.  (input_source_local.cpp:92-122; input_source_manager.cpp:104-257)
THEOREM EntriesOnce == Spec => []EachOnce
<1>1. IInv /\ [Next]_vars => IInv'
  BY NextKeeps
<1> QED BY <1>1, InitSound, InvariantMeans, PTL DEF Spec

(***************************************************************************)
(* Files of two directories that were entered together                     *)
(***************************************************************************)
\* A file is on a stack, and above it are only files that precede it.
OnTop(s, c) ==
  \E k \in DOMAIN s.cache :
    /\ s.cache[k] = c
    /\ \A n \in DOMAIN s.cache : k < n => s.version[s.cache[n]] = "file" /\ Precedes(s.cache[n], c)

\* Two versions have a file in a directory that was entered in both.
IsShared(d, g, h, c) ==
  /\ d.kind = "directory" /\ d.original = d.modified /\ d.pair = g.pair
  /\ h.pair = g.pair /\ g.side = "original" /\ h.side = "modified"
  /\ c \in DOMAIN g.version /\ g.version[c] = "file"
  /\ c \in DOMAIN h.version /\ h.version[c] = "file"
  /\ c # <<>> /\ Front(c) = d.original

IsMet(rep, pair, c) == \E n \in DOMAIN rep : rep[n].pair = pair /\ rep[n].original = c /\ rep[n].modified = c

IsPending(held, rep, pair, c) ==
  /\ \A n \in DOMAIN rep : rep[n].pair = pair => rep[n].original # c /\ rep[n].modified # c
  /\ \A s \in held : s.pair = pair => OnTop(s, c)

\* Such a file has met its namesake, or can only be taken with it.
Meets ==
  \A i \in DOMAIN reported : \A g, h \in ToSet(given) : \A c \in DOMAIN g.version :
    IsShared(reported[i], g, h, c) =>
      IsMet(reported, g.pair, c) \/ IsPending(Held, reported, g.pair, c)

\* The top of a stack with such a file on it.
LEMMA TopOnTop ==
  ASSUME NEW g, IsSource(g), NEW s, IsOf(s, g), IsStack(g.version, s.cache), NEW c, OnTop(s, c), s.version[c] = "file"
  PROVE  /\ HasEntry(s) /\ ~ IsDirectory(s)
         /\ Entry(s) = c \/ Precedes(Entry(s), c)
         /\ Entry(s) # c => OnTop(NextEntry(s), c)
<1> DEFINE cache == s.cache
           N == Len(cache)
<1>1. cache \in Seq(Shown(g.version)) /\ N \in Nat /\ DOMAIN cache = 1 .. N
  BY DEF IsStack
<1>2. PICK k \in 1 .. N :
        /\ cache[k] = c
        /\ \A n \in 1 .. N : k < n => s.version[cache[n]] = "file" /\ Precedes(cache[n], c)
  BY <1>1 DEF OnTop
<1>3. N \in 1 .. N /\ N > 0 /\ cache # <<>>
  BY <1>1, <1>2
<1>4. HasEntry(s) /\ Entry(s) = cache[N]
  BY <1>3 DEF HasEntry, Entry, Last
<1>5. s.version[cache[N]] = "file" /\ (cache[N] = c \/ Precedes(cache[N], c))
  BY <1>1, <1>2, <1>3
<1>6. ~ IsDirectory(s)
  BY <1>4, <1>5 DEF IsDirectory
<1>7. ASSUME Entry(s) # c PROVE OnTop(NextEntry(s), c)
  <2>1. NextEntry(s) = [s EXCEPT !.cache = Front(cache)]
    BY <1>4, <1>6 DEF NextEntry
  <2>2. Front(cache) = SubSeq(cache, 1, N - 1)
    BY DEF Front
  <2>3. NextEntry(s).cache = SubSeq(cache, 1, N - 1) /\ NextEntry(s).version = s.version
    BY <2>1, <2>2, OfGiven
  <2> DEFINE front == SubSeq(cache, 1, N - 1)
  <2>4. DOMAIN front = 1 .. N - 1 /\ \A n \in 1 .. N - 1 : front[n] = cache[n]
    BY <1>1, <1>3
  <2> HIDE DEF front
  <2>5. k \in 1 .. N - 1
    BY <1>1, <1>2, <1>4, <1>7
  <2>6. front[k] = c /\ \A n \in 1 .. N - 1 : k < n => s.version[front[n]] = "file" /\ Precedes(front[n], c)
    BY <1>1, <1>2, <2>4, <2>5
  <2> DEFINE t == NextEntry(s)
  <2>7. t.cache = front /\ t.version = s.version
    BY <2>3 DEF front
  <2> HIDE DEF t
  <2>8. k \in DOMAIN t.cache /\ t.cache[k] = c
    BY <2>4, <2>5, <2>6, <2>7
  <2>9. \A n \in DOMAIN t.cache : k < n => t.version[t.cache[n]] = "file" /\ Precedes(t.cache[n], c)
    BY <2>4, <2>6, <2>7
  <2>10. OnTop(t, c)
    BY ONLY <2>8, <2>9 DEF OnTop
  <2> QED BY <2>10 DEF t
<1> QED BY <1>4, <1>5, <1>6, <1>7

\* A row without its last element.
LEMMA RowWithoutLast ==
  ASSUME NEW S, NEW row \in Seq(S), row # <<>>
  PROVE  /\ Len(row) \in Nat /\ Len(row) >= 1
         /\ Len(SubSeq(row, 1, Len(row) - 1)) = Len(row) - 1
         /\ \A i \in 1 .. Len(row) - 1 : SubSeq(row, 1, Len(row) - 1)[i] = row[i]
<1> DEFINE n == Len(row) - 1
<1>1. Len(row) \in Nat /\ Len(row) >= 1 /\ n \in Nat /\ n < Len(row) /\ n = Len(row) - 1
  OBVIOUS
<1> HIDE DEF n
<1>2. Len(SubSeq(row, 1, n)) = n /\ \A i \in 1 .. n : SubSeq(row, 1, n)[i] = row[i]
  BY <1>1
<1> QED BY <1>1, <1>2

\* The directory of an entry.
LEMMA FrontIsPrefix ==
  ASSUME NEW c \in Paths, c # <<>>
  PROVE  /\ Front(c) \in Paths /\ Len(c) = Len(Front(c)) + 1
         /\ IsPrefix(Front(c), c) /\ Front(c) # c
<1> DEFINE d == Front(c)
           e == SubSeq(c, 1, Len(c) - 1)
<1>1. c \in Seq(Nat \ {0}) /\ c # <<>> /\ Len(c) \in Nat
  BY DEF Paths
<1>2. Len(c) >= 1
  BY ONLY <1>1
<1>3. Len(e) = Len(c) - 1 /\ \A i \in 1 .. Len(c) - 1 : e[i] = c[i]
  BY <1>1, RowWithoutLast
<1>4. e \in Paths
  BY <1>1, <1>2 DEF Paths
<1>5. d = e
  BY DEF Front
<1> HIDE DEF d, e
<1>6. Len(c) = Len(d) + 1 /\ Len(d) = Len(c) - 1
  BY ONLY <1>1, <1>3, <1>5
<1>7. Len(d) <= Len(c) /\ \A i \in 1 .. Len(d) : d[i] = c[i]
  BY ONLY <1>1, <1>3, <1>5, <1>6
<1>8. IsPrefix(d, c) /\ d \in Paths
  BY <1>4, <1>5, <1>7, PrefixAt
<1>9. d # c
  BY <1>1, <1>6
<1> QED BY <1>6, <1>8, <1>9 DEF d

\* The files that were pushed last are on top.
LEMMA PushedOnTop ==
  ASSUME NEW g, IsSource(g), NEW s, IsOf(s, g), IsStack(g.version, s.cache), IsDirectory(s),
         NEW c \in DOMAIN g.version, g.version[c] = "file", c # <<>>, Front(c) = Entry(s)
  PROVE  OnTop(NextEntry(s), c)
<1> DEFINE v == g.version
           d == s.cache[Len(s.cache)]
           t == NextEntry(s)
           row == Expanded(v, d)
           front == SubSeq(s.cache, 1, Len(s.cache) - 1)
<1>1. HasEntry(s) /\ s.version = v
  BY OfGiven DEF IsDirectory
<1>2. IsOf(t, g) /\ Entry(s) = d /\ d \in Shown(v) /\ t.cache = front \o Follow(v, d)
  BY <1>1, NextOfGiven
<1>3. v[d] = "directory" /\ t.version = v
  BY <1>1, <1>2, OfGiven DEF IsDirectory
<1>4. t.cache = front \o row
  BY <1>2, <1>3 DEF Follow
<1>5. IsTree(v) /\ d \in DOMAIN v
  BY <1>2 DEF IsSource, Shown
<1>6. c \in Pushed(v, d)
  <2>1. c \in Paths /\ d \in Paths
    BY <1>5, TreePaths
  <2>2. Len(c) = Len(d) + 1 /\ IsPrefix(d, c)
    <3> HIDE DEF d
    <3> QED BY <2>1, <1>2, FrontIsPrefix
  <2> QED BY <2>2 DEF Pushed, Below
<1>7. /\ row \in Seq(Pushed(v, d))
      /\ \A m, n \in DOMAIN row : m < n => IsPushedBefore(v, row[m], row[n])
      /\ \E n \in DOMAIN row : row[n] = c
  BY <1>5, <1>6, ExpandedRow
<1> HIDE DEF t, row, v, d
<1>8. PICK k \in DOMAIN row : row[k] = c
  BY <1>7
<1>9. \A n \in DOMAIN row : k < n => v[row[n]] = "file" /\ Precedes(row[n], c)
  BY <1>7, <1>8 DEF IsPushedBefore, v
<1>10. front \in Seq(Shown(v)) /\ Len(front) \in Nat
  <2>1. s.cache \in Seq(Shown(v)) /\ s.cache # <<>>
    BY <1>1 DEF IsStack, HasEntry, v
  <2> QED BY <2>1
<1> HIDE DEF front
<1> DEFINE M == Len(front)
           N == Len(row)
<1>11. N \in Nat /\ DOMAIN row = 1 .. N /\ M \in Nat
  BY <1>7, <1>10
<1>12. /\ DOMAIN t.cache = 1 .. M + N
       /\ \A i \in 1 .. M + N : t.cache[i] = IF i <= M THEN front[i] ELSE row[i - M]
  <2> DEFINE S == Shown(v) \cup Pushed(v, d)
  <2>1. front \in Seq(S) /\ row \in Seq(S)
    BY <1>7, <1>10
  <2> HIDE DEF S
  <2> QED BY <1>4, <2>1, <1>11, ConcatProperties
<1> HIDE DEF M, N
<1>13. M + k \in 1 .. M + N /\ ~ M + k <= M /\ (M + k) - M = k
  BY <1>8, <1>11
<1>14. t.cache[M + k] = c
  BY <1>8, <1>12, <1>13
<1>15. ASSUME NEW n \in 1 .. M + N, M + k < n
       PROVE  t.version[t.cache[n]] = "file" /\ Precedes(t.cache[n], c)
  <2>1. n - M \in 1 .. N /\ k < n - M /\ ~ n <= M
    BY <1>8, <1>11, <1>15
  <2>2. t.cache[n] = row[n - M]
    BY <1>12, <2>1
  <2> QED BY <2>1, <2>2, <1>3, <1>9, <1>11
<1>16. OnTop(t, c)
  BY <1>12, <1>13, <1>14, <1>15 DEF OnTop
<1> QED BY <1>16 DEF t

\* The source in current for one that was given.
LEMMA CurrentOf ==
  ASSUME IInv, phase = "process", NEW side \in Both,
         NEW g \in ToSet(given), g.pair = current["original"].pair, g.side = side
  PROVE  /\ IsSource(g) /\ IsOf(current[side], g) /\ g.kind # "single"
         /\ InStep(g, Held, reported) /\ IsStack(g.version, current[side].cache)
         /\ current[side] \in Held /\ current[side].pair = g.pair /\ current[side].version = g.version
<1>1. PICK f \in ToSet(given) :
           /\ IsSource(f) /\ IsOf(current[side], f)
           /\ f.side = side /\ f.pair = current["original"].pair /\ f.kind # "single" /\ ~ IsLost(f)
           /\ InStep(f, Held, reported) /\ IsStack(f.version, current[side].cache)
  BY CurrentOne
<1>2. f = g
  BY <1>1, GivenOnce DEF IInv
<1>3. current[side] \in Held
  BY DEF Held
<1>4. current[side].pair = g.pair /\ current[side].version = g.version
  BY <1>1, <1>2, OfGiven
<1> QED BY <1>1, <1>2, <1>3, <1>4

\* While a shared file is to come, both sources are at files up to it.
LEMMA PendingFiles ==
  ASSUME IInv, phase = "process", NEW d, NEW g \in ToSet(given), NEW h \in ToSet(given), NEW c,
         IsShared(d, g, h, c), g.pair = current["original"].pair,
         IsPending(Held, reported, g.pair, c), NEW side \in Both
  PROVE  /\ HasEntry(current[side]) /\ ~ IsDirectory(current[side])
         /\ Path(side) = c \/ Precedes(Path(side), c)
         /\ OnTop(current[side], c)
         /\ Path(side) # c => OnTop(NextEntry(current[side]), c)
<1>1. PICK f \in ToSet(given) : f.pair = g.pair /\ f.side = side /\ f.version[c] = "file"
  BY DEF IsShared, Both
<1>2. /\ IsSource(f) /\ IsOf(current[side], f) /\ IsStack(f.version, current[side].cache)
      /\ current[side] \in Held /\ current[side].pair = f.pair /\ current[side].version = f.version
  BY <1>1, CurrentOf
<1>3. OnTop(current[side], c)
  BY <1>1, <1>2 DEF IsPending
<1>4. current[side].version[c] = "file"
  BY <1>1, <1>2
<1> QED BY <1>2, <1>3, <1>4, TopOnTop DEF Path

\* A report keeps what was said of the files that have met.
LEMMA MetKept ==
  ASSUME NEW rep \in Seq(Items), NEW r \in Items, NEW pair, NEW c, IsMet(rep, pair, c)
  PROVE  IsMet(Append(rep, r), pair, c)
<1>1. PICK more : /\ more = Append(rep, r)
                  /\ DOMAIN more = DOMAIN rep \cup {Len(rep) + 1}
                  /\ Len(rep) + 1 \notin DOMAIN rep
                  /\ \A n \in DOMAIN rep : more[n] = rep[n]
                  /\ more[Len(rep) + 1] = r
  BY AppendedItem
<1>2. IsMet(more, pair, c)
  BY <1>1 DEF IsMet
<1> QED BY <1>1, <1>2

\* And of the others, if it is of another pair or another file.
LEMMA PendingKept ==
  ASSUME NEW rep \in Seq(Items), NEW r \in Items, NEW pair, NEW c, NEW held, IsPending(held, rep, pair, c),
         NEW then, \A t \in then : t.pair = pair => OnTop(t, c),
         r.pair = pair => r.original # c /\ r.modified # c
  PROVE  IsPending(then, Append(rep, r), pair, c)
<1>1. PICK more : /\ more = Append(rep, r)
                  /\ DOMAIN more = DOMAIN rep \cup {Len(rep) + 1}
                  /\ Len(rep) + 1 \notin DOMAIN rep
                  /\ \A n \in DOMAIN rep : more[n] = rep[n]
                  /\ more[Len(rep) + 1] = r
  BY AppendedItem
<1>2. IsPending(then, more, pair, c)
  BY <1>1 DEF IsPending
<1> QED BY <1>1, <1>2

\* A source that stands for none is of no pair that was given.
LEMMA NothingOfPair ==
  ASSUME IInv, NEW g \in ToSet(given)
  PROVE  /\ IsSource(g) /\ Nothing.pair # g.pair
         /\ \A c \in DOMAIN g.version : c \in Paths /\ c # Absent
<1>1. IsSource(g)
  BY DEF IInv, IsList
<1>2. g.pair # 0 /\ Nothing.pair = 0
  BY <1>1 DEF IsSource, Nothing, Source
<1>3. IsTree(g.version)
  BY <1>1 DEF IsSource
<1>4. \A c \in DOMAIN g.version : c \in Paths
  BY <1>3, TreePaths
<1> QED BY <1>1, <1>2, <1>4, AbsentIsNoPath

\* A step that reports nothing, and holds nothing else.
LEMMA StayMeets ==
  ASSUME IInv, Meets, given' = given, reported' = reported,
         \A t \in Held' : t \in Held \/ t = Nothing
  PROVE  Meets'
<1> SUFFICES ASSUME NEW i \in DOMAIN reported, NEW g \in ToSet(given), NEW h \in ToSet(given),
                    NEW c \in DOMAIN g.version, IsShared(reported[i], g, h, c),
                    ~ IsMet(reported, g.pair, c)
             PROVE  IsPending(Held', reported, g.pair, c)
  BY DEF Meets
<1>1. IsPending(Held, reported, g.pair, c)
  BY DEF Meets
<1>2. \A t \in Held' : t.pair = g.pair => t \in Held
  BY NothingOfPair
<1> QED BY <1>1, <1>2 DEF IsPending

\* A report of a pair, of which r says what has met, or is to come.
LEMMA ReportMeets ==
  ASSUME IInv, Meets, NEW r, r \in Items, given' = given, reported' = Append(reported, r),
         \A t \in Held' : t \in Held \/ t = Nothing \/ t.pair = r.pair,
         \A g, h \in ToSet(given) : \A c \in DOMAIN g.version :
           g.pair = r.pair =>
             /\ IsShared(r, g, h, c) => IsPending(Held', Append(reported, r), g.pair, c)
             /\ \A i \in DOMAIN reported :
                  IsShared(reported[i], g, h, c) /\ IsPending(Held, reported, g.pair, c) =>
                    IsMet(Append(reported, r), g.pair, c) \/ IsPending(Held', Append(reported, r), g.pair, c)
  PROVE  Meets'
<1>1. reported \in Seq(Items)
  BY DEF IInv
<1>2. PICK more : /\ more = Append(reported, r)
                  /\ DOMAIN more = DOMAIN reported \cup {Len(reported) + 1}
                  /\ Len(reported) + 1 \notin DOMAIN reported
                  /\ \A n \in DOMAIN reported : more[n] = reported[n]
                  /\ more[Len(reported) + 1] = r
  BY <1>1, AppendedItem
<1>3. reported' = more
  BY <1>2
<1> SUFFICES ASSUME NEW i \in DOMAIN more, NEW g \in ToSet(given), NEW h \in ToSet(given),
                    NEW c \in DOMAIN g.version, IsShared(more[i], g, h, c)
             PROVE  IsMet(more, g.pair, c) \/ IsPending(Held', more, g.pair, c)
  BY <1>3 DEF Meets
<1>4. CASE g.pair = r.pair
  <2>1. CASE i \in DOMAIN reported
    <3>1. more[i] = reported[i]
      BY <1>2, <2>1
    <3>2. CASE IsMet(reported, g.pair, c)
      BY <1>1, <1>2, <3>2, MetKept
    <3>3. CASE IsPending(Held, reported, g.pair, c)
      BY <1>2, <1>4, <2>1, <3>1, <3>3
    <3> QED BY <2>1, <3>1, <3>2, <3>3 DEF Meets
  <2>2. CASE i \notin DOMAIN reported
    <3>1. more[i] = r
      BY <1>2, <2>2
    <3> QED BY <1>2, <1>4, <3>1
  <2> QED BY <2>1, <2>2
<1>5. CASE g.pair # r.pair
  <2>1. more[i].pair = g.pair
    BY DEF IsShared
  <2>2. i \in DOMAIN reported /\ more[i] = reported[i]
    BY <1>2, <1>5, <2>1
  <2>3. CASE IsMet(reported, g.pair, c)
    BY <1>1, <1>2, <2>3, MetKept
  <2>4. CASE IsPending(Held, reported, g.pair, c)
    <3>1. \A t \in Held' : t.pair = g.pair => t \in Held
      BY <1>5, NothingOfPair
    <3>2. \A t \in Held' : t.pair = g.pair => OnTop(t, c)
      BY <2>4, <3>1 DEF IsPending
    <3> DEFINE then == Held'
    <3> HIDE DEF then
    <3>3. \A t \in then : t.pair = g.pair => OnTop(t, c)
      BY <3>2 DEF then
    <3>4. IsPending(then, Append(reported, r), g.pair, c)
      BY <1>1, <1>5, <2>4, <3>3, PendingKept
    <3> QED BY <1>2, <3>4 DEF then
  <2> QED BY <2>2, <2>3, <2>4 DEF Meets
<1> QED BY <1>4, <1>5

\* A report of the two sources, of their pair, has what was taken.
LEMMA ReportItem ==
  ASSUME IInv, phase = "process",
         NEW taken, taken \subseteq Both, \A side \in taken : HasEntry(current[side]),
         NEW kind, kind \in Kinds,
         NEW r, r = [pair |-> current["original"].pair, kind |-> kind,
                     original |-> IF "original" \in taken THEN Path("original") ELSE Absent,
                     modified |-> IF "modified" \in taken THEN Path("modified") ELSE Absent]
  PROVE  /\ r \in Items /\ r.pair = current["original"].pair
         /\ \A side \in Both : r[side] = IF side \in taken THEN Path(side) ELSE Absent
<1> DEFINE then == ToSet(sources) \cup {Advanced(taken)[side] : side \in Both}
<1>1. /\ \A t \in then : t \in ToSet(sources) \/ t = Nothing \/ \E side \in Both : t = Advanced(taken)[side]
      /\ ToSet(sources) \subseteq then
      /\ \A side \in Both : Advanced(taken)[side] \in then \/ Advanced(taken)[side].cache = <<>>
  OBVIOUS
<1> HIDE DEF then
<1>2. r \in Items
  BY <1>1, TakeStep
<1>3. r.pair = current["original"].pair /\ \A side \in Both : r[side] = IF side \in taken THEN Path(side) ELSE Absent
  BY DEF Both
<1> QED BY <1>2, <1>3

\* The two sources, after the next entries of some of them, and the others.
LEMMA AdvancedApart ==
  ASSUME IInv, phase = "process", NEW taken, taken \subseteq Both,
         \A t \in Held' : t \in ToSet(sources) \/ t = Nothing \/ \E side \in Both : t = Advanced(taken)[side]
  PROVE  /\ \A t \in Held' : t \in Held \/ t = Nothing \/ t.pair = current["original"].pair
         /\ \A t \in Held', g \in ToSet(given) :
              g.pair = current["original"].pair /\ t.pair = g.pair => \E side \in Both : t = Advanced(taken)[side]
<1>1. \A side \in Both : Advanced(taken)[side].pair = current["original"].pair
  BY AdvancedOfGiven
<1>2. \A t \in ToSet(sources) : t \in Held /\ t.pair # current["original"].pair
  <2>1. "original" \in Both
    BY DEF Both
  <2> QED BY <2>1, AdvancedOfGiven DEF Held
<1>3. \A g \in ToSet(given) : Nothing.pair # g.pair
  BY NothingOfPair
<1> QED BY <1>1, <1>2, <1>3

\* process_file takes a shared file from both or from none.
LEMMA ProcessFileMeets ==
  ASSUME IInv, Meets, ProcessFile
  PROVE  Meets'
<1> DEFINE taken == FileSides
           kind == IF Language THEN "compared" ELSE "skipped"
           r == [pair |-> current["original"].pair, kind |-> kind,
                 original |-> IF "original" \in taken THEN Path("original") ELSE Absent,
                 modified |-> IF "modified" \in taken THEN Path("modified") ELSE Absent]
           next == Advanced(taken)
<1>1. /\ phase = "process" /\ current' = [side \in Both |-> Nothing] /\ reported' = Append(reported, r)
      /\ sources' = IF \E side \in Both : HasEntry(next[side])
                    THEN InFront(next["original"], next["modified"], sources) ELSE sources
      /\ given' = given
  BY DEF ProcessFile, Report, InFront
<1>2. taken \subseteq Both /\ \A side \in taken : HasEntry(current[side])
  BY DEF FileSides
<1>3. /\ r \in Items /\ r.pair = current["original"].pair
      /\ \A side \in Both : r[side] = IF side \in taken THEN Path(side) ELSE Absent
  <2>1. kind \in Kinds
    BY DEF Kinds
  <2>2. r = [pair |-> current["original"].pair, kind |-> kind,
             original |-> IF "original" \in taken THEN Path("original") ELSE Absent,
             modified |-> IF "modified" \in taken THEN Path("modified") ELSE Absent]
    OBVIOUS
  <2> HIDE DEF taken, kind, r
  <2> QED BY <1>1, <1>2, <2>1, <2>2, ReportItem
<1>4. r.kind \in {"compared", "skipped"}
  OBVIOUS
<1>5. \A side \in Both : next[side] = IF side \in taken THEN NextEntry(current[side]) ELSE current[side]
  BY DEF Advanced
<1>6. \A side \in Both : side \in taken <=> HasEntry(current[side]) /\ \A other \in Both :
        HasEntry(current[other]) => ~ Precedes(Path(other), Path(side))
  BY DEF FileSides
<1> HIDE DEF r, kind
<1>7. \A t \in Held' : t \in ToSet(sources) \/ t = Nothing \/ \E side \in Both : t = next[side]
  <2> DEFINE one == next["original"]
             two == next["modified"]
             more == InFront(one, two, sources)
  <2>1. "original" \in Both /\ "modified" \in Both
    BY DEF Both
  <2>2. IsRow(more) /\ IsPaired(more) /\ ToSet(more) = ToSet(sources) \cup {one, two}
    <3>1. IsRow(sources) /\ IsPaired(sources)
      BY DEF IInv, SourcesSound
    <3>2. \A side \in Both : /\ next[side].side = side /\ next[side].kind # "single"
                             /\ next[side].pair = current["original"].pair
                             /\ \A s \in ToSet(sources) : s.pair # current["original"].pair
      BY <1>1, <1>2, AdvancedOfGiven
    <3>3. /\ one.kind # "single" /\ two.kind # "single" /\ one.side = "original" /\ two.side = "modified"
          /\ two.pair = one.pair /\ \A s \in ToSet(sources) : s.pair # one.pair
      BY <2>1, <3>2
    <3>4. more = InFront(one, two, sources)
      OBVIOUS
    <3> HIDE DEF more, one, two
    <3> QED BY ONLY <3>1, <3>3, <3>4, PutBack
  <2>3. sources' = more \/ sources' = sources
    BY <1>1
  <2> HIDE DEF more
  <2>4. \A t \in ToSet(sources') : t \in ToSet(sources) \/ t = one \/ t = two
    BY <2>2, <2>3
  <2> QED BY <1>1, <2>1, <2>4 DEF Held
<1> HIDE DEF taken, next
<1>8. /\ \A t \in Held' : t \in Held \/ t = Nothing \/ t.pair = r.pair
      /\ \A t \in Held', g \in ToSet(given) : g.pair = r.pair /\ t.pair = g.pair => \E side \in Both : t = next[side]
  BY <1>1, <1>2, <1>3, <1>7, AdvancedApart DEF next
<1>9. ASSUME NEW g \in ToSet(given), NEW h \in ToSet(given), NEW c \in DOMAIN g.version, g.pair = r.pair,
             NEW i \in DOMAIN reported, IsShared(reported[i], g, h, c), IsPending(Held, reported, g.pair, c)
      PROVE  IsMet(Append(reported, r), g.pair, c) \/ IsPending(Held', Append(reported, r), g.pair, c)
  <2>1. \A side \in Both : /\ HasEntry(current[side])
                           /\ Path(side) = c \/ Precedes(Path(side), c)
                           /\ OnTop(current[side], c)
                           /\ Path(side) # c => OnTop(NextEntry(current[side]), c)
    BY <1>1, <1>3, <1>9, PendingFiles
  <2>2. reported \in Seq(Items)
    BY DEF IInv
  <2>3. PICK more : /\ more = Append(reported, r)
                    /\ DOMAIN more = DOMAIN reported \cup {Len(reported) + 1}
                    /\ Len(reported) + 1 \notin DOMAIN reported
                    /\ \A n \in DOMAIN reported : more[n] = reported[n]
                    /\ more[Len(reported) + 1] = r
    BY <1>3, <2>2, AppendedItem
  <2>4. CASE \A side \in Both : Path(side) = c
    <3>1. \A side \in Both : side \in taken
      BY <1>6, <2>1, <2>4 DEF Precedes
    <3>2. r.original = c /\ r.modified = c
      BY <1>3, <2>4, <3>1 DEF Both
    <3>3. IsMet(more, g.pair, c)
      BY <1>9, <2>3, <3>2 DEF IsMet
    <3> QED BY <2>3, <3>3
  <2>5. CASE \E side \in Both : Path(side) # c
    <3>1. \A side \in taken : Path(side) # c
      BY <1>2, <1>6, <2>1, <2>5
    <3>2. c # Absent
      BY NothingOfPair
    <3>3. \A side \in Both : r[side] # c
      BY <1>3, <3>1, <3>2
    <3>4. r.original # c /\ r.modified # c
      BY <3>3 DEF Both
    <3>5. \A side \in Both : OnTop(next[side], c)
      BY <1>5, <2>1, <3>1
    <3> DEFINE then == Held'
    <3>6. \A t \in then : t.pair = g.pair => OnTop(t, c)
      BY <1>8, <1>9, <3>5
    <3> HIDE DEF then
    <3>7. IsPending(then, Append(reported, r), g.pair, c)
      BY <1>3, <1>9, <2>2, <3>4, <3>6, PendingKept
    <3> QED BY <3>7 DEF then
  <2> QED BY <2>4, <2>5
<1>10. \A g, h : \A c : ~ IsShared(r, g, h, c)
  BY <1>4 DEF IsShared
<1> DEFINE more == Append(reported, r)
<1>11. reported' = more
  BY <1>1
<1> QED BY <1>1, <1>3, <1>8, <1>9, <1>10, ReportMeets

\* Two directories that are taken together put the files they share on top of both
\* stacks; one that is taken otherwise leaves none behind.
LEMMA ProcessDirectoryMeets ==
  ASSUME IInv, Meets, ProcessDirectory
  PROVE  Meets'
<1> DEFINE taken == DirectorySides
           r == [pair |-> current["original"].pair, kind |-> "directory",
                 original |-> IF "original" \in taken THEN Path("original") ELSE Absent,
                 modified |-> IF "modified" \in taken THEN Path("modified") ELSE Absent]
           next == Advanced(taken)
<1>1. /\ phase = "process" /\ AtDirectory /\ current' = next /\ reported' = Append(reported, r)
      /\ sources' = sources /\ given' = given
  BY DEF ProcessDirectory, Report
<1>2. taken \subseteq Both /\ \A side \in taken : HasEntry(current[side]) /\ IsDirectory(current[side])
  BY DEF DirectorySides, IsDirectory
<1>3. /\ r \in Items /\ r.pair = current["original"].pair
      /\ \A side \in Both : r[side] = IF side \in taken THEN Path(side) ELSE Absent
  <2> DEFINE kind == "directory"
  <2>1. kind \in Kinds
    BY DEF Kinds
  <2>2. r = [pair |-> current["original"].pair, kind |-> kind,
             original |-> IF "original" \in taken THEN Path("original") ELSE Absent,
             modified |-> IF "modified" \in taken THEN Path("modified") ELSE Absent]
    OBVIOUS
  <2> HIDE DEF taken, kind, r
  <2> QED BY <1>1, <1>2, <2>1, <2>2, ReportItem
<1>4. \A side \in Both : next[side] = IF side \in taken THEN NextEntry(current[side]) ELSE current[side]
  BY DEF Advanced
<1> HIDE DEF r, taken
<1>5. \A t \in Held' : t \in ToSet(sources) \/ t = Nothing \/ \E side \in Both : t = next[side]
  <2> HIDE DEF next
  <2> QED BY <1>1 DEF Held
<1> HIDE DEF next
<1>6. /\ \A t \in Held' : t \in Held \/ t = Nothing \/ t.pair = r.pair
      /\ \A t \in Held', g \in ToSet(given) : g.pair = r.pair /\ t.pair = g.pair => \E side \in Both : t = next[side]
  BY <1>1, <1>2, <1>3, <1>5, AdvancedApart DEF next
<1>7. ASSUME NEW g \in ToSet(given), NEW h \in ToSet(given), NEW c \in DOMAIN g.version, g.pair = r.pair,
             NEW i \in DOMAIN reported, IsShared(reported[i], g, h, c), IsPending(Held, reported, g.pair, c)
      PROVE  FALSE
  <2>1. \A side \in Both : HasEntry(current[side]) /\ ~ IsDirectory(current[side])
    BY <1>1, <1>3, <1>7, PendingFiles
  <2> QED BY <1>1, <2>1 DEF AtDirectory
<1>8. ASSUME NEW g \in ToSet(given), NEW h \in ToSet(given), NEW c \in DOMAIN g.version, g.pair = r.pair,
             IsShared(r, g, h, c)
      PROVE  IsPending(Held', Append(reported, r), g.pair, c)
  <2>1. c \in Paths /\ c # Absent /\ c # <<>>
    BY <1>8, NothingOfPair DEF IsShared
  <2>2. Front(c) \in Paths /\ Front(c) # Absent /\ IsPrefix(Front(c), c) /\ Front(c) # c
    BY <2>1, FrontIsPrefix, AbsentIsNoPath
  <2>3. \A side \in Both : r[side] = Front(c)
    BY <1>8 DEF IsShared, Both
  <2>4. \A side \in Both : side \in taken /\ Path(side) = Front(c)
    BY <1>3, <2>2, <2>3
  <2>5. \A side \in Both : \E f \in ToSet(given) :
          /\ f.pair = g.pair /\ f.side = side /\ c \in DOMAIN f.version /\ f.version[c] = "file"
    BY <1>8 DEF IsShared, Both
  <2>6. ASSUME NEW side \in Both
        PROVE  /\ OnTop(next[side], c)
               /\ \A n \in DOMAIN reported : reported[n].pair = g.pair => reported[n][side] # c
    <3>1. PICK f \in ToSet(given) :
            /\ f.pair = g.pair /\ f.side = side /\ c \in DOMAIN f.version /\ f.version[c] = "file"
      BY <2>5
    <3>2. /\ IsSource(f) /\ IsOf(current[side], f) /\ f.kind # "single"
          /\ InStep(f, Held, reported) /\ IsStack(f.version, current[side].cache)
          /\ current[side] \in Held /\ current[side].pair = f.pair
      BY <1>1, <1>3, <1>8, <3>1, CurrentOf
    <3>3. IsDirectory(current[side]) /\ HasEntry(current[side]) /\ Front(c) = Entry(current[side])
      BY <1>2, <2>4 DEF Path
    <3>4. OnTop(NextEntry(current[side]), c)
      BY <2>1, <3>1, <3>2, <3>3, PushedOnTop
    <3>5. IsCovered(current[side].cache, c)
      <4>1. Entry(current[side]) = current[side].cache[Len(current[side].cache)]
        BY <3>2, <3>3, NextOfGiven
      <4> DEFINE cache == current[side].cache
      <4>2. cache \in Seq(Shown(f.version)) /\ cache # <<>>
        BY <3>2, <3>3 DEF IsStack, HasEntry
      <4> HIDE DEF cache
      <4>3. Len(cache) \in DOMAIN cache
        BY <4>2
      <4>4. IsPrefix(cache[Len(cache)], c)
        BY <2>2, <3>3, <4>1 DEF cache
      <4>5. IsCovered(cache, c)
        BY <4>3, <4>4 DEF IsCovered
      <4> QED BY <4>5 DEF cache
    <3>6. c \in Shown(f.version) /\ Matches(current[side], f)
      <4>1. current[side].side = f.side
        BY <3>2, OfGiven
      <4> QED BY <3>1, <3>2, <4>1 DEF Shown, Matches
    <3>7. ~ \E n \in Takes(reported, f) : reported[n][f.side] = c
      BY <3>2, <3>5, <3>6 DEF InStep
    <3>8. \A n \in DOMAIN reported : reported[n].pair = g.pair => reported[n][side] # c
      BY <2>1, <3>1, <3>7 DEF Takes
    <3> QED BY <1>4, <2>4, <3>4, <3>8
  <2>7. \A n \in DOMAIN reported : reported[n].pair = g.pair => reported[n].original # c /\ reported[n].modified # c
    BY <2>6 DEF Both
  <2>8. r.original # c /\ r.modified # c
    BY <2>2, <2>3 DEF Both
  <2>9. IsPending({}, reported, g.pair, c)
    BY <2>7 DEF IsPending
  <2>10. reported \in Seq(Items)
    BY DEF IInv
  <2> DEFINE then == Held'
  <2>11. \A t \in then : t.pair = g.pair => OnTop(t, c)
    BY <1>6, <1>8, <2>6
  <2> HIDE DEF then
  <2>12. IsPending(then, Append(reported, r), g.pair, c)
    BY <1>3, <2>8, <2>9, <2>10, <2>11, PendingKept
  <2> QED BY <2>12 DEF then
<1> QED BY <1>1, <1>3, <1>6, <1>7, <1>8, ReportMeets

\* A single source is of no pair of versions.
LEMMA ConsumeSingleMeets ==
  ASSUME IInv, Meets, ConsumeSingle
  PROVE  Meets'
<1> DEFINE rest == Tail(sources)
           one == sources[1]
           r == [pair |-> one.pair, kind |-> "view", original |-> <<>>, modified |-> Absent]
<1>1. /\ IsReady /\ one.kind = "single"
      /\ sources' = rest /\ given' = given /\ current' = current
      /\ reported' = reported \/ reported' = Append(reported, r)
  BY DEF ConsumeSingle, IsSingle
<1>2. sources # <<>> /\ one \in ToSet(sources)
  BY <1>1, FirstSources
<1>3. ToSet(sources) = ToSet(rest) \cup {one}
  <2>1. IsRow(sources) /\ IsPaired(sources) /\ sources # <<>> /\ sources[1].kind = "single" /\ rest = Tail(sources)
    BY <1>1, <1>2 DEF IInv, SourcesSound
  <2>2. ToSet(sources) = ToSet(rest) \cup {sources[1]}
    <3> HIDE DEF rest
    <3> QED BY ONLY <2>1, DropSingle
  <2> QED BY <2>2
<1>4. PICK h \in ToSet(given) :
        /\ IsSource(h) /\ IsOf(one, h)
        /\ one.side \in Both /\ one.pair = h.pair /\ one.side = h.side /\ one.kind = h.kind
        /\ one.missing = h.missing
  BY <1>2, SourceOfGiven
<1>5. r \in Items
  <2>1. one.pair \in Nat
    BY <1>4 DEF IsSource
  <2>2. <<>> \in Seq(Nat) /\ Absent \in Seq(Nat)
    BY DEF Absent
  <2>3. \A pair \in Nat, kind \in Kinds, a, b \in Seq(Nat) :
          [pair |-> pair, kind |-> kind, original |-> a, modified |-> b] \in Items
    BY DEF Items
  <2>4. "view" \in Kinds
    BY DEF Kinds
  <2> HIDE DEF one
  <2> QED BY <2>1, <2>2, <2>3, <2>4
<1>6. r.pair = one.pair
  OBVIOUS
<1> HIDE DEF rest, one, r
<1>7. \A t \in Held' : t \in Held
  BY <1>1, <1>3 DEF Held
<1>8. \A g \in ToSet(given) : g.pair = r.pair => DOMAIN g.version = {}
  <2> SUFFICES ASSUME NEW g \in ToSet(given), g.pair = r.pair
               PROVE  DOMAIN g.version = {}
    OBVIOUS
  <2>1. g.kind = "single"
    BY <1>1, <1>4, <1>6, SinglePair DEF IInv
  <2>2. IsSource(g)
    BY DEF IInv, IsList
  <2> QED BY <2>1, <2>2 DEF IsSource
<1>9. CASE reported' = reported
  BY <1>1, <1>7, <1>9, StayMeets
<1>10. CASE reported' = Append(reported, r)
  BY <1>1, <1>5, <1>7, <1>8, <1>10, ReportMeets
<1> QED BY <1>1, <1>9, <1>10

\* What is consumed is held before.
LEMMA ConsumeMeets ==
  ASSUME IInv, Meets, Consume \/ ConsumeMissing \/ NoFile
  PROVE  Meets'
<1>1. CASE Consume \/ ConsumeMissing
  <2> DEFINE rest == BehindPair(sources)
             one == sources[1]
             two == sources[2]
  <2>1. /\ IsReady /\ ~ IsSingle
        /\ current' = [original |-> one, modified |-> two] \/ current' = current
        /\ sources' = rest /\ given' = given /\ reported' = reported
    BY <1>1 DEF Consume, ConsumeMissing, BehindPair
  <2>2. one \in ToSet(sources) /\ two \in ToSet(sources) /\ ToSet(sources) = ToSet(rest) \cup {one, two}
    BY <2>1, FirstSources
  <2> HIDE DEF rest, one, two
  <2>3. \A side \in Both : current'[side] = one \/ current'[side] = two \/ current'[side] = current[side]
    BY <2>1 DEF Both
  <2>4. \A t \in Held' : t \in Held
    BY <2>1, <2>2, <2>3 DEF Held
  <2> QED BY <2>1, <2>4, StayMeets
<1>2. CASE NoFile
  <2>1. /\ current' = [side \in Both |-> Nothing] /\ sources' = sources /\ given' = given /\ reported' = reported
    BY <1>2 DEF NoFile
  <2>2. \A t \in Held' : t \in Held \/ t = Nothing
    BY <2>1 DEF Held
  <2> QED BY <2>1, <2>2, StayMeets
<1> QED BY <1>1, <1>2

\* No step lets such a file pass its namesake.
LEMMA NextMeets == IInv /\ Meets /\ [Next]_vars => Meets'
<1> SUFFICES ASSUME IInv, Meets, [Next]_vars
             PROVE  Meets'
  OBVIOUS
<1>1. CASE Next
  BY <1>1, ConsumeMeets, ConsumeSingleMeets, ProcessDirectoryMeets, ProcessFileMeets DEF Next
<1>2. CASE UNCHANGED vars
  <2>1. Held' = Held /\ reported' = reported /\ given' = given
    BY <1>2 DEF vars, Held
  <2> QED BY <2>1, StayMeets
<1> QED BY <1>1, <1>2

\* What has met its namesake is reported once, with it.
LEMMA MeetsMeans == IInv /\ Meets => FilesMeet
<1> SUFFICES ASSUME IInv, Meets,
                    NEW d \in ToSet(reported), NEW r \in ToSet(reported), NEW side \in Both,
                    d.pair = r.pair, d.kind = "directory", d.original = d.modified,
                    r[side] \in Namesakes(d.pair), r[side] # <<>>, Front(r[side]) = d.original
             PROVE  r.original = r.modified
  BY DEF FilesMeet
<1> DEFINE c == r[side]
<1>1. PICK g \in ToSet(given) : /\ g.pair = d.pair /\ g.side = "original"
                                /\ c \in DOMAIN g.version /\ g.version[c] = "file"
  BY DEF Namesakes
<1>2. PICK h \in ToSet(given) : /\ h.pair = d.pair /\ h.side = "modified"
                                /\ c \in DOMAIN h.version /\ h.version[c] = "file"
  BY DEF Namesakes
<1>3. PICK i \in DOMAIN reported : reported[i] = d
  BY DEF ToSet
<1>4. PICK m \in DOMAIN reported : reported[m] = r
  BY DEF ToSet
<1>5. PICK f \in ToSet(given) : /\ f.pair = d.pair /\ f.side = side
                                /\ c \in DOMAIN f.version /\ f.version[c] = "file"
  BY <1>1, <1>2 DEF Both
<1>6. c # Absent /\ IsSource(f)
  BY <1>5, NothingOfPair
<1> HIDE DEF c
<1>7. IsShared(reported[i], g, h, c)
  BY <1>1, <1>2, <1>3 DEF IsShared, c
<1>8. IsMet(reported, g.pair, c)
  <2>1. reported[m].pair = g.pair /\ reported[m][side] = c
    BY <1>1, <1>4 DEF c
  <2>2. ~ IsPending(Held, reported, g.pair, c)
    BY <1>4, <2>1 DEF IsPending, Both
  <2> QED BY <1>1, <1>3, <1>7, <2>2 DEF Meets
<1>9. PICK n \in DOMAIN reported :
        reported[n].pair = g.pair /\ reported[n].original = c /\ reported[n].modified = c
  BY <1>8 DEF IsMet
<1>10. reported[n][side] = c
  BY <1>9 DEF Both
<1>11. m \in Takes(reported, f) /\ n \in Takes(reported, f)
  BY <1>1, <1>4, <1>5, <1>6, <1>9, <1>10 DEF Takes, c
<1>12. f.kind # "single"
  BY <1>5, <1>6 DEF IsSource
<1>13. InStep(f, Held, reported)
  BY <1>11, <1>12 DEF IInv, AllInStep
<1>14. m = n
  BY <1>4, <1>5, <1>10, <1>11, <1>13 DEF InStep, c
<1> QED BY <1>4, <1>9, <1>14

\* Nothing was entered.
LEMMA InitMeets == reported = <<>> => Meets
BY DEF Meets

\* Once two directories were entered together, no file that both have directly in them is
\* compared alone, whatever else the two walks meet before it.
\* (input_source_local.cpp:92-122; input_source_manager.cpp:158-176, 219-241)
THEOREM NamesakesMeet == Spec => []FilesMeet
<1>1. Init => IInv /\ Meets
  BY InitSound, InitMeets DEF Init
<1>2. IInv /\ Meets /\ [Next]_vars => (IInv /\ Meets)'
  BY NextKeeps, NextMeets
<1> QED BY <1>1, <1>2, MeetsMeans, PTL DEF Spec
=============================================================================
