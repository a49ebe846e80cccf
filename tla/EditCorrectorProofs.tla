------------------------- MODULE EditCorrectorProofs -------------------------
(***************************************************************************)
(* Proofs about the edit_corrector: whatever pairs it breaks a list for,   *)
(* the list remains an edit list, for lists of constructs of every length  *)
(* and every relation of equality.                                         *)
(***************************************************************************)
EXTENDS EditCorrector, SharedTheorems, SequenceTheorems, FiniteSetTheorems

LOCAL INSTANCE SequencesExt

Pairs == Nat \X Nat

LEMMA EditPoints ==
  ASSUME NEW f \in SesEdits
  PROVE  /\ f.original_offset \in Nat /\ f.original_length \in Nat
         /\ f.modified_offset \in Nat /\ f.modified_length \in Nat
         /\ Starts(f) \in Points /\ Ends(f) \in Points
         /\ Starts(f).x = f.original_offset /\ Starts(f).y = f.modified_offset
         /\ Ends(f).x = f.original_offset + f.original_length
         /\ Ends(f).y = f.modified_offset + f.modified_length
BY DEF SesEdits, Starts, Ends, Points, Point

LEMMA CommonNothing ==
  ASSUME NEW e, NEW p \in Points
  PROVE  Common(e, p, p)
BY DEF Common, Points

LEMMA CommonTransitive ==
  ASSUME NEW e, NEW p \in Points, NEW q \in Points, NEW r \in Points,
         Common(e, p, q), Common(e, q, r)
  PROVE  Common(e, p, r)
<1>1. /\ p.x \in Int /\ p.y \in Int /\ q.x \in Int /\ q.y \in Int /\ r.x \in Int /\ r.y \in Int
  BY DEF Points
<1>2. ASSUME NEW i \in 0 .. (r.x - p.x) - 1
      PROVE  <<p.x + i, p.y + i>> \in e
  <2>1. CASE i <= (q.x - p.x) - 1
    BY <2>1, <1>1 DEF Common
  <2>2. CASE i > (q.x - p.x) - 1
    <3> DEFINE j == i - (q.x - p.x)
    <3>1. j \in 0 .. (r.x - q.x) - 1
      BY <2>2, <1>1
    <3>2. <<q.x + j, q.y + j>> \in e
      BY <3>1 DEF Common
    <3>3. q.x + j = p.x + i /\ q.y + j = p.y + i
      BY <1>1 DEF Common
    <3> QED BY <3>2, <3>3
  <2> QED BY <2>1, <2>2, <1>1
<1> QED BY <1>1, <1>2 DEF Common

-----------------------------------------------------------------------------
(***************************************************************************)
(* Edit lists, one behind the other and cut in two.                        *)
(***************************************************************************)

LEMMA ListType ==
  ASSUME NEW e, NEW p \in Points, NEW q \in Points, NEW es, IsEditList(e, es, p, q)
  PROVE  /\ es \in Seq(SesEdits) /\ Len(es) \in Nat
         /\ \A n \in 1 .. Len(es) : es[n] \in SesEdits /\ WellFormed(es[n])
         /\ \A n \in 0 .. Len(es) :
              /\ Behind(es, n, p) \in Points /\ Ahead(es, n, q) \in Points
              /\ Common(e, Behind(es, n, p), Ahead(es, n, q))
<1>1. es \in Seq(SesEdits) /\ Len(es) \in Nat /\ \A n \in 1 .. Len(es) : es[n] \in SesEdits
  BY ElementOfSeq, LenProperties DEF IsEditList
<1>2. \A n \in 0 .. Len(es) : Behind(es, n, p) \in Points /\ Ahead(es, n, q) \in Points
  BY <1>1, EditPoints DEF Behind, Ahead
<1> QED BY <1>1, <1>2 DEF IsEditList, Tiles

LEMMA CornersBefore ==
  ASSUME NEW s \in Seq(SesEdits), NEW t \in Seq(SesEdits), NEW p, NEW q, NEW r,
         NEW n \in Nat, n < Len(s)
  PROVE  Behind(s \o t, n, p) = Behind(s, n, p) /\ Ahead(s \o t, n, r) = Ahead(s, n, q)
<1> DEFINE u == s \o t
           a == Len(s)
           b == Len(t)
<1>1. /\ a \in Nat /\ b \in Nat /\ Len(u) = a + b
      /\ \A i \in 1 .. a + b : u[i] = IF i <= a THEN s[i] ELSE t[i - a]
  BY ConcatProperties, LenProperties
<1>2. Len(s) = a /\ Len(t) = b
  OBVIOUS
<1>3. n \in Nat /\ n < a
  OBVIOUS
<1> HIDE DEF u, a, b
<1>4. Behind(u, n, p) = Behind(s, n, p) /\ Ahead(u, n, r) = Ahead(s, n, q)
  BY <1>1, <1>2, <1>3 DEF Behind, Ahead
<1> QED BY <1>4 DEF u

LEMMA CornersBetween ==
  ASSUME NEW s \in Seq(SesEdits), NEW t \in Seq(SesEdits), NEW p, NEW r
  PROVE  /\ Behind(s \o t, Len(s), p) = Behind(s, Len(s), p)
         /\ Ahead(s \o t, Len(s), r) = Ahead(t, 0, r)
<1> DEFINE u == s \o t
           a == Len(s)
           b == Len(t)
<1>1. /\ a \in Nat /\ b \in Nat /\ Len(u) = a + b
      /\ \A i \in 1 .. a + b : u[i] = IF i <= a THEN s[i] ELSE t[i - a]
  BY ConcatProperties, LenProperties
<1>2. Len(s) = a /\ Len(t) = b
  OBVIOUS
<1> HIDE DEF u, a, b
<1>3. Behind(u, a, p) = Behind(s, a, p) /\ Ahead(u, a, r) = Ahead(t, 0, r)
  BY <1>1, <1>2 DEF Behind, Ahead
<1> QED BY <1>2, <1>3 DEF u

LEMMA CornersBehind ==
  ASSUME NEW s \in Seq(SesEdits), NEW t \in Seq(SesEdits), NEW p, NEW q, NEW r,
         NEW n \in Nat, 0 < n, n <= Len(t), NEW k \in Nat, k = Len(s) + n
  PROVE  Behind(s \o t, k, p) = Behind(t, n, q) /\ Ahead(s \o t, k, r) = Ahead(t, n, r)
<1> DEFINE u == s \o t
           a == Len(s)
           b == Len(t)
<1>1. a \in Nat /\ b \in Nat /\ Len(s) = a /\ Len(t) = b
  BY LenProperties
<1>2. Len(u) = a + b /\ \A i \in 1 .. a + b : u[i] = IF i <= a THEN s[i] ELSE t[i - a]
  BY ConcatProperties
<1>3. 0 < n /\ n <= b /\ k = a + n
  OBVIOUS
<1> HIDE DEF u, a, b
<1>4. k \in 1 .. a + b /\ ~ (k <= a) /\ k - a = n /\ k # 0
  BY <1>1, <1>3
<1>5. k = a + b <=> n = b
  BY <1>1, <1>3
<1>6. n # b => k + 1 \in 1 .. a + b /\ ~ (k + 1 <= a) /\ (k + 1) - a = n + 1
  BY <1>1, <1>3
<1>7. Behind(u, k, p) = Behind(t, n, q)
  BY <1>1, <1>2, <1>3, <1>4 DEF Behind
<1>8. Ahead(u, k, r) = Ahead(t, n, r)
  BY <1>1, <1>2, <1>4, <1>5, <1>6 DEF Ahead
<1> QED BY <1>7, <1>8 DEF u

LEMMA ListsConcat ==
  ASSUME NEW e, NEW p \in Points, NEW q \in Points, NEW r \in Points, NEW s, NEW t,
         IsEditList(e, s, p, q), IsEditList(e, t, q, r)
  PROVE  IsEditList(e, s \o t, p, r)
<1> DEFINE u == s \o t
<1>1. /\ s \in Seq(SesEdits) /\ t \in Seq(SesEdits) /\ Len(s) \in Nat /\ Len(t) \in Nat
  BY ListType
<1>2. /\ u \in Seq(SesEdits) /\ Len(u) = Len(s) + Len(t)
      /\ \A i \in 1 .. Len(s) + Len(t) : u[i] = IF i <= Len(s) THEN s[i] ELSE t[i - Len(s)]
  BY <1>1, ConcatProperties
<1>3. \A i \in 1 .. Len(u) : WellFormed(u[i])
  <2>1. SUFFICES ASSUME NEW i \in 1 .. Len(u) PROVE WellFormed(u[i])
    OBVIOUS
  <2>2. CASE i <= Len(s)
    BY <2>2, <1>1, <1>2 DEF IsEditList
  <2>3. CASE i > Len(s)
    <3>1. i - Len(s) \in 1 .. Len(t) /\ u[i] = t[i - Len(s)]
      BY <2>3, <1>1, <1>2
    <3> QED BY <3>1 DEF IsEditList
  <2> QED BY <2>2, <2>3, <1>1, <1>2
<1>4. ASSUME NEW n \in 0 .. Len(u) PROVE Common(e, Behind(u, n, p), Ahead(u, n, r))
  <2>1. n \in 0 .. Len(s) + Len(t)
    BY <1>2
  <2>2. CASE n < Len(s)
    <3>1. n \in 0 .. Len(s) - 1 /\ n \in 0 .. Len(s)
      BY <2>1, <2>2, <1>1
    <3>2. Common(e, Behind(s, n, p), Ahead(s, n, q))
      BY <3>1, ListType
    <3> QED BY <3>1, <3>2, <2>2, <1>1, CornersBefore
  <2>3. CASE n = Len(s)
    <3>1. Common(e, Behind(s, n, p), q) /\ Behind(s, n, p) \in Points
      <4>1. n \in 0 .. Len(s) /\ Ahead(s, n, q) = q
        BY <2>3, <1>1 DEF Ahead
      <4> QED BY <4>1, ListType
    <3>2. Common(e, q, Ahead(t, 0, r)) /\ Ahead(t, 0, r) \in Points
      <4>1. 0 \in 0 .. Len(t) /\ Behind(t, 0, q) = q
        BY <1>1 DEF Behind
      <4> QED BY <4>1, ListType
    <3> QED BY <2>3, <3>1, <3>2, <1>1, CornersBetween, CommonTransitive
  <2>4. CASE n > Len(s)
    <3> DEFINE m == n - Len(s)
    <3>1. m \in Nat /\ 0 < m /\ m <= Len(t) /\ m \in 0 .. Len(t) /\ n \in Nat /\ n = Len(s) + m
      BY <2>1, <2>4, <1>1
    <3> HIDE DEF m
    <3>2. Common(e, Behind(t, m, q), Ahead(t, m, r))
      BY <3>1, ListType
    <3>3. Behind(u, n, p) = Behind(t, m, q) /\ Ahead(u, n, r) = Ahead(t, m, r)
      BY <3>1, <1>1, CornersBehind
    <3> QED BY <3>2, <3>3
  <2> QED BY <2>1, <2>2, <2>3, <2>4, <1>1
<1> QED BY <1>2, <1>3, <1>4 DEF IsEditList, Tiles

LEMMA PassesConcat ==
  ASSUME NEW e, NEW p \in Points, NEW q \in Points, NEW r \in Points, NEW s, NEW t,
         IsEditList(e, s, p, q), IsEditList(e, t, q, r), NEW z \in Pairs
  PROVE  Passes(s \o t, p, r, z) <=> Passes(s, p, q, z) \/ Passes(t, q, r, z)
<1> DEFINE u == s \o t
           On(from, to) == z[1] - from.x = z[2] - from.y /\ z[1] \in from.x .. to.x - 1
           a == Len(s)
           b == Len(t)
<1>1. /\ s \in Seq(SesEdits) /\ t \in Seq(SesEdits) /\ a \in Nat /\ b \in Nat
  BY ListType
<1>2. Len(u) = a + b
  BY <1>1, ConcatProperties
<1>3. /\ \A n \in 0 .. a - 1 : Behind(u, n, p) = Behind(s, n, p) /\ Ahead(u, n, r) = Ahead(s, n, q)
      /\ Behind(u, a, p) = Behind(s, a, p) /\ Ahead(u, a, r) = Ahead(t, 0, r)
      /\ \A n \in 1 .. b : Behind(u, a + n, p) = Behind(t, n, q) /\ Ahead(u, a + n, r) = Ahead(t, n, r)
  <2>1. ASSUME NEW n \in 0 .. a - 1
        PROVE  Behind(u, n, p) = Behind(s, n, p) /\ Ahead(u, n, r) = Ahead(s, n, q)
    <3>1. n \in Nat /\ n < Len(s)
      BY <1>1
    <3> QED BY <3>1, <1>1, CornersBefore
  <2>2. Behind(u, a, p) = Behind(s, a, p) /\ Ahead(u, a, r) = Ahead(t, 0, r)
    BY <1>1, CornersBetween
  <2>3. ASSUME NEW n \in 1 .. b
        PROVE  Behind(u, a + n, p) = Behind(t, n, q) /\ Ahead(u, a + n, r) = Ahead(t, n, r)
    <3> DEFINE k == a + n
    <3>1. n \in Nat /\ 0 < n /\ n <= Len(t) /\ k \in Nat /\ k = Len(s) + n
      BY <1>1
    <3> HIDE DEF k
    <3>2. Behind(u, k, p) = Behind(t, n, q) /\ Ahead(u, k, r) = Ahead(t, n, r)
      BY <3>1, <1>1, CornersBehind
    <3> QED BY <3>2 DEF k
  <2> QED BY <2>1, <2>2, <2>3
<1>4. Ahead(s, a, q) = q /\ Behind(t, 0, q) = q
  BY <1>1 DEF Ahead, Behind
<1>5. On(Behind(s, a, p), Ahead(t, 0, r)) <=> On(Behind(s, a, p), q) \/ On(q, Ahead(t, 0, r))
  <2> DEFINE f == Behind(s, a, p)
             g == Ahead(t, 0, r)
  <2>1. f \in Points /\ g \in Points /\ Common(e, f, q) /\ Common(e, q, g)
    <3>1. a \in 0 .. a /\ 0 \in 0 .. b
      BY <1>1
    <3> QED BY <3>1, <1>4, ListType
  <2>2. /\ f.x \in Int /\ f.y \in Int /\ g.x \in Int /\ g.y \in Int
        /\ q.x \in Int /\ q.y \in Int /\ z[1] \in Int /\ z[2] \in Int
    BY <2>1 DEF Points, Pairs
  <2>3. q.x - f.x = q.y - f.y /\ q.x >= f.x /\ g.x >= q.x
    BY <2>1 DEF Common
  <2> HIDE DEF f, g
  <2>4. On(f, g) <=> On(f, q) \/ On(q, g)
    BY <2>2, <2>3
  <2> QED BY <2>4 DEF f, g
<1>6. /\ Passes(u, p, r, z) <=> \E n \in 0 .. a + b : On(Behind(u, n, p), Ahead(u, n, r))
      /\ Passes(s, p, q, z) <=> \E n \in 0 .. a : On(Behind(s, n, p), Ahead(s, n, q))
      /\ Passes(t, q, r, z) <=> \E n \in 0 .. b : On(Behind(t, n, q), Ahead(t, n, r))
  BY <1>2 DEF Passes
<1> HIDE DEF On, u, a, b
<1>7. ASSUME NEW n \in 0 .. a + b, On(Behind(u, n, p), Ahead(u, n, r))
      PROVE  Passes(s, p, q, z) \/ Passes(t, q, r, z)
  <2>1. CASE n < a
    <3>1. n \in 0 .. a /\ n \in 0 .. a - 1
      BY <2>1, <1>1
    <3> QED BY <3>1, <1>3, <1>6, <1>7
  <2>2. CASE n = a
    <3>1. a \in 0 .. a /\ 0 \in 0 .. b
      BY <1>1
    <3> QED BY <3>1, <2>2, <1>3, <1>4, <1>5, <1>6, <1>7
  <2>3. CASE n > a
    <3>1. PICK m \in 1 .. b : n = a + m
      <4>1. n - a \in 1 .. b /\ n = a + (n - a)
        BY <2>3, <1>1
      <4> QED BY <4>1
    <3>2. m \in 0 .. b
      BY <1>1
    <3> QED BY <3>1, <3>2, <1>3, <1>6, <1>7
  <2> QED BY <2>1, <2>2, <2>3, <1>1
<1>8. ASSUME NEW n \in 0 .. a, On(Behind(s, n, p), Ahead(s, n, q))
      PROVE  Passes(u, p, r, z)
  <2>1. n \in 0 .. a + b /\ n # a => n \in 0 .. a - 1
    BY <1>1
  <2>2. n \in 0 .. a + b
    BY <1>1
  <2>3. CASE n # a
    BY <2>1, <2>2, <2>3, <1>3, <1>6, <1>8
  <2>4. CASE n = a
    BY <2>2, <2>4, <1>3, <1>4, <1>5, <1>6, <1>8
  <2> QED BY <2>3, <2>4
<1>9. ASSUME NEW n \in 0 .. b, On(Behind(t, n, q), Ahead(t, n, r))
      PROVE  Passes(u, p, r, z)
  <2>1. a + n \in 0 .. a + b
    BY <1>1
  <2>2. CASE n = 0
    <3>1. a + n = a
      BY <2>2, <1>1
    <3> QED BY <2>1, <2>2, <3>1, <1>3, <1>4, <1>5, <1>6, <1>9
  <2>3. CASE n # 0
    <3>1. n \in 1 .. b
      BY <2>3, <1>1
    <3> QED BY <2>1, <3>1, <1>3, <1>6, <1>9
  <2> QED BY <2>2, <2>3
<1> QED BY <1>6, <1>7, <1>8, <1>9 DEF u

LEMMA StartsAndEnds == Start \in Points /\ End \in Points
BY ConstantsAssumption DEF Start, End, Point, Points

LEMMA ListCutBefore ==
  ASSUME NEW e, NEW es, IsEditList(e, es, Start, End),
         NEW k \in Nat, k < Len(es)
  PROVE  /\ IsEditList(e, SubSeq(es, 1, k), Start, Starts(es[k + 1]))
         /\ Len(SubSeq(es, 1, k)) = k
         /\ \A n \in 1 .. k : SubSeq(es, 1, k)[n] = es[n]
         /\ \A n \in 0 .. k : /\ Behind(SubSeq(es, 1, k), n, Start) = Behind(es, n, Start)
                            /\ Ahead(SubSeq(es, 1, k), n, Starts(es[k + 1])) = Ahead(es, n, End)
<1> DEFINE s == SubSeq(es, 1, k)
<1>1. es \in Seq(SesEdits) /\ Len(es) \in Nat /\ \A n \in 1 .. Len(es) : es[n] \in SesEdits
  BY StartsAndEnds, ListType
<1>2. s \in Seq(SesEdits) /\ Len(s) = k /\ \A n \in 1 .. k : s[n] = es[n]
  <2>1. \A n \in 1 .. k : es[n] \in SesEdits
    BY <1>1
  <2> QED BY <2>1, SubSeqProperties
<1> HIDE DEF s
<1>3. \A n \in 1 .. Len(s) : WellFormed(s[n])
  BY <1>1, <1>2 DEF IsEditList
<1>4. ASSUME NEW n \in 0 .. Len(s)
      PROVE  /\ Common(e, Behind(s, n, Start), Ahead(s, n, Starts(es[k + 1])))
             /\ Behind(s, n, Start) = Behind(es, n, Start)
             /\ Ahead(s, n, Starts(es[k + 1])) = Ahead(es, n, End)
  <2>1. n \in 0 .. Len(es) /\ n # Len(es)
    BY <1>1, <1>2
  <2>2. Behind(s, n, Start) = Behind(es, n, Start)
    BY <1>1, <1>2 DEF Behind
  <2>3. Ahead(s, n, Starts(es[k + 1])) = Ahead(es, n, End)
    BY <2>1, <1>1, <1>2 DEF Ahead
  <2> QED BY <2>1, <2>2, <2>3, StartsAndEnds, ListType
<1>5. IsEditList(e, s, Start, Starts(es[k + 1]))
  BY <1>2, <1>3, <1>4 DEF IsEditList, Tiles
<1> QED BY <1>2, <1>4, <1>5 DEF s

\* The list from its edit k + 1 on.
EditsFrom(es, k) == SubSeq(es, k + 1, Len(es))

LEMMA ListCutBehind ==
  ASSUME NEW e, NEW es, IsEditList(e, es, Start, End),
         NEW k \in Nat, 1 <= k, k <= Len(es), NEW i \in Nat, i <= Len(es) - k
  PROVE  /\ IsEditList(e, EditsFrom(es, k), Ends(es[k]), End)
         /\ Len(EditsFrom(es, k)) = Len(es) - k
         /\ i # 0 => EditsFrom(es, k)[i] = es[i + k]
         /\ Behind(EditsFrom(es, k), i, Ends(es[k])) = Behind(es, i + k, Start)
         /\ Ahead(EditsFrom(es, k), i, End) = Ahead(es, i + k, End)
<1> DEFINE s == SubSeq(es, k + 1, Len(es))
           l == Len(es)
<1>1. es \in Seq(SesEdits) /\ l \in Nat /\ \A n \in 1 .. l : es[n] \in SesEdits
  BY StartsAndEnds, ListType
<1>2. s \in Seq(SesEdits) /\ Len(s) = l - k /\ \A n \in 1 .. l - k : s[n] = es[n + k]
  <2>1. \A n \in k + 1 .. l : es[n] \in SesEdits
    BY <1>1
  <2>2. /\ s \in Seq(SesEdits)
        /\ Len(s) = IF k + 1 <= l THEN l - (k + 1) + 1 ELSE 0
        /\ \A n \in 1 .. l - (k + 1) + 1 : s[n] = es[(k + 1) + n - 1]
    BY <2>1, <1>1, SubSeqProperties
  <2>3. k \in 1 .. l
    BY <1>1
  <2> HIDE DEF s, l
  <2>4. Len(s) = l - k
    BY <2>2, <2>3, <1>1
  <2>5. \A n \in 1 .. l - k : s[n] = es[n + k]
    <3> SUFFICES ASSUME NEW n \in 1 .. l - k PROVE s[n] = es[n + k]
      OBVIOUS
    <3>1. n \in 1 .. l - (k + 1) + 1 /\ (k + 1) + n - 1 = n + k
      BY <2>3, <1>1
    <3> QED BY <3>1, <2>2
  <2> QED BY <2>2, <2>4, <2>5
<1>3. k \in 1 .. l
  BY <1>1
<1>4. Len(es) = l
  OBVIOUS
<1> HIDE DEF s, l
<1>5. \A n \in 1 .. Len(s) : WellFormed(s[n])
  <2> SUFFICES ASSUME NEW n \in 1 .. Len(s) PROVE WellFormed(s[n])
    OBVIOUS
  <2>1. n + k \in 1 .. l /\ s[n] = es[n + k]
    BY <1>1, <1>2, <1>3
  <2> QED BY <2>1, <1>4 DEF IsEditList
<1>6. ASSUME NEW n \in 0 .. Len(s)
      PROVE  /\ Common(e, Behind(s, n, Ends(es[k])), Ahead(s, n, End))
             /\ Behind(s, n, Ends(es[k])) = Behind(es, n + k, Start)
             /\ Ahead(s, n, End) = Ahead(es, n + k, End)
  <2>1. n + k \in 0 .. l
    BY <1>1, <1>2, <1>3
  <2>2. Behind(s, n, Ends(es[k])) = Behind(es, n + k, Start)
    BY <1>1, <1>2, <1>3 DEF Behind
  <2>3. Ahead(s, n, End) = Ahead(es, n + k, End)
    BY <1>1, <1>2, <1>3, <1>4 DEF Ahead
  <2> QED BY <2>1, <2>2, <2>3, <1>4, StartsAndEnds, ListType
<1>7. IsEditList(e, s, Ends(es[k]), End)
  BY <1>2, <1>5, <1>6 DEF IsEditList, Tiles
<1>8. i \in 0 .. Len(s) /\ (i # 0 => i \in 1 .. l - k)
  BY <1>1, <1>2, <1>3, <1>4
<1> QED BY <1>2, <1>4, <1>6, <1>7, <1>8 DEF s, EditsFrom

(***************************************************************************)
(* The list goes forward: nothing of it is before its beginning or behind  *)
(* its end.                                                                *)
(***************************************************************************)
LEMMA ListWithin ==
  ASSUME NEW e, NEW p \in Points, NEW q \in Points, NEW es, IsEditList(e, es, p, q)
  PROVE  \A n \in 0 .. Len(es) :
           /\ p.x <= Behind(es, n, p).x /\ p.y <= Behind(es, n, p).y
           /\ Behind(es, n, p).x <= Ahead(es, n, q).x /\ Behind(es, n, p).y <= Ahead(es, n, q).y
           /\ Ahead(es, n, q).x <= q.x /\ Ahead(es, n, q).y <= q.y
<1> DEFINE l == Len(es)
           B(n) == Behind(es, n, p)
           A(n) == Ahead(es, n, q)
           Begun(n) == p.x <= B(n).x /\ p.y <= B(n).y
           Ended(n) == A(n).x <= q.x /\ A(n).y <= q.y
<1>1. l \in Nat /\ p.x \in Nat /\ p.y \in Nat /\ q.x \in Nat /\ q.y \in Nat
  BY ListType DEF Points
<1>2. ASSUME NEW n \in Nat, n <= l
      PROVE  /\ B(n).x \in Nat /\ B(n).y \in Nat /\ A(n).x \in Nat /\ A(n).y \in Nat
             /\ B(n).x <= A(n).x /\ B(n).y <= A(n).y
  <2>1. n \in 0 .. Len(es)
    BY <1>1, <1>2
  <2>2. B(n) \in Points /\ A(n) \in Points /\ Common(e, B(n), A(n))
    BY <2>1, ListType
  <2> HIDE DEF A, B
  <2>3. B(n).x \in Nat /\ B(n).y \in Nat /\ A(n).x \in Nat /\ A(n).y \in Nat
    BY <2>2 DEF Points
  <2> QED BY <2>2, <2>3 DEF Common
<1>3. ASSUME NEW n \in Nat, n < l
      PROVE  A(n).x <= B(n + 1).x /\ A(n).y <= B(n + 1).y
  <2>1. n + 1 \in 1 .. Len(es) /\ n # Len(es) /\ n + 1 # 0
    BY <1>1, <1>3
  <2>2. A(n) = Starts(es[n + 1]) /\ B(n + 1) = Ends(es[n + 1])
    BY <2>1 DEF Behind, Ahead
  <2>3. es[n + 1] \in SesEdits
    BY <2>1, ListType
  <2> HIDE DEF A, B
  <2> QED BY <2>2, <2>3, EditPoints
<1>4. B(0) = p /\ A(l) = q
  BY DEF Behind, Ahead
<1> HIDE DEF A, B, l
<1>5. \A n \in Nat : n <= l => Begun(n)
  <2> DEFINE Bad == {n \in Nat : n <= l /\ ~ Begun(n)}
  <2>1. CASE Bad = {}
    BY <2>1
  <2>2. CASE Bad # {}
    <3>1. PICK n \in Bad : \A m \in Bad : n <= m
      <4>1. Bad \subseteq Nat
        OBVIOUS
      <4> HIDE DEF Bad
      <4> QED BY <2>2, <4>1, LeastElement
    <3>2. n \in Nat /\ n <= l /\ ~ Begun(n)
      OBVIOUS
    <3>3. n # 0
      BY <3>2, <1>1, <1>4
    <3>4. n - 1 \in Nat /\ n - 1 <= l /\ n - 1 < l /\ (n - 1) + 1 = n
      BY <3>2, <3>3, <1>1
    <3>5. ~ (n - 1 \in Bad)
      <4>1. ~ (n <= n - 1)
        BY <3>2
      <4> HIDE DEF Bad
      <4> QED BY <3>1, <4>1
    <3>6. Begun(n - 1)
      BY <3>4, <3>5
    <3>7. /\ B(n - 1).x \in Nat /\ B(n - 1).y \in Nat /\ A(n - 1).x \in Nat /\ A(n - 1).y \in Nat
          /\ B(n - 1).x <= A(n - 1).x /\ B(n - 1).y <= A(n - 1).y
      BY <3>4, <1>2
    <3>8. A(n - 1).x <= B(n).x /\ A(n - 1).y <= B(n).y
      BY <3>4, <1>3
    <3>9. B(n).x \in Nat /\ B(n).y \in Nat
      BY <3>2, <1>2
    <3>10. Begun(n)
      BY <3>6, <3>7, <3>8, <3>9, <1>1
    <3> QED BY <3>2, <3>10
  <2> QED BY <2>1, <2>2
<1>6. \A n \in Nat : n <= l => Ended(n)
  <2> DEFINE Bad == {m \in Nat : m <= l /\ ~ Ended(l - m)}
  <2>1. CASE Bad = {}
    <3>1. ASSUME NEW n \in Nat, n <= l PROVE Ended(n)
      <4>1. l - n \in Nat /\ l - n <= l /\ l - (l - n) = n
        BY <3>1, <1>1
      <4> QED BY <2>1, <4>1
    <3> QED BY <3>1
  <2>2. CASE Bad # {}
    <3>1. PICK m \in Bad : \A i \in Bad : m <= i
      <4>1. Bad \subseteq Nat
        OBVIOUS
      <4> HIDE DEF Bad
      <4> QED BY <2>2, <4>1, LeastElement
    <3> DEFINE n == l - m
    <3>2. m \in Nat /\ m <= l /\ ~ Ended(n)
      OBVIOUS
    <3>3. m # 0
      BY <3>2, <1>1, <1>4
    <3>4. /\ m - 1 \in Nat /\ m - 1 <= l /\ l - (m - 1) = n + 1
          /\ n \in Nat /\ n < l /\ n <= l /\ n + 1 \in Nat /\ n + 1 <= l
      BY <3>2, <3>3, <1>1
    <3>5. ~ (m - 1 \in Bad)
      <4>1. ~ (m <= m - 1)
        BY <3>2
      <4> HIDE DEF Bad
      <4> QED BY <3>1, <4>1
    <3>6. Ended(n + 1)
      BY <3>4, <3>5
    <3> HIDE DEF n
    <3>7. /\ B(n + 1).x \in Nat /\ B(n + 1).y \in Nat /\ A(n + 1).x \in Nat /\ A(n + 1).y \in Nat
          /\ B(n + 1).x <= A(n + 1).x /\ B(n + 1).y <= A(n + 1).y
      BY <3>4, <1>2
    <3>8. A(n).x <= B(n + 1).x /\ A(n).y <= B(n + 1).y
      BY <3>4, <1>3
    <3>9. A(n).x \in Nat /\ A(n).y \in Nat
      BY <3>4, <1>2
    <3>10. Ended(n)
      BY <3>6, <3>7, <3>8, <3>9, <1>1
    <3> QED BY <3>2, <3>10
  <2> QED BY <2>1, <2>2
<1>7. \A n \in 0 .. l : n \in Nat /\ n <= l
  BY <1>1
<1>8. \A n \in 0 .. l : Begun(n) /\ B(n).x <= A(n).x /\ B(n).y <= A(n).y /\ Ended(n)
  BY <1>2, <1>5, <1>6, <1>7
<1> QED BY <1>8 DEF A, B, l

-----------------------------------------------------------------------------
(***************************************************************************)
(* What takes the place of an edit leads from its beginning to its end and *)
(* covers everything between: no pair passes it.                           *)
(***************************************************************************)
Fills(e, es, from, to) ==
  /\ IsEditList(e, es, from, to)
  /\ \A z \in Pairs : ~ Passes(es, from, to, z)

LEMMA FillsConcat ==
  ASSUME NEW e, NEW p \in Points, NEW q \in Points, NEW r \in Points, NEW s, NEW t,
         Fills(e, s, p, q), Fills(e, t, q, r)
  PROVE  Fills(e, s \o t, p, r)
BY ListsConcat, PassesConcat DEF Fills

LEMMA NothingFills ==
  ASSUME NEW e, NEW p \in Points
  PROVE  Fills(e, <<>>, p, p)
<1>1. <<>> \in Seq(SesEdits) /\ Len(<<>>) = 0
  BY EmptySeq
<1>2. \A n \in 0 .. Len(<<>>) : n = 0 /\ Behind(<<>>, n, p) = p /\ Ahead(<<>>, n, p) = p
  BY <1>1 DEF Behind, Ahead
<1>3. p.x \in Int /\ p.y \in Int
  BY DEF Points
<1> QED BY <1>1, <1>2, <1>3, CommonNothing DEF Fills, IsEditList, Tiles, Passes

LEMMA EditFills ==
  ASSUME NEW e, NEW f \in SesEdits, WellFormed(f)
  PROVE  Fills(e, <<f>>, Starts(f), Ends(f))
<1> DEFINE s == <<f>>
<1>1. s \in Seq(SesEdits) /\ Len(s) = 1 /\ s[1] = f
  OBVIOUS
<1> HIDE DEF s
<1>2. \A n \in 0 .. Len(s) : n = 0 \/ n = 1
  BY <1>1
<1>3. /\ Behind(s, 0, Starts(f)) = Starts(f) /\ Ahead(s, 0, Ends(f)) = Starts(f)
      /\ Behind(s, 1, Starts(f)) = Ends(f) /\ Ahead(s, 1, Ends(f)) = Ends(f)
  BY <1>1 DEF Behind, Ahead
<1>4. /\ Starts(f) \in Points /\ Ends(f) \in Points
      /\ Starts(f).x \in Int /\ Ends(f).x \in Int
  BY EditPoints DEF Points
<1>5. Tiles(e, s, Starts(f), Ends(f))
  BY <1>2, <1>3, <1>4, CommonNothing DEF Tiles
<1>6. \A z \in Pairs : ~ Passes(s, Starts(f), Ends(f), z)
  <2>1. Starts(f).x .. Starts(f).x - 1 = {} /\ Ends(f).x .. Ends(f).x - 1 = {}
    BY <1>4
  <2> QED BY <2>1, <1>2, <1>3 DEF Passes
<1>7. \A n \in 1 .. Len(s) : WellFormed(s[n])
  BY <1>1
<1>8. Fills(e, s, Starts(f), Ends(f))
  BY <1>1, <1>5, <1>6, <1>7 DEF Fills, IsEditList
<1> QED BY <1>8 DEF s

LEMMA RestFills ==
  ASSUME NEW e, NEW from \in Points, NEW o \in Nat, NEW m \in Nat
  PROVE  Fills(e, Rest(from, o, m), from, Point(from.x + o, from.y + m))
<1>1. from.x \in Nat /\ from.y \in Nat /\ from = Point(from.x, from.y)
  BY DEF Points, Point
<1>2. CASE o = 0 /\ m = 0
  <2>1. Point(from.x + o, from.y + m) = from /\ Rest(from, o, m) = <<>>
    BY <1>1, <1>2 DEF Rest, Point
  <2> QED BY <2>1, NothingFills
<1>3. CASE ~ (o = 0 /\ m = 0)
  <2> DEFINE operation == IF o = 0 THEN "INSERT" ELSE IF m = 0 THEN "DELETE" ELSE "CHANGE"
             f == SesEdit(operation, from.x, o, from.y, m)
  <2>1. Rest(from, o, m) = <<f>>
    BY <1>3 DEF Rest
  <2>2. f \in SesEdits /\ WellFormed(f)
    BY <1>1, <1>3 DEF SesEdits, SesEdit, WellFormed
  <2>3. Starts(f) = from /\ Ends(f) = Point(from.x + o, from.y + m)
    BY <1>1 DEF SesEdit, Starts, Ends, Point
  <2> HIDE DEF f
  <2> QED BY <2>1, <2>2, <2>3, EditFills
<1> QED BY <1>2, <1>3

\* The offsets of a pair within an edit.
OffsetsIn(f) == [x : 0 .. f.original_length - 1, y : 0 .. f.modified_length - 1]

LEMMA SplitFills ==
  ASSUME NEW e, NEW f \in SesEdits, NEW n \in OffsetsIn(f)
  PROVE  Fills(e, SplitChange(f, n), Starts(f), Ends(f))
<1>1. /\ n.x \in Nat /\ n.y \in Nat
      /\ f.original_length - n.x - 1 \in Nat /\ f.modified_length - n.y - 1 \in Nat
  BY EditPoints DEF OffsetsIn
<1> DEFINE p == Point(f.original_offset + n.x, f.modified_offset + n.y)
           q == Along(p, 1)
           c == SesEdit("COMMON", p.x, 1, p.y, 1)
           left == Rest(Starts(f), n.x, n.y)
           right == Rest(q, f.original_length - n.x - 1, f.modified_length - n.y - 1)
<1>2. /\ p \in Points /\ q \in Points /\ c \in SesEdits /\ WellFormed(c)
      /\ Starts(c) = p /\ Ends(c) = q
  BY <1>1, EditPoints
     DEF Points, Point, Along, SesEdit, SesEdits, WellFormed, Starts, Ends
<1>3. Point(Starts(f).x + n.x, Starts(f).y + n.y) = p
  BY EditPoints
<1>4. Point(q.x + (f.original_length - n.x - 1), q.y + (f.modified_length - n.y - 1)) = Ends(f)
  BY <1>1, EditPoints DEF Along, Ends, Point
<1>5. Starts(f) \in Points /\ Ends(f) \in Points
  BY EditPoints
<1>6. SplitChange(f, n) = (left \o <<c>>) \o right
  BY DEF SplitChange
<1> HIDE DEF p, q, c
<1>7. Fills(e, left, Starts(f), p)
  BY <1>1, <1>3, <1>5, RestFills
<1>8. Fills(e, <<c>>, p, q)
  BY <1>2, EditFills
<1>9. Fills(e, right, q, Ends(f))
  BY <1>1, <1>2, <1>4, RestFills
<1>10. Fills(e, left \o <<c>>, Starts(f), q)
  BY <1>2, <1>5, <1>7, <1>8, FillsConcat
<1>11. Fills(e, (left \o <<c>>) \o right, Starts(f), Ends(f))
  BY <1>2, <1>5, <1>9, <1>10, FillsConcat
<1> QED BY <1>6, <1>11

(***************************************************************************)
(* correct_common_inner finds a pair when there is one: a nonempty set of  *)
(* offsets has a first one.                                                *)
(***************************************************************************)
LEMMA FirstOffset ==
  ASSUME NEW T, T # {}, \A n \in T : n.x \in Nat /\ n.y \in Nat
  PROVE  \E n \in T : \A m \in T : n.x < m.x \/ (n.x = m.x /\ n.y <= m.y)
<1> DEFINE X == {n.x : n \in T}
<1>1. X \subseteq Nat /\ X # {}
  OBVIOUS
<1>2. PICK x \in X : \A y \in X : x <= y
  <2> HIDE DEF X
  <2> QED BY <1>1, LeastElement
<1> DEFINE Y == {n.y : n \in {m \in T : m.x = x}}
<1>3. Y \subseteq Nat /\ Y # {}
  OBVIOUS
<1>4. PICK y \in Y : \A z \in Y : y <= z
  <2> HIDE DEF Y
  <2> QED BY <1>3, LeastElement
<1>5. PICK n \in T : n.x = x /\ n.y = y
  OBVIOUS
<1>6. ASSUME NEW m \in T
      PROVE  n.x < m.x \/ (n.x = m.x /\ n.y <= m.y)
  <2>1. m.x \in X /\ (m.x = x => m.y \in Y)
    OBVIOUS
  <2>2. x <= m.x /\ (m.x = x => y <= m.y)
    BY <2>1, <1>2, <1>4
  <2>3. x \in Nat /\ m.x \in Nat
    OBVIOUS
  <2> HIDE DEF X, Y
  <2> QED BY <2>2, <2>3, <1>5
<1> QED BY <1>6

LEMMA CorrectionFills ==
  ASSUME NEW e, NEW f \in SesEdits, WellFormed(f)
  PROVE  Fills(e, CorrectCommonInner(e, f), Starts(f), Ends(f))
<1> DEFINE pairs == {n \in OffsetsIn(f) :
                       <<f.original_offset + n.x, f.modified_offset + n.y>> \in e}
           First(n) == \A m \in pairs : n.x < m.x \/ (n.x = m.x /\ n.y <= m.y)
           first == CHOOSE n \in pairs : First(n)
<1>1. CASE f.operation # "CHANGE" \/ pairs = {}
  <2>1. CorrectCommonInner(e, f) = <<f>>
    BY <1>1 DEF CorrectCommonInner, OffsetsIn
  <2> QED BY <2>1, EditFills
<1>2. CASE ~ (f.operation # "CHANGE" \/ pairs = {})
  <2>1. CorrectCommonInner(e, f) = SplitChange(f, first)
    BY <1>2 DEF CorrectCommonInner, OffsetsIn
  <2>2. \E n \in pairs : First(n)
    <3>1. \A n \in pairs : n.x \in Nat /\ n.y \in Nat
      BY EditPoints DEF OffsetsIn
    <3> HIDE DEF pairs
    <3> QED BY <3>1, <1>2, FirstOffset
  <2>3. first \in pairs
    <3> HIDE DEF pairs, First
    <3> QED BY <2>2
  <2>4. first \in OffsetsIn(f)
    BY <2>3
  <2> HIDE DEF first
  <2> QED BY <2>1, <2>4, SplitFills
<1> QED BY <1>1, <1>2

-----------------------------------------------------------------------------
(***************************************************************************)
(* Breaking two edits up.                                                  *)
(***************************************************************************)
LEMMA SubjectSpans ==
  ASSUME NEW r, NEW e \in SesEdits, NEW f \in SesEdits, WellFormed(e), WellFormed(f),
         IsCandidate(e, f), Common(r, Ends(e), Starts(f))
  PROVE  /\ Subject(e, f) \in SesEdits
         /\ Starts(Subject(e, f)) = Starts(e) /\ Ends(Subject(e, f)) = Ends(f)
         /\ Subject(e, f).original_length = e.original_length + 1 + f.original_length
         /\ Subject(e, f).modified_length = e.modified_length + 1 + f.modified_length
         /\ Starts(f).x = Ends(e).x + 1 /\ Starts(f).y = Ends(e).y + 1
         /\ Between(e) = Point(e.original_length, e.modified_length)
<1>1. /\ e.original_offset \in Nat /\ e.original_length \in Nat
      /\ e.modified_offset \in Nat /\ e.modified_length \in Nat
      /\ f.original_offset \in Nat /\ f.original_length \in Nat
      /\ f.modified_offset \in Nat /\ f.modified_length \in Nat
  BY EditPoints
<1>2. /\ e.operation = "INSERT" => e.original_length = 0
      /\ e.operation = "DELETE" => e.modified_length = 0
      /\ e.operation \in {"DELETE", "CHANGE"} \/ e.original_length = 0
  BY DEF WellFormed, IsCandidate
<1>3. f.original_offset = e.original_offset + e.original_length + 1
  BY <1>1, <1>2 DEF IsCandidate, Gap
<1>4. f.modified_offset = e.modified_offset + e.modified_length + 1
  <2>1. /\ Ends(e).x = e.original_offset + e.original_length
        /\ Ends(e).y = e.modified_offset + e.modified_length
        /\ Starts(f).x = f.original_offset /\ Starts(f).y = f.modified_offset
    BY EditPoints
  <2>2. Starts(f).x - Ends(e).x = Starts(f).y - Ends(e).y
    BY DEF Common
  <2> QED BY <2>1, <2>2, <1>1, <1>3
<1>5. Subject(e, f) = SesEdit("CHANGE", e.original_offset, e.original_length + 1 + f.original_length,
                              e.modified_offset, e.modified_length + 1 + f.modified_length)
  <2>1. (IF e.operation = "INSERT" THEN f.original_offset - 1 ELSE e.original_offset)
           = e.original_offset
    BY <1>1, <1>2, <1>3
  <2>2. (IF e.operation = "DELETE" THEN f.modified_offset - 1 ELSE e.modified_offset)
           = e.modified_offset
    BY <1>1, <1>2, <1>4
  <2>3. /\ (IF e.operation = "INSERT" THEN 0 ELSE e.original_length) = e.original_length
        /\ (IF e.operation = "DELETE" THEN 0 ELSE e.modified_length) = e.modified_length
    BY <1>2
  <2> QED BY <2>1, <2>2, <2>3 DEF Subject
<1>6. Subject(e, f) \in SesEdits
  BY <1>1, <1>5 DEF SesEdits, SesEdit
<1>7. /\ Subject(e, f).original_length = e.original_length + 1 + f.original_length
      /\ Subject(e, f).modified_length = e.modified_length + 1 + f.modified_length
      /\ Subject(e, f).original_offset = e.original_offset
      /\ Subject(e, f).modified_offset = e.modified_offset
  BY <1>5 DEF SesEdit
<1>8. Starts(Subject(e, f)) = Starts(e)
  BY <1>7 DEF Starts
<1>9. Ends(Subject(e, f)) = Ends(f)
  <2>1. /\ e.original_offset + (e.original_length + 1 + f.original_length)
              = f.original_offset + f.original_length
        /\ e.modified_offset + (e.modified_length + 1 + f.modified_length)
              = f.modified_offset + f.modified_length
    BY <1>1, <1>3, <1>4
  <2> QED BY <2>1, <1>7 DEF Ends
<1>10. Starts(f).x = Ends(e).x + 1 /\ Starts(f).y = Ends(e).y + 1
  BY <1>1, <1>3, <1>4, EditPoints
<1>11. Between(e) = Point(e.original_length, e.modified_length)
  BY <1>2 DEF Between
<1> QED BY <1>6, <1>7, <1>8, <1>9, <1>10, <1>11

InARow(a, b, c) == <<a>> \o <<b>> \o <<c>>

LEMMA ThreeInARow ==
  ASSUME NEW a, NEW b, NEW c
  PROVE  InARow(a, b, c)[1] = a /\ InARow(a, b, c)[2] = b /\ InARow(a, b, c)[3] = c
<1> DEFINE S == {a, b, c}
<1>1. /\ <<a>> \in Seq(S) /\ <<b>> \in Seq(S) /\ <<c>> \in Seq(S)
      /\ Len(<<a>>) = 1 /\ Len(<<b>>) = 1 /\ Len(<<c>>) = 1
      /\ <<a>>[1] = a /\ <<b>>[1] = b /\ <<c>>[1] = c
  OBVIOUS
<1> DEFINE r == <<a>> \o <<b>>
<1> HIDE DEF S
<1>2. r \in Seq(S) /\ Len(r) = 2 /\ r[1] = a /\ r[2] = b
  BY <1>1, ConcatProperties
<1> HIDE DEF r
<1>3. (r \o <<c>>)[1] = a /\ (r \o <<c>>)[2] = b /\ (r \o <<c>>)[3] = c
  BY <1>1, <1>2, ConcatProperties
<1> QED BY <1>3 DEF r, InARow

\* A pair across the common construct leaves something to change on both sides.
LEMMA AcrossSplits ==
  ASSUME NEW r, NEW e \in SesEdits, NEW f \in SesEdits, WellFormed(e), WellFormed(f),
         IsCandidate(e, f), Common(r, Ends(e), Starts(f)), NEW n \in Across(e, f)
  PROVE  LET split == SplitChange(Subject(e, f), n)
         IN  /\ split[1] \in SesEdits /\ WellFormed(split[1])
             /\ split[2] \in SesEdits /\ WellFormed(split[2]) /\ split[2].operation = "COMMON"
             /\ split[3] \in SesEdits /\ WellFormed(split[3])
             /\ Starts(split[1]) = Starts(e) /\ Ends(split[1]) = Starts(split[2])
             /\ Ends(split[2]) = Starts(split[3]) /\ Ends(split[3]) = Ends(f)
<1> DEFINE g == Subject(e, f)
           p == Point(g.original_offset + n.x, g.modified_offset + n.y)
           q == Along(p, 1)
           o == g.original_length - n.x - 1
           m == g.modified_length - n.y - 1
           Kind(i, j) == IF i = 0 THEN "INSERT" ELSE IF j = 0 THEN "DELETE" ELSE "CHANGE"
           left == SesEdit(Kind(n.x, n.y), Starts(g).x, n.x, Starts(g).y, n.y)
           c == SesEdit("COMMON", p.x, 1, p.y, 1)
           right == SesEdit(Kind(o, m), q.x, o, q.y, m)
<1>1. /\ g \in SesEdits /\ Starts(g) = Starts(e) /\ Ends(g) = Ends(f)
      /\ g.original_length = e.original_length + 1 + f.original_length
      /\ g.modified_length = e.modified_length + 1 + f.modified_length
      /\ Between(e) = Point(e.original_length, e.modified_length)
  BY SubjectSpans
<1>2. /\ g.original_offset \in Nat /\ g.original_length \in Nat
      /\ g.modified_offset \in Nat /\ g.modified_length \in Nat
      /\ Starts(g) = Point(g.original_offset, g.modified_offset)
      /\ Ends(g) = Point(g.original_offset + g.original_length, g.modified_offset + g.modified_length)
  BY <1>1, EditPoints DEF Starts, Ends
<1>3. /\ e.original_length \in Nat /\ e.modified_length \in Nat
      /\ f.original_length \in Nat /\ f.modified_length \in Nat
  BY EditPoints
<1>4. /\ n.x \in 0 .. g.original_length - 1 /\ n.y \in 0 .. g.modified_length - 1
      /\ \/ n.x < Between(e).x /\ n.y > Between(e).y
         \/ n.x > Between(e).x /\ n.y < Between(e).y
  BY DEF Across
<1> HIDE DEF g
<1>5. /\ n.x \in Nat /\ n.y \in Nat /\ o \in Nat /\ m \in Nat
  BY <1>2, <1>4
<1>6. /\ \/ n.x < e.original_length /\ n.y > e.modified_length
         \/ n.x > e.original_length /\ n.y < e.modified_length
  BY <1>1, <1>4 DEF Point
<1>7. ~ (n.x = 0 /\ n.y = 0) /\ ~ (o = 0 /\ m = 0)
  BY <1>1, <1>3, <1>5, <1>6
<1>8. SplitChange(g, n) = <<left>> \o <<c>> \o <<right>>
  BY <1>7 DEF SplitChange, Rest
<1>9. /\ SplitChange(g, n)[1] = left /\ SplitChange(g, n)[2] = c /\ SplitChange(g, n)[3] = right
  <2> HIDE DEF left, c, right
  <2>1. SplitChange(g, n) = InARow(left, c, right)
    BY <1>8 DEF InARow
  <2> QED BY <2>1, ThreeInARow
<1>10. /\ left \in SesEdits /\ WellFormed(left) /\ Starts(left) = Starts(g) /\ Ends(left) = p
  BY <1>2, <1>5, <1>7 DEF SesEdit, SesEdits, WellFormed, Starts, Ends, Point
<1>11. /\ c \in SesEdits /\ WellFormed(c) /\ c.operation = "COMMON" /\ Starts(c) = p /\ Ends(c) = q
  BY <1>2, <1>5 DEF SesEdit, SesEdits, WellFormed, Starts, Ends, Point, Along
<1>12. /\ right \in SesEdits /\ WellFormed(right) /\ Starts(right) = q /\ Ends(right) = Ends(g)
  <2>1. q.x = g.original_offset + n.x + 1 /\ q.y = g.modified_offset + n.y + 1
    BY DEF Along, Point
  <2>2. q.x \in Nat /\ q.y \in Nat /\ q = Point(q.x, q.y)
    BY <2>1, <1>2, <1>5 DEF Along, Point
  <2>3. q.x + o = g.original_offset + g.original_length /\ q.y + m = g.modified_offset + g.modified_length
    BY <2>1, <1>2, <1>4
  <2> HIDE DEF q, o, m
  <2> QED BY <2>2, <2>3, <1>2, <1>5, <1>7
          DEF SesEdit, SesEdits, WellFormed, Starts, Ends, Point
<1> HIDE DEF left, c, right
<1> QED BY <1>1, <1>9, <1>10, <1>11, <1>12 DEF g

\* The list up to the two edits, and from there.
EditsBefore(es, k) == SubSeq(es, 1, k - 1)
EditsBehind(es, k) == SubSeq(es, k + 2, Len(es))

LEMMA ListApart ==
  ASSUME NEW r, NEW es, IsEditList(r, es, Start, End), NEW k \in Nat, 1 <= k, k < Len(es)
  PROVE  /\ es[k] \in SesEdits /\ WellFormed(es[k])
         /\ es[k + 1] \in SesEdits /\ WellFormed(es[k + 1])
         /\ Common(r, Ends(es[k]), Starts(es[k + 1]))
         /\ IsEditList(r, EditsBefore(es, k), Start, Starts(es[k]))
         /\ Len(EditsBefore(es, k)) = k - 1
         /\ \A n \in 1 .. k - 1 : EditsBefore(es, k)[n] = es[n]
         /\ \A n \in 0 .. k - 1 : /\ Behind(EditsBefore(es, k), n, Start) = Behind(es, n, Start)
                                /\ Ahead(EditsBefore(es, k), n, Starts(es[k])) = Ahead(es, n, End)
         /\ IsEditList(r, EditsBehind(es, k), Ends(es[k + 1]), End)
         /\ Len(EditsBehind(es, k)) = Len(es) - (k + 1)
         /\ \A n \in 1 .. Len(es) - (k + 1) : EditsBehind(es, k)[n] = es[n + (k + 1)]
         /\ \A n \in 0 .. Len(es) - (k + 1) :
              /\ Behind(EditsBehind(es, k), n, Ends(es[k + 1])) = Behind(es, n + (k + 1), Start)
              /\ Ahead(EditsBehind(es, k), n, End) = Ahead(es, n + (k + 1), End)
<1>1. Len(es) \in Nat
  BY StartsAndEnds, ListType
<1>2. k \in 1 .. Len(es) /\ k + 1 \in 1 .. Len(es) /\ k \in 0 .. Len(es) /\ k # Len(es) /\ k # 0
  BY <1>1
<1>3. /\ es[k] \in SesEdits /\ WellFormed(es[k])
      /\ es[k + 1] \in SesEdits /\ WellFormed(es[k + 1])
  BY <1>2, StartsAndEnds, ListType
<1>4. Common(r, Ends(es[k]), Starts(es[k + 1]))
  <2>1. Behind(es, k, Start) = Ends(es[k]) /\ Ahead(es, k, End) = Starts(es[k + 1])
    BY <1>2 DEF Behind, Ahead
  <2> QED BY <2>1, <1>2, StartsAndEnds, ListType
<1> DEFINE j == k - 1
           l == k + 1
<1>5. j \in Nat /\ j < Len(es) /\ j + 1 = k
  BY <1>1
<1>6. l \in Nat /\ 1 <= l /\ l <= Len(es) /\ l + 1 = k + 2
  BY <1>1, <1>2
<1>7. EditsBefore(es, k) = SubSeq(es, 1, j) /\ EditsBehind(es, k) = EditsFrom(es, l)
  BY <1>6 DEF EditsBefore, EditsBehind, EditsFrom
<1> HIDE DEF j, l
<1>8. /\ IsEditList(r, SubSeq(es, 1, j), Start, Starts(es[j + 1]))
      /\ Len(SubSeq(es, 1, j)) = j
      /\ \A n \in 1 .. j : SubSeq(es, 1, j)[n] = es[n]
      /\ \A n \in 0 .. j : /\ Behind(SubSeq(es, 1, j), n, Start) = Behind(es, n, Start)
                         /\ Ahead(SubSeq(es, 1, j), n, Starts(es[j + 1])) = Ahead(es, n, End)
  BY <1>5, StartsAndEnds, ListCutBefore
<1>9. /\ IsEditList(r, EditsFrom(es, l), Ends(es[l]), End)
      /\ Len(EditsFrom(es, l)) = Len(es) - l
      /\ \A n \in 1 .. Len(es) - l : EditsFrom(es, l)[n] = es[n + l]
      /\ \A n \in 0 .. Len(es) - l :
           /\ Behind(EditsFrom(es, l), n, Ends(es[l])) = Behind(es, n + l, Start)
           /\ Ahead(EditsFrom(es, l), n, End) = Ahead(es, n + l, End)
  <2>1. ASSUME NEW n \in Nat, n <= Len(es) - l
        PROVE  /\ IsEditList(r, EditsFrom(es, l), Ends(es[l]), End)
               /\ Len(EditsFrom(es, l)) = Len(es) - l
               /\ n # 0 => EditsFrom(es, l)[n] = es[n + l]
               /\ Behind(EditsFrom(es, l), n, Ends(es[l])) = Behind(es, n + l, Start)
               /\ Ahead(EditsFrom(es, l), n, End) = Ahead(es, n + l, End)
    BY <2>1, <1>1, <1>6, ListCutBehind
  <2>2. 0 \in Nat /\ 0 <= Len(es) - l
    BY <1>1, <1>6
  <2>3. \A n \in 0 .. Len(es) - l : n \in Nat /\ n <= Len(es) - l
    BY <1>1, <1>6
  <2>4. \A n \in 1 .. Len(es) - l : n \in Nat /\ n <= Len(es) - l /\ n # 0
    BY <1>1, <1>6
  <2> QED BY <2>1, <2>2, <2>3, <2>4
<1>10. /\ IsEditList(r, EditsBefore(es, k), Start, Starts(es[k]))
       /\ Len(EditsBefore(es, k)) = j
       /\ \A n \in 1 .. j : EditsBefore(es, k)[n] = es[n]
       /\ \A n \in 0 .. j : /\ Behind(EditsBefore(es, k), n, Start) = Behind(es, n, Start)
                          /\ Ahead(EditsBefore(es, k), n, Starts(es[k])) = Ahead(es, n, End)
  BY <1>5, <1>7, <1>8, Zenon
<1>11. /\ IsEditList(r, EditsBehind(es, k), Ends(es[l]), End)
       /\ Len(EditsBehind(es, k)) = Len(es) - l
       /\ \A n \in 1 .. Len(es) - l : EditsBehind(es, k)[n] = es[n + l]
       /\ \A n \in 0 .. Len(es) - l :
            /\ Behind(EditsBehind(es, k), n, Ends(es[l])) = Behind(es, n + l, Start)
            /\ Ahead(EditsBehind(es, k), n, End) = Ahead(es, n + l, End)
  BY <1>7, <1>9, Zenon
<1> QED BY <1>3, <1>4, <1>10, <1>11 DEF j, l

\* The pairs that pass the list: the one between the two edits, and those that
\* pass the edits before and the edits behind.
LEMMA PassesApart ==
  ASSUME NEW r, NEW es, IsEditList(r, es, Start, End), NEW k \in Nat, 1 <= k, k < Len(es),
         IsCandidate(es[k], es[k + 1]), NEW z \in Pairs
  PROVE  Passes(es, Start, End, z) <=>
           \/ Passes(EditsBefore(es, k), Start, Starts(es[k]), z)
           \/ z = <<Ends(es[k]).x, Ends(es[k]).y>>
           \/ Passes(EditsBehind(es, k), Ends(es[k + 1]), End, z)
<1> DEFINE On(from, to) == z[1] - from.x = z[2] - from.y /\ z[1] \in from.x .. to.x - 1
           l == Len(es)
           A == EditsBefore(es, k)
           B == EditsBehind(es, k)
           e == es[k]
           f == es[k + 1]
<1>1. l \in Nat /\ 1 <= k /\ k < l
  BY StartsAndEnds, ListType
<1>2. Len(A) = k - 1 /\ Len(B) = l - (k + 1)
  BY ListApart
<1>3. \A n \in 0 .. k - 1 : Behind(A, n, Start) = Behind(es, n, Start)
                          /\ Ahead(A, n, Starts(e)) = Ahead(es, n, End)
  BY ListApart
<1>4. \A n \in 0 .. l - (k + 1) : /\ Behind(B, n, Ends(f)) = Behind(es, n + (k + 1), Start)
                               /\ Ahead(B, n, End) = Ahead(es, n + (k + 1), End)
  BY ListApart
<1>5. Behind(es, k, Start) = Ends(e) /\ Ahead(es, k, End) = Starts(f)
  BY <1>1 DEF Behind, Ahead
<1>6. On(Ends(e), Starts(f)) <=> z = <<Ends(e).x, Ends(e).y>>
  <2>1. /\ e \in SesEdits /\ f \in SesEdits /\ WellFormed(e) /\ WellFormed(f)
        /\ IsCandidate(e, f) /\ Common(r, Ends(e), Starts(f))
    BY ListApart
  <2> HIDE DEF e, f
  <2>2. Starts(f).x = Ends(e).x + 1
    BY <2>1, SubjectSpans
  <2>3. Ends(e).x \in Nat /\ Ends(e).y \in Nat
    <3>1. Ends(e) \in Points
      BY <2>1, EditPoints
    <3> QED BY <3>1 DEF Points
  <2>4. z[1] \in Nat /\ z[2] \in Nat /\ z = <<z[1], z[2]>>
    BY DEF Pairs
  <2>5. On(Ends(e), Starts(f)) <=> z[1] = Ends(e).x /\ z[2] = Ends(e).y
    <3> DEFINE ex == Ends(e).x
               ey == Ends(e).y
               zx == z[1]
    <3>1. ex \in Nat /\ zx \in Nat /\ Starts(f).x = ex + 1
      BY <2>2, <2>3, <2>4
    <3>2. zx \in ex .. Starts(f).x - 1 <=> zx = ex
      <4> HIDE DEF ex, zx
      <4> QED BY <3>1
    <3>3. On(Ends(e), Starts(f)) <=> zx = ex /\ zx - ex = z[2] - ey
      BY <3>2
    <3>4. ey \in Nat /\ z[2] \in Nat
      BY <2>3, <2>4
    <3>5. zx = ex => (zx - ex = z[2] - ey <=> z[2] = ey)
      <4> DEFINE zy == z[2]
      <4> HIDE DEF ex, zx, ey, zy
      <4>1. zx = ex => (zx - ex = zy - ey <=> zy = ey)
        BY <3>1, <3>4 DEF zy
      <4> QED BY <4>1 DEF zy
    <3> QED BY <3>3, <3>5
  <2> QED BY <2>4, <2>5
<1>7. /\ Passes(es, Start, End, z) <=> \E n \in 0 .. l : On(Behind(es, n, Start), Ahead(es, n, End))
      /\ Passes(A, Start, Starts(e), z)
           <=> \E n \in 0 .. k - 1 : On(Behind(A, n, Start), Ahead(A, n, Starts(e)))
      /\ Passes(B, Ends(f), End, z)
           <=> \E n \in 0 .. l - (k + 1) : On(Behind(B, n, Ends(f)), Ahead(B, n, End))
  BY <1>2 DEF Passes
<1> DEFINE z0 == <<Ends(e).x, Ends(e).y>>
<1> HIDE DEF On, l, A, B, e, f
<1>8. ASSUME NEW n \in 0 .. l, On(Behind(es, n, Start), Ahead(es, n, End))
      PROVE  Passes(A, Start, Starts(e), z) \/ z = z0 \/ Passes(B, Ends(f), End, z)
  <2>1. n \in 0 .. k - 1 \/ n = k \/ (n - (k + 1) \in 0 .. l - (k + 1) /\ (n - (k + 1)) + (k + 1) = n)
    BY <1>1
  <2>2. CASE n \in 0 .. k - 1
    BY <2>2, <1>3, <1>7, <1>8
  <2>3. CASE n = k
    BY <2>3, <1>5, <1>6, <1>8
  <2>4. CASE n - (k + 1) \in 0 .. l - (k + 1) /\ (n - (k + 1)) + (k + 1) = n
    <3>1. PICK m \in 0 .. l - (k + 1) : m + (k + 1) = n
      BY <2>4
    <3> QED BY <3>1, <1>4, <1>7, <1>8
  <2> QED BY <2>1, <2>2, <2>3, <2>4
<1>9. ASSUME NEW n \in 0 .. k - 1, On(Behind(A, n, Start), Ahead(A, n, Starts(e)))
      PROVE  Passes(es, Start, End, z)
  <2>1. n \in 0 .. l
    BY <1>1
  <2> QED BY <2>1, <1>3, <1>7, <1>9
<1>10. ASSUME z = z0 PROVE Passes(es, Start, End, z)
  <2>1. k \in 0 .. l
    BY <1>1
  <2> QED BY <2>1, <1>5, <1>6, <1>7, <1>10
<1>11. ASSUME NEW n \in 0 .. l - (k + 1), On(Behind(B, n, Ends(f)), Ahead(B, n, End))
       PROVE  Passes(es, Start, End, z)
  <2>1. n + (k + 1) \in 0 .. l
    BY <1>1
  <2> QED BY <2>1, <1>4, <1>7, <1>11
<1> QED BY <1>7, <1>8, <1>9, <1>10, <1>11 DEF A, B, e, f

\* The broken list: it leads from corner to corner, holds the pair, and nothing
\* passes what has taken the place of the two edits.
LEMMA BrokenLeads ==
  ASSUME NEW r, NEW es, IsEditList(r, es, Start, End), NEW k \in Nat, 1 <= k, k < Len(es),
         IsCandidate(es[k], es[k + 1]), NEW n \in Across(es[k], es[k + 1])
  PROVE  /\ IsEditList(r, Broken(r, es, k, n), Start, End)
         /\ Len(Broken(r, es, k, n)) - (Len(es) - k - 1) \in Nat \ {0}
         /\ \E m \in 1 .. Len(Broken(r, es, k, n)) :
              Broken(r, es, k, n)[m] = SplitChange(Subject(es[k], es[k + 1]), n)[2]
         /\ \A z \in Pairs :
              Passes(Broken(r, es, k, n), Start, End, z) <=>
                \/ Passes(EditsBefore(es, k), Start, Starts(es[k]), z)
                \/ Passes(EditsBehind(es, k), Ends(es[k + 1]), End, z)
<1> DEFINE e == es[k]
           f == es[k + 1]
           split == SplitChange(Subject(e, f), n)
           a == split[1]
           c == split[2]
           b == split[3]
           A == EditsBefore(es, k)
           B == EditsBehind(es, k)
           X == CorrectCommonInner(r, a)
           Y == CorrectCommonInner(r, b)
           L1 == A \o X
           L2 == L1 \o <<c>>
           L3 == L2 \o Y
           L4 == L3 \o B
<1>1. /\ e \in SesEdits /\ WellFormed(e) /\ f \in SesEdits /\ WellFormed(f)
      /\ Common(r, Ends(e), Starts(f)) /\ IsCandidate(e, f) /\ n \in Across(e, f)
  BY ListApart
<1>2. /\ IsEditList(r, A, Start, Starts(e)) /\ Len(A) = k - 1
      /\ IsEditList(r, B, Ends(f), End) /\ Len(B) = Len(es) - (k + 1)
  BY ListApart
<1>3. Len(es) \in Nat
  BY StartsAndEnds, ListType
<1>4. Broken(r, es, k, n) = L4
  BY DEF Broken, EditsBefore, EditsBehind
<1> HIDE DEF e, f, A, B
<1>5. /\ a \in SesEdits /\ WellFormed(a) /\ c \in SesEdits /\ WellFormed(c)
      /\ b \in SesEdits /\ WellFormed(b)
      /\ Starts(a) = Starts(e) /\ Ends(a) = Starts(c)
      /\ Ends(c) = Starts(b) /\ Ends(b) = Ends(f)
  BY <1>1, AcrossSplits
<1> HIDE DEF split, a, b, c
<1>6. /\ Starts(e) \in Points /\ Starts(c) \in Points /\ Ends(c) \in Points /\ Ends(f) \in Points
      /\ Start \in Points /\ End \in Points
  BY <1>1, <1>5, EditPoints, StartsAndEnds
<1>7. Fills(r, X, Starts(e), Starts(c))
  BY <1>5, CorrectionFills
<1>8. Fills(r, <<c>>, Starts(c), Ends(c))
  BY <1>5, EditFills
<1>9. Fills(r, Y, Ends(c), Ends(f))
  BY <1>5, CorrectionFills
<1> HIDE DEF X, Y
<1>10. /\ IsEditList(r, X, Starts(e), Starts(c)) /\ IsEditList(r, <<c>>, Starts(c), Ends(c))
       /\ IsEditList(r, Y, Ends(c), Ends(f))
  BY <1>7, <1>8, <1>9 DEF Fills
<1>11. IsEditList(r, L1, Start, Starts(c))
  BY <1>2, <1>6, <1>10, ListsConcat
<1> HIDE DEF L1
<1>12. IsEditList(r, L2, Start, Ends(c))
  BY <1>6, <1>10, <1>11, ListsConcat
<1> HIDE DEF L2
<1>13. IsEditList(r, L3, Start, Ends(f))
  BY <1>6, <1>10, <1>12, ListsConcat
<1> HIDE DEF L3
<1>14. IsEditList(r, L4, Start, End)
  BY <1>2, <1>6, <1>13, ListsConcat
<1>15. /\ A \in Seq(SesEdits) /\ X \in Seq(SesEdits) /\ <<c>> \in Seq(SesEdits)
       /\ Y \in Seq(SesEdits) /\ B \in Seq(SesEdits)
       /\ L1 \in Seq(SesEdits) /\ L2 \in Seq(SesEdits) /\ L3 \in Seq(SesEdits)
       /\ Len(X) \in Nat /\ Len(Y) \in Nat
  BY <1>2, <1>10, <1>11, <1>12, <1>13, LenProperties DEF IsEditList
<1>16. Len(<<c>>) = 1 /\ <<c>>[1] = c
  OBVIOUS
<1>17. Len(L1) = Len(A) + Len(X)
  BY <1>15, ConcatProperties DEF L1
<1>18. Len(L2) = Len(L1) + 1 /\ L2[Len(L1) + 1] = c
  <2> DEFINE m == Len(L1) + 1
  <2>1. /\ Len(L1) \in Nat /\ m \in 1 .. Len(L1) + Len(<<c>>)
        /\ ~ (m <= Len(L1)) /\ m - Len(L1) = 1
    BY <1>15, <1>16, LenProperties
  <2> HIDE DEF m
  <2>2. L2[m] = c
    BY <2>1, <1>15, <1>16, ConcatProperties DEF L2
  <2>3. Len(L2) = Len(L1) + 1
    BY <1>15, <1>16, ConcatProperties DEF L2
  <2> QED BY <2>2, <2>3 DEF m
<1>19. /\ Len(L3) = Len(L2) + Len(Y)
       /\ \A i \in 1 .. Len(L2) + Len(Y) : i <= Len(L2) => L3[i] = L2[i]
  BY <1>15, ConcatProperties DEF L3
<1>20. /\ Len(L4) = Len(L3) + Len(B)
       /\ \A i \in 1 .. Len(L3) + Len(B) : i <= Len(L3) => L4[i] = L3[i]
  BY <1>15, ConcatProperties
<1> HIDE DEF L4
<1> DEFINE m == Len(A) + Len(X) + 1
<1>21. /\ m \in 1 .. Len(L4) /\ m = Len(L1) + 1 /\ m \in 1 .. Len(L3) + Len(B)
       /\ m \in 1 .. Len(L2) + Len(Y) /\ m <= Len(L2) /\ m <= Len(L3)
       /\ Len(L4) - (Len(es) - k - 1) \in Nat \ {0}
  <2>1. /\ Len(A) \in Nat /\ Len(B) \in Nat /\ Len(A) = k - 1 /\ Len(B) = Len(es) - (k + 1)
        /\ Len(L1) \in Nat /\ Len(es) \in Nat
    BY <1>2, <1>3, <1>15, LenProperties
  <2>2. /\ Len(L4) = Len(L3) + Len(B) /\ Len(L3) = Len(L2) + Len(Y) /\ Len(L2) = Len(L1) + 1
        /\ Len(L1) = Len(A) + Len(X) /\ Len(X) \in Nat /\ Len(Y) \in Nat
    BY <1>15, <1>17, <1>18, <1>19, <1>20
  <2> DEFINE l1 == Len(L1)
             l2 == Len(L2)
             l3 == Len(L3)
             l4 == Len(L4)
             x == Len(X)
             y == Len(Y)
             v == Len(A)
             w == Len(B)
             n0 == Len(es)
  <2>3. /\ v \in Nat /\ w \in Nat /\ v = k - 1 /\ w = n0 - (k + 1) /\ l1 \in Nat /\ n0 \in Nat
        /\ l4 = l3 + w /\ l3 = l2 + y /\ l2 = l1 + 1 /\ l1 = v + x /\ x \in Nat /\ y \in Nat
        /\ m = v + x + 1
    BY <2>1, <2>2
  <2> HIDE DEF l1, l2, l3, l4, x, y, v, w, n0, m
  <2>4. m = l1 + 1 /\ m \in 1 .. l4 /\ m \in 1 .. l3 + w
    BY <2>3
  <2>5. m \in 1 .. l2 + y /\ m <= l2 /\ m <= l3
    BY <2>3
  <2>6. l4 - (n0 - k - 1) \in Nat \ {0}
    BY <2>3
  <2> QED BY <2>4, <2>5, <2>6 DEF l1, l2, l3, l4, w, y, n0
<1>22. L4[m] = c
  <2> HIDE DEF m
  <2> QED BY <1>18, <1>19, <1>20, <1>21
<1>23. ASSUME NEW z \in Pairs
       PROVE  Passes(L4, Start, End, z) <=>
                Passes(A, Start, Starts(e), z) \/ Passes(B, Ends(f), End, z)
  <2>1. /\ ~ Passes(X, Starts(e), Starts(c), z) /\ ~ Passes(<<c>>, Starts(c), Ends(c), z)
        /\ ~ Passes(Y, Ends(c), Ends(f), z)
    BY <1>7, <1>8, <1>9 DEF Fills
  <2>2. Passes(L1, Start, Starts(c), z) <=> Passes(A, Start, Starts(e), z)
    BY <2>1, <1>2, <1>6, <1>10, PassesConcat DEF L1
  <2>3. Passes(L2, Start, Ends(c), z) <=> Passes(L1, Start, Starts(c), z)
    BY <2>1, <1>6, <1>10, <1>11, PassesConcat DEF L2
  <2>4. Passes(L3, Start, Ends(f), z) <=> Passes(L2, Start, Ends(c), z)
    BY <2>1, <1>6, <1>10, <1>12, PassesConcat DEF L3
  <2>5. Passes(L4, Start, End, z) <=> Passes(L3, Start, Ends(f), z) \/ Passes(B, Ends(f), End, z)
    BY <1>2, <1>6, <1>13, PassesConcat DEF L4
  <2> QED BY <2>2, <2>3, <2>4, <2>5
<1> HIDE DEF m
<1> QED BY <1>4, <1>14, <1>21, <1>22, <1>23 DEF e, f, A, B, c, split

-----------------------------------------------------------------------------
(***************************************************************************)
(* The inductive invariant: what StaysAScript says, and where the iterator *)
(* may be.                                                                 *)
(***************************************************************************)
IInv ==
  /\ equal \in SUBSET Cells(Start, End)
  /\ StaysAScript
  /\ edit \in Nat /\ 1 <= edit /\ edit <= Len(edits) + 1

LEMMA InitInvariant == Init => IInv
<1> SUFFICES ASSUME Init PROVE IInv
  OBVIOUS
<1>1. IsEditList(equal, edits, Start, End)
  BY EditListsAssumption DEF Init
<1>2. Len(edits) \in Nat
  BY <1>1, StartsAndEnds, ListType
<1> QED BY <1>1, <1>2 DEF Init, IInv, StaysAScript

LEMMA IncrementType ==
  ASSUME NEW es, Len(es) \in Nat, NEW n \in Nat, 1 <= n, n <= Len(es) + 1
  PROVE  /\ Increment(n, es) \in Nat
         /\ 1 <= Increment(n, es) /\ Increment(n, es) <= Len(es) + 1
BY DEF Increment

LEMMA NextInvariant == IInv /\ [Next]_vars => IInv'
<1> SUFFICES ASSUME IInv, [Next]_vars PROVE IInv'
  OBVIOUS
<1>1. /\ IsEditList(equal, edits, Start, End) /\ Len(edits) \in Nat
      /\ edit \in Nat /\ 1 <= edit /\ edit <= Len(edits) + 1
  BY StartsAndEnds, ListType DEF IInv, StaysAScript
<1>2. CASE Leave
  <2>1. edit' \in Nat /\ 1 <= edit' /\ edit' <= Len(edits) + 1
    BY <1>1, <1>2, IncrementType DEF Leave
  <2> QED BY <2>1, <1>2 DEF IInv, StaysAScript, Leave
<1>3. CASE Break
  <2>1. 1 <= edit /\ edit < Len(edits) /\ IsCandidate(edits[edit], edits[edit + 1]) /\ equal' = equal
    BY <1>1, <1>3 DEF Break, Candidates
  <2> DEFINE rest == Len(edits) - edit - 1
  <2>2. PICK n \in Across(edits[edit], edits[edit + 1]) :
          /\ edits' = Broken(equal, edits, edit, n)
          /\ \E returned \in {Len(edits') - rest, Len(edits') - rest + 1} :
               edit' = Increment(returned, edits')
    BY <1>3 DEF Break
  <2>3. /\ IsEditList(equal, edits', Start, End)
        /\ Len(edits') - rest \in Nat \ {0}
    BY <1>1, <2>1, <2>2, BrokenLeads
  <2>4. Len(edits') \in Nat /\ rest \in Nat
    BY <1>1, <2>1, <2>3, StartsAndEnds, ListType
  <2>5. PICK returned \in {Len(edits') - rest, Len(edits') - rest + 1} :
          edit' = Increment(returned, edits')
    BY <2>2
  <2> HIDE DEF rest
  <2>6. returned \in Nat /\ 1 <= returned /\ returned <= Len(edits') + 1
    BY <2>3, <2>4, <2>5
  <2>7. edit' \in Nat /\ 1 <= edit' /\ edit' <= Len(edits') + 1
    BY <2>4, <2>5, <2>6, IncrementType
  <2> QED BY <2>1, <2>3, <2>7 DEF IInv, StaysAScript
<1>4. CASE Return
  BY <1>4 DEF IInv, StaysAScript, Return
<1>5. CASE UNCHANGED vars
  BY <1>5 DEF IInv, StaysAScript, vars
<1> QED BY <1>2, <1>3, <1>4, <1>5 DEF Next

LEMMA Invariant == Spec => []IInv
BY InitInvariant, NextInvariant, PTL DEF Spec

(***************************************************************************)
(* However many constructs there are, whichever of them are equal, and     *)
(* whatever pairs are similar enough: the list correct() works on remains  *)
(* an edit list.  It leads from corner to corner, every edit has the       *)
(* lengths of its operation, and what lies between two edits, to be output *)
(* as common without being compared, is equal pair by pair.                *)
(* (edit_corrector.cpp:209-257, 28-94)                                     *)
(***************************************************************************)
THEOREM ScriptKept == Spec => []StaysAScript
<1>1. IInv => StaysAScript
  BY DEF IInv
<1> QED BY <1>1, Invariant, PTL

-----------------------------------------------------------------------------
(***************************************************************************)
(* What breaking gives up, and what it gains.                              *)
(***************************************************************************)

\* The edits before the first one of the two end before it, those behind the second
\* one start behind it: the pair that becomes common is none of them.
LEMMA PairIsNew ==
  ASSUME NEW r, NEW es, IsEditList(r, es, Start, End), NEW k \in Nat, 1 <= k, k < Len(es),
         IsCandidate(es[k], es[k + 1]), NEW n \in Across(es[k], es[k + 1]),
         NEW j \in 1 .. Len(es)
  PROVE  es[j] # SplitChange(Subject(es[k], es[k + 1]), n)[2]
<1> DEFINE e == es[k]
           f == es[k + 1]
           split == SplitChange(Subject(e, f), n)
           a == split[1]
           c == split[2]
           b == split[3]
           A == EditsBefore(es, k)
           B == EditsBehind(es, k)
<1>1. /\ e \in SesEdits /\ WellFormed(e) /\ f \in SesEdits /\ WellFormed(f)
      /\ Common(r, Ends(e), Starts(f)) /\ IsCandidate(e, f) /\ n \in Across(e, f)
  BY ListApart
<1>2. /\ IsEditList(r, A, Start, Starts(e)) /\ Len(A) = k - 1
      /\ IsEditList(r, B, Ends(f), End) /\ Len(B) = Len(es) - (k + 1)
      /\ \A i \in 1 .. k - 1 : A[i] = es[i]
      /\ \A i \in 1 .. Len(es) - (k + 1) : B[i] = es[i + (k + 1)]
  <2>1. /\ IsEditList(r, A, Start, Starts(e)) /\ Len(A) = k - 1
        /\ \A i \in 1 .. k - 1 : A[i] = es[i]
    <3> HIDE DEF A, e
    <3> QED BY ListApart DEF A, e
  <2>2. /\ IsEditList(r, B, Ends(f), End) /\ Len(B) = Len(es) - (k + 1)
        /\ \A i \in 1 .. Len(es) - (k + 1) : B[i] = es[i + (k + 1)]
    <3> HIDE DEF B, f
    <3> QED BY ListApart DEF B, f
  <2> QED BY <2>1, <2>2
<1>3. Len(es) \in Nat
  BY StartsAndEnds, ListType
<1> HIDE DEF A, B
<1>4. e.operation # "COMMON" /\ f.operation # "COMMON"
  BY <1>1 DEF IsCandidate
<1> HIDE DEF e, f
<1>5. /\ a \in SesEdits /\ c \in SesEdits /\ WellFormed(c) /\ b \in SesEdits
      /\ c.operation = "COMMON"
      /\ Starts(a) = Starts(e) /\ Ends(a) = Starts(c)
      /\ Ends(c) = Starts(b) /\ Ends(b) = Ends(f)
  BY <1>1, AcrossSplits
<1> HIDE DEF split, a, b, c
<1>6. /\ Starts(e) \in Points /\ Ends(f) \in Points
      /\ Starts(e).x <= Starts(c).x /\ Ends(c).x <= Ends(f).x /\ Starts(c).x + 1 = Ends(c).x
      /\ Starts(e).x \in Nat /\ Starts(c).x \in Nat /\ Ends(c).x \in Nat /\ Ends(f).x \in Nat
  <2>1. c.original_length = 1
    BY <1>5 DEF WellFormed
  <2>2. Starts(e).x = a.original_offset /\ Starts(c).x = a.original_offset + a.original_length
    BY <1>5, EditPoints
  <2>3. Ends(c).x = b.original_offset /\ Ends(f).x = b.original_offset + b.original_length
    BY <1>5, EditPoints
  <2>4. Starts(c).x = c.original_offset /\ Ends(c).x = c.original_offset + 1
    BY <1>5, <2>1, EditPoints
  <2>5. /\ a.original_offset \in Nat /\ a.original_length \in Nat /\ c.original_offset \in Nat
        /\ b.original_offset \in Nat /\ b.original_length \in Nat
    BY <1>5, EditPoints
  <2>6. Starts(e) \in Points /\ Ends(f) \in Points
    BY <1>1, EditPoints
  <2>7. Starts(e).x \in Nat /\ Starts(c).x \in Nat /\ Starts(e).x <= Starts(c).x
    BY <2>2, <2>5
  <2>8. Ends(c).x \in Nat /\ Ends(f).x \in Nat /\ Ends(c).x <= Ends(f).x
    BY <2>3, <2>5
  <2>9. Starts(c).x + 1 = Ends(c).x
    BY <2>4, <2>5
  <2> QED BY <2>6, <2>7, <2>8, <2>9
<1>7. ASSUME es[j] = c PROVE FALSE
  <2>1. CASE j <= k - 1
    <3>1. j \in 0 .. Len(A) /\ j \in 1 .. k - 1 /\ j # 0
      BY <2>1, <1>2, <1>3
    <3>2. Behind(A, j, Start) = Ends(c)
      BY <3>1, <1>2, <1>7 DEF Behind
    <3>3. /\ Behind(A, j, Start).x <= Ahead(A, j, Starts(e)).x
          /\ Ahead(A, j, Starts(e)).x <= Starts(e).x
      BY <3>1, <1>2, <1>6, StartsAndEnds, ListWithin
    <3>4. Ahead(A, j, Starts(e)).x \in Nat
      BY <3>1, <1>2, <1>6, StartsAndEnds, ListType DEF Points
    <3> QED BY <3>2, <3>3, <3>4, <1>6
  <2>2. CASE j = k \/ j = k + 1
    BY <2>2, <1>4, <1>5, <1>7 DEF e, f
  <2>3. CASE j > k + 1
    <3> DEFINE i == j - (k + 1)
    <3>1. /\ i \in 1 .. Len(es) - (k + 1) /\ i + (k + 1) = j /\ i - 1 \in 0 .. Len(B)
          /\ i - 1 # Len(B) /\ (i - 1) + 1 = i
      BY <2>3, <1>2, <1>3
    <3> HIDE DEF i
    <3>2. Ahead(B, i - 1, End) = Starts(c)
      <4>1. B[i] = c
        BY <3>1, <1>2, <1>7
      <4> QED BY <3>1, <4>1 DEF Ahead
    <3>3. /\ Ends(f).x <= Behind(B, i - 1, Ends(f)).x
          /\ Behind(B, i - 1, Ends(f)).x <= Ahead(B, i - 1, End).x
      BY <3>1, <1>2, <1>6, StartsAndEnds, ListWithin
    <3>4. Behind(B, i - 1, Ends(f)).x \in Nat
      BY <3>1, <1>2, <1>6, StartsAndEnds, ListType DEF Points
    <3> QED BY <3>2, <3>3, <3>4, <1>6
  <2> QED BY <2>1, <2>2, <2>3, <1>3
<1> QED BY <1>7 DEF c, split, e, f

\* The pair between the two edits is one of the cells, and passes nothing else.
LEMMA PairBetween ==
  ASSUME NEW r, NEW es, IsEditList(r, es, Start, End), NEW k \in Nat, 1 <= k, k < Len(es),
         IsCandidate(es[k], es[k + 1])
  PROVE  LET z == <<Ends(es[k]).x, Ends(es[k]).y>>
         IN  /\ z \in Cells(Start, End)
             /\ ~ Passes(EditsBefore(es, k), Start, Starts(es[k]), z)
             /\ ~ Passes(EditsBehind(es, k), Ends(es[k + 1]), End, z)
<1> DEFINE e == es[k]
           f == es[k + 1]
           A == EditsBefore(es, k)
           B == EditsBehind(es, k)
           z == <<Ends(e).x, Ends(e).y>>
<1>1. /\ e \in SesEdits /\ WellFormed(e) /\ f \in SesEdits /\ WellFormed(f)
      /\ Common(r, Ends(e), Starts(f)) /\ IsCandidate(e, f)
  BY ListApart
<1>2. /\ IsEditList(r, A, Start, Starts(e)) /\ IsEditList(r, B, Ends(f), End)
  BY ListApart
<1>3. Len(es) \in Nat /\ k \in 0 .. Len(es) /\ k # 0 /\ k # Len(es)
  BY StartsAndEnds, ListType
<1>4. Behind(es, k, Start) = Ends(e) /\ Ahead(es, k, End) = Starts(f)
  BY <1>3 DEF Behind, Ahead
<1> HIDE DEF A, B, e, f
<1>5. /\ Starts(f).x = Ends(e).x + 1 /\ Starts(f).y = Ends(e).y + 1
  BY <1>1, SubjectSpans
<1>6. /\ Starts(e) \in Points /\ Ends(f) \in Points
      /\ Starts(e).x \in Nat /\ Ends(e).x \in Nat /\ Ends(e).y \in Nat
      /\ Starts(f).x \in Nat /\ Ends(f).x \in Nat
      /\ Starts(e).x <= Ends(e).x /\ Starts(f).x <= Ends(f).x
  <2>1. Starts(e) \in Points /\ Ends(e) \in Points /\ Starts(f) \in Points /\ Ends(f) \in Points
    BY <1>1, EditPoints
  <2>2. /\ Starts(e).x \in Nat /\ Ends(e).x \in Nat /\ Ends(e).y \in Nat
        /\ Starts(f).x \in Nat /\ Ends(f).x \in Nat
    BY <2>1 DEF Points
  <2>3. Starts(e).x = e.original_offset /\ Ends(e).x = e.original_offset + e.original_length
    BY <1>1, EditPoints
  <2>4. Starts(f).x = f.original_offset /\ Ends(f).x = f.original_offset + f.original_length
    BY <1>1, EditPoints
  <2>5. /\ e.original_offset \in Nat /\ e.original_length \in Nat
        /\ f.original_offset \in Nat /\ f.original_length \in Nat
    BY <1>1, EditPoints
  <2>6. Starts(e).x <= Ends(e).x
    BY <2>3, <2>5
  <2>7. Starts(f).x <= Ends(f).x
    BY <2>4, <2>5
  <2> QED BY <2>1, <2>2, <2>6, <2>7
<1>7. z \in Cells(Start, End)
  <2>1. /\ Start.x <= Ends(e).x /\ Start.y <= Ends(e).y
        /\ Starts(f).x <= End.x /\ Starts(f).y <= End.y
    BY <1>3, <1>4, StartsAndEnds, ListWithin
  <2>2. Start.x \in Nat /\ Start.y \in Nat /\ End.x \in Nat /\ End.y \in Nat
    BY StartsAndEnds DEF Points
  <2>3. Ends(e).x \in Start.x .. End.x - 1
    <3> HIDE DEF e, f
    <3>1. Starts(f).x = Ends(e).x + 1
      BY <1>5
    <3>2. Ends(e).x \in Nat
      BY <1>6 DEF Points
    <3> QED BY <2>1, <2>2, <3>1, <3>2
  <2>4. Ends(e).y \in Start.y .. End.y - 1
    <3> HIDE DEF e, f
    <3>1. Starts(f).y = Ends(e).y + 1
      BY <1>5
    <3>2. Ends(e).y \in Nat
      BY <1>6 DEF Points
    <3> QED BY <2>1, <2>2, <3>1, <3>2
  <2> QED BY <2>3, <2>4 DEF Cells
<1>8. ~ Passes(A, Start, Starts(e), z)
  <2> SUFFICES ASSUME NEW n \in 0 .. Len(A),
                      z[1] \in Behind(A, n, Start).x .. Ahead(A, n, Starts(e)).x - 1
               PROVE  FALSE
    BY DEF Passes
  <2>1. Ahead(A, n, Starts(e)).x <= Starts(e).x
    BY <1>2, <1>6, StartsAndEnds, ListWithin
  <2>2. Ahead(A, n, Starts(e)).x \in Nat /\ Behind(A, n, Start).x \in Nat
    BY <1>2, <1>6, StartsAndEnds, ListType DEF Points
  <2>3. Ends(e).x \in Behind(A, n, Start).x .. Ahead(A, n, Starts(e)).x - 1
    OBVIOUS
  <2> QED BY <2>1, <2>2, <2>3, <1>6
<1>9. ~ Passes(B, Ends(f), End, z)
  <2> SUFFICES ASSUME NEW n \in 0 .. Len(B),
                      z[1] \in Behind(B, n, Ends(f)).x .. Ahead(B, n, End).x - 1
               PROVE  FALSE
    BY DEF Passes
  <2>1. Ends(f).x <= Behind(B, n, Ends(f)).x
    BY <1>2, <1>6, StartsAndEnds, ListWithin
  <2>2. Ahead(B, n, End).x \in Nat /\ Behind(B, n, Ends(f)).x \in Nat
    BY <1>2, <1>6, StartsAndEnds, ListType DEF Points
  <2>3. Ends(e).x \in Behind(B, n, Ends(f)).x .. Ahead(B, n, End).x - 1
    OBVIOUS
  <2>4. Behind(B, n, Ends(f)).x <= Ends(e).x
    BY <2>2, <2>3, <1>6
  <2> HIDE DEF e, f
  <2>5. /\ Starts(f).x = Ends(e).x + 1 /\ Starts(f).x <= Ends(f).x
        /\ Ends(e).x \in Nat /\ Ends(f).x \in Nat /\ Behind(B, n, Ends(f)).x \in Nat
    BY <2>2, <1>5, <1>6
  <2> QED BY <2>1, <2>4, <2>5
<1> QED BY <1>7, <1>8, <1>9 DEF A, B, e, f

(***************************************************************************)
(* A pair is given up only for another one: whatever the list is broken    *)
(* for, exactly the pair between the two edits is no longer common, no     *)
(* pair becomes common, and a pair is an edit that was not one.            *)
(* (edit_corrector.cpp:244-253)                                            *)
(***************************************************************************)
LEMMA BreakGivesUpOne ==
  ASSUME IInv, Break
  PROVE  /\ Untouched' \subseteq Untouched
         /\ Cardinality(Untouched \ Untouched') = 1
         /\ \E n \in DOMAIN edits' : edits'[n].operation = "COMMON" /\ edits'[n] \notin ToSet(edits)
<1> DEFINE z == <<Ends(edits[edit]).x, Ends(edits[edit]).y>>
<1>1. /\ IsEditList(equal, edits, Start, End) /\ edits \in Seq(SesEdits)
      /\ edit \in Nat /\ 1 <= edit /\ edit < Len(edits)
      /\ IsCandidate(edits[edit], edits[edit + 1])
  BY StartsAndEnds, ListType DEF IInv, StaysAScript, Break, Candidates
<1>2. PICK n \in Across(edits[edit], edits[edit + 1]) : edits' = Broken(equal, edits, edit, n)
  BY DEF Break
<1>3. /\ IsEditList(equal, edits', Start, End)
      /\ \E m \in 1 .. Len(edits') :
           edits'[m] = SplitChange(Subject(edits[edit], edits[edit + 1]), n)[2]
      /\ \A p \in Pairs :
           Passes(edits', Start, End, p) <=>
             \/ Passes(EditsBefore(edits, edit), Start, Starts(edits[edit]), p)
             \/ Passes(EditsBehind(edits, edit), Ends(edits[edit + 1]), End, p)
  <2> DEFINE es == edits
             after == Broken(equal, es, edit, n)
  <2>1. /\ IsEditList(equal, es, Start, End) /\ edit \in Nat /\ 1 <= edit /\ edit < Len(es)
        /\ IsCandidate(es[edit], es[edit + 1]) /\ n \in Across(es[edit], es[edit + 1])
    BY <1>1, <1>2
  <2> HIDE DEF es
  <2>2. /\ IsEditList(equal, after, Start, End)
        /\ \E m \in 1 .. Len(after) : after[m] = SplitChange(Subject(es[edit], es[edit + 1]), n)[2]
        /\ \A p \in Pairs :
             Passes(after, Start, End, p) <=>
               \/ Passes(EditsBefore(es, edit), Start, Starts(es[edit]), p)
               \/ Passes(EditsBehind(es, edit), Ends(es[edit + 1]), End, p)
    BY <2>1, BrokenLeads
  <2>3. edits' = after
    BY <1>2 DEF es
  <2> HIDE DEF after
  <2> QED BY <2>2, <2>3 DEF es
<1>4. \A p \in Pairs :
        Passes(edits, Start, End, p) <=>
          \/ Passes(EditsBefore(edits, edit), Start, Starts(edits[edit]), p)
          \/ p = z
          \/ Passes(EditsBehind(edits, edit), Ends(edits[edit + 1]), End, p)
  BY <1>1, PassesApart
<1>5. /\ z \in Cells(Start, End)
      /\ ~ Passes(EditsBefore(edits, edit), Start, Starts(edits[edit]), z)
      /\ ~ Passes(EditsBehind(edits, edit), Ends(edits[edit + 1]), End, z)
  BY <1>1, PairBetween
<1>6. Cells(Start, End) \subseteq Pairs
  <2>1. Start.x \in Nat /\ Start.y \in Nat /\ End.x \in Nat /\ End.y \in Nat
    BY StartsAndEnds DEF Points
  <2> QED BY <2>1 DEF Cells, Pairs
<1>7. Untouched' = {p \in Cells(Start, End) : Passes(edits', Start, End, p)}
  BY DEF Untouched
<1> HIDE DEF z
<1>8. Untouched' \subseteq Untouched
  BY <1>3, <1>4, <1>6, <1>7 DEF Untouched
<1>9. Untouched \ Untouched' = {z}
  BY <1>3, <1>4, <1>5, <1>6, <1>7 DEF Untouched
<1>10. Cardinality(Untouched \ Untouched') = 1
  BY <1>9, FS_Singleton
<1> DEFINE c == SplitChange(Subject(edits[edit], edits[edit + 1]), n)[2]
<1>11. c.operation = "COMMON"
  <2> DEFINE e == edits[edit]
             f == edits[edit + 1]
  <2>1. /\ e \in SesEdits /\ WellFormed(e) /\ f \in SesEdits /\ WellFormed(f)
        /\ Common(equal, Ends(e), Starts(f)) /\ IsCandidate(e, f) /\ n \in Across(e, f)
    BY <1>1, ListApart
  <2> HIDE DEF e, f
  <2>2. SplitChange(Subject(e, f), n)[2].operation = "COMMON"
    BY <2>1, AcrossSplits
  <2> QED BY <2>2 DEF e, f
<1>12. c \notin ToSet(edits)
  <2>1. DOMAIN edits = 1 .. Len(edits)
    BY <1>1, LenProperties
  <2>2. \A j \in 1 .. Len(edits) : edits[j] # c
    BY <1>1, PairIsNew
  <2> QED BY <2>1, <2>2 DEF ToSet
<1>13. DOMAIN edits' = 1 .. Len(edits')
  BY <1>3, LenProperties DEF IsEditList
<1> QED BY <1>3, <1>8, <1>10, <1>11, <1>12, <1>13

\* Each break of the program gives up one common pair that no break has touched, for a
\* pair that was none: the loop over a list that grows under it comes to its end.
\* (edit_corrector.cpp:28-94, 176-257)
THEOREM PairsGivenUpForPairs == Spec => BreaksOnePair
<1>1. ASSUME IInv, [Next]_vars
      PROVE  [edits' # edits =>
                /\ Untouched' \subseteq Untouched
                /\ Cardinality(Untouched \ Untouched') = 1
                /\ \E n \in DOMAIN edits' :
                     edits'[n].operation = "COMMON" /\ edits'[n] \notin ToSet(edits)]_vars
  <2>1. CASE Break
    BY <2>1, <1>1, BreakGivesUpOne
  <2>2. CASE ~ Break
    BY <2>2, <1>1 DEF Next, Leave, Return, vars
  <2> QED BY <2>1, <2>2
<1> QED BY <1>1, Invariant, PTL DEF Spec, BreaksOnePair
=============================================================================
