---------------------------- MODULE SharedTheorems ----------------------------
(***************************************************************************)
(* What the proofs of several components rest on: facts about numbers and  *)
(* rows, and about edit scripts and the edit distance.                     *)
(***************************************************************************)
EXTENDS EditScripts, WellFoundedInduction, SequenceTheorems, FiniteSetTheorems, TLAPS

(***************************************************************************)
(* A nonempty set of natural numbers has a least element.  The proofs by   *)
(* induction below are by the least counterexample.                        *)
(***************************************************************************)
LEMMA LeastElement ==
  ASSUME NEW T, T \subseteq Nat, T # {}
  PROVE  \E x \in T : \A y \in T : x <= y
<1> DEFINE R == OpToRel(<, Nat)
<1>1. IsWellFoundedOn(R, Nat)
  BY NatLessThanWellFounded
<1>2. PICK x \in T : \A y \in T : ~ (<<y, x>> \in R)
  <2> HIDE DEF R
  <2> QED BY <1>1, WFMin
<1>3. \A y \in T : ~ (y < x)
  BY <1>2 DEF OpToRel
<1> HIDE DEF R
<1>4. \A y \in T : x <= y
  BY <1>3
<1> QED BY <1>4

\* Parity of neighbours.
LEMMA Parity ==
  \A a \in Int : /\ a % 2 \in {0, 1}
                 /\ (a + 1) % 2 = 1 - (a % 2)
                 /\ (a - 1) % 2 = 1 - (a % 2)
                 /\ (a + 2) % 2 = a % 2
                 /\ (-a) % 2 = a % 2
  OBVIOUS

\* The points of a part, and where the steps from and to it stay.
LEMMA GridPoints ==
  ASSUME NEW from \in Points, NEW to \in Points, NEW p \in Grid(from, to)
  PROVE  /\ p \in Points
         /\ p.x \in Nat /\ p.y \in Nat
         /\ from.x <= p.x /\ p.x <= to.x /\ from.y <= p.y /\ p.y <= to.y
         /\ ByDeletion(from, p) =>
              Left(p) \in Grid(from, to) /\ Left(p).x = p.x - 1 /\ Left(p).y = p.y
         /\ ByInsertion(from, p) =>
              Above(p) \in Grid(from, to) /\ Above(p).x = p.x /\ Above(p).y = p.y - 1
         /\ \A e : ByMatch(e, from, p) =>
              /\ Diagonal(p) \in Grid(from, to)
              /\ Diagonal(p).x = p.x - 1 /\ Diagonal(p).y = p.y - 1
<1>1. /\ p.x \in Int /\ p.y \in Int
      /\ from.x <= p.x /\ p.x <= to.x /\ from.y <= p.y /\ p.y <= to.y
      /\ p = [x |-> p.x, y |-> p.y]
      /\ from.x \in Nat /\ from.y \in Nat /\ to.x \in Nat /\ to.y \in Nat
  BY DEF Grid, Points
<1> QED
  BY <1>1 DEF Grid, Points, Left, Above, Diagonal, Along, Point,
              ByDeletion, ByInsertion, ByMatch

(***************************************************************************)
(* The edit distance of a point is at least the number of its diagonal,    *)
(* has its parity, and is at most the number of elements consumed.         *)
(***************************************************************************)
LEMMA DistanceOfDiagonal ==
  ASSUME NEW from \in Points, NEW to \in Points, NEW e, NEW d,
         IsEditDistance(e, d, from, to),
         NEW p \in Grid(from, to)
  PROVE  /\ d[p] \in Nat
         /\ (p.x - from.x) - (p.y - from.y) <= d[p]
         /\ (p.y - from.y) - (p.x - from.x) <= d[p]
         /\ d[p] <= (p.x - from.x) + (p.y - from.y)
         /\ (d[p] - ((p.x - from.x) - (p.y - from.y))) % 2 = 0
<1> DEFINE Good(q) ==
      /\ d[q] \in Nat
      /\ (q.x - from.x) - (q.y - from.y) <= d[q]
      /\ (q.y - from.y) - (q.x - from.x) <= d[q]
      /\ d[q] <= (q.x - from.x) + (q.y - from.y)
      /\ (d[q] - ((q.x - from.x) - (q.y - from.y))) % 2 = 0
    Bad == {s \in Nat : \E q \in Grid(from, to) : q.x + q.y = s /\ ~ Good(q)}
<1> SUFFICES ASSUME ~ Good(p) PROVE FALSE
  OBVIOUS
<1>1. from.x \in Nat /\ from.y \in Nat
  BY DEF Points
<1>2. \A q \in Grid(from, to) : d[q] \in Nat
  BY DEF IsEditDistance
<1>3. p.x + p.y \in Bad
  BY GridPoints
<1>4. PICK s \in Bad : \A t \in Bad : s <= t
  <2>1. Bad \subseteq Nat /\ Bad # {}
    BY <1>3
  <2> HIDE DEF Bad
  <2> QED BY <2>1, LeastElement
<1>5. PICK q \in Grid(from, to) : q.x + q.y = s /\ ~ Good(q)
  OBVIOUS
<1>6. \A r \in Grid(from, to) : r.x + r.y \in Nat /\ r.x + r.y < s => Good(r)
  <2> SUFFICES ASSUME NEW r \in Grid(from, to), r.x + r.y \in Nat, r.x + r.y < s, ~ Good(r)
               PROVE  FALSE
    OBVIOUS
  <2>1. r.x + r.y \in Bad
    OBVIOUS
  <2>2. s <= r.x + r.y /\ s \in Nat
    BY <2>1, <1>4
  <2> HIDE DEF Bad, Good
  <2> QED BY <2>2
<1>7. /\ q.x \in Nat /\ q.y \in Nat /\ from.x <= q.x /\ from.y <= q.y
      /\ d[q] \in Nat
  BY GridPoints, <1>2
<1>8. CASE q = from
  BY <1>1, <1>5, <1>8 DEF IsEditDistance
<1>9. CASE q # from /\ ByDeletion(from, q) /\ d[q] = d[Left(q)] + 1
  <2>1. Left(q) \in Grid(from, to) /\ Left(q).x = q.x - 1 /\ Left(q).y = q.y
    BY <1>9, GridPoints
  <2>2. Good(Left(q))
    BY <2>1, <1>5, <1>6, <1>7, <1>9, <1>1 DEF ByDeletion
  <2> QED BY <2>1, <2>2, <1>1, <1>5, <1>7, <1>9
<1>10. CASE q # from /\ ByInsertion(from, q) /\ d[q] = d[Above(q)] + 1
  <2>1. Above(q) \in Grid(from, to) /\ Above(q).x = q.x /\ Above(q).y = q.y - 1
    BY <1>10, GridPoints
  <2>2. Good(Above(q))
    BY <2>1, <1>5, <1>6, <1>7, <1>10, <1>1 DEF ByInsertion
  <2> QED BY <2>1, <2>2, <1>1, <1>5, <1>7, <1>10
<1>11. CASE q # from /\ ByMatch(e, from, q) /\ d[q] = d[Diagonal(q)]
  <2>1. /\ Diagonal(q) \in Grid(from, to)
        /\ Diagonal(q).x = q.x - 1 /\ Diagonal(q).y = q.y - 1
    BY <1>11, GridPoints
  <2>2. Good(Diagonal(q))
    BY <2>1, <1>5, <1>6, <1>7, <1>11, <1>1 DEF ByMatch
  <2> QED BY <2>1, <2>2, <1>1, <1>5, <1>7, <1>11
<1> QED
  BY <1>8, <1>9, <1>10, <1>11 DEF IsEditDistance

(***************************************************************************)
(* A script that leads to where an edit begins, followed by the edit and   *)
(* by common elements.                                                     *)
(***************************************************************************)
LEMMA TransformsAppend ==
  ASSUME NEW e, NEW es \in Seq(Edits), NEW u \in Edits, NEW from, NEW to,
         Transforms(e, es, from, Before(u)),
         Common(e, After(u), to)
  PROVE  Transforms(e, Append(es, u), from, to)
<1> DEFINE fs == Append(es, u)
<1>1. /\ Len(es) \in Nat /\ Len(fs) = Len(es) + 1
      /\ \A i \in 1 .. Len(es) : fs[i] = es[i]
      /\ fs[Len(es) + 1] = u
  OBVIOUS
<1> SUFFICES ASSUME NEW i \in 0 .. Len(fs)
             PROVE  Common(e, Leaving(fs, i, from), Arriving(fs, i + 1, to))
  BY DEF Transforms
<1> HIDE DEF fs
<1>2. CASE i \in 0 .. Len(es) - 1
  <2>1. Leaving(fs, i, from) = Leaving(es, i, from)
    BY <1>1, <1>2 DEF Leaving
  <2>2. Arriving(fs, i + 1, to) = Arriving(es, i + 1, Before(u))
    BY <1>1, <1>2 DEF Arriving
  <2> QED BY <2>1, <2>2, <1>1, <1>2 DEF Transforms
<1>3. CASE i = Len(es)
  <2>1. Leaving(fs, i, from) = Leaving(es, i, from)
    BY <1>1, <1>3 DEF Leaving
  <2>2. Arriving(fs, i + 1, to) = Before(u) /\ Arriving(es, i + 1, Before(u)) = Before(u)
    BY <1>1, <1>3 DEF Arriving
  <2> QED BY <2>1, <2>2, <1>1, <1>3 DEF Transforms
<1>4. CASE i = Len(es) + 1
  <2>1. Leaving(fs, i, from) = After(u)
    BY <1>1, <1>4 DEF Leaving
  <2>2. Arriving(fs, i + 1, to) = to
    BY <1>1, <1>4 DEF Arriving
  <2> QED BY <2>1, <2>2
<1> QED BY <1>1, <1>2, <1>3, <1>4

\* No change is a script between equal versions.
LEMMA TransformsNothing ==
  ASSUME NEW e, NEW from, NEW to, Common(e, from, to)
  PROVE  Transforms(e, <<>>, from, to)
  BY DEF Transforms, Leaving, Arriving
-----------------------------------------------------------------------------
(***************************************************************************)
(* What FlattenSeq makes of a sequence of sequences.                       *)
(***************************************************************************)
Flattens(ss, f) == f = [k \in 1 .. Len(ss) |-> IF k = 1 THEN ss[k] ELSE f[k - 1] \o ss[k]]

FlattensTo(ss, n, f) == f = [k \in 1 .. n |-> IF k = 1 THEN ss[k] ELSE f[k - 1] \o ss[k]]

\* The recursion has a solution.
LEMMA FlattenExists ==
  ASSUME NEW ss, NEW N \in Nat
  PROVE  \E f : FlattensTo(ss, N, f)
<1> DEFINE Bad == {n \in Nat : ~ \E f : FlattensTo(ss, n, f)}
<1>1. SUFFICES ASSUME Bad # {} PROVE FALSE
  OBVIOUS
<1>2. PICK n \in Bad : \A k \in Bad : n <= k
  <2>1. Bad \subseteq Nat
    OBVIOUS
  <2> HIDE DEF Bad
  <2> QED BY <2>1, <1>1, LeastElement
<1>3. n \in Nat /\ ~ \E f : FlattensTo(ss, n, f)
  OBVIOUS
<1>4. n # 0
  <2> SUFFICES ASSUME n = 0 PROVE FALSE
    OBVIOUS
  <2> DEFINE f0 == [k \in 1 .. 0 |-> k]
  <2>1. FlattensTo(ss, 0, f0)
    BY DEF FlattensTo
  <2> QED BY <2>1, <1>3
<1>5. n - 1 \in Nat /\ n - 1 \notin Bad
  <2>1. n - 1 \in Nat /\ ~ (n <= n - 1)
    BY <1>3, <1>4
  <2> HIDE DEF Bad
  <2> QED BY <2>1, <1>2
<1>6. PICK f : FlattensTo(ss, n - 1, f)
  BY <1>5
<1> HIDE DEF Bad
<1> DEFINE last == IF n = 1 THEN ss[n] ELSE f[n - 1] \o ss[n]
           g == [k \in 1 .. n |-> IF k = n THEN last ELSE f[k]]
<1>7. ASSUME NEW k \in 1 .. n
      PROVE  g[k] = IF k = 1 THEN ss[k] ELSE g[k - 1] \o ss[k]
  <2>1. CASE k = n
    <3>1. n # 1 => n - 1 \in 1 .. n /\ n - 1 # n
      BY <1>3, <1>4
    <3>2. n # 1 => g[n - 1] = f[n - 1]
      BY <3>1
    <3>3. g[k] = last
      BY <2>1
    <3> HIDE DEF g
    <3> QED BY <2>1, <3>2, <3>3
  <2>2. CASE k # n
    <3>1. k \in 1 .. n - 1 /\ (k # 1 => k - 1 \in 1 .. n /\ k - 1 # n)
      BY <2>2, <1>3
    <3>2. f[k] = IF k = 1 THEN ss[k] ELSE f[k - 1] \o ss[k]
      BY <3>1, <1>6 DEF FlattensTo
    <3>3. g[k] = f[k] /\ (k # 1 => g[k - 1] = f[k - 1])
      BY <3>1, <2>2
    <3> HIDE DEF g
    <3> QED BY <3>2, <3>3
  <2> QED BY <2>1, <2>2
<1>8. g = [k \in 1 .. n |-> IF k = 1 THEN ss[k] ELSE g[k - 1] \o ss[k]]
  <2>1. g = [k \in 1 .. n |-> g[k]]
    OBVIOUS
  <2> HIDE DEF g
  <2> QED BY <2>1, <1>7
<1> QED BY <1>8, <1>3 DEF FlattensTo

\* Step by step.
LEMMA FlattensSteps ==
  ASSUME NEW S, NEW ss \in Seq(Seq(S)), ss # <<>>, NEW f, Flattens(ss, f)
  PROVE  /\ f[1] = ss[1]
         /\ \A k \in 2 .. Len(ss) : f[k] = f[k - 1] \o ss[k]
<1> DEFINE N == Len(ss)
<1>1. N \in Nat /\ N > 0
  OBVIOUS
<1>2. \A k \in 1 .. N : f[k] = IF k = 1 THEN ss[k] ELSE f[k - 1] \o ss[k]
  BY DEF Flattens
<1> HIDE DEF N
<1>3. 1 \in 1 .. N /\ \A k \in 2 .. N : k \in 1 .. N /\ k # 1
  BY <1>1
<1> QED BY <1>2, <1>3 DEF N

\* Each of its values is a row.
LEMMA FlattensType ==
  ASSUME NEW S, NEW ss \in Seq(Seq(S)), ss # <<>>, NEW f, Flattens(ss, f)
  PROVE  f \in [1 .. Len(ss) -> Seq(S)]
<1> DEFINE N == Len(ss)
<1>1. N \in Nat /\ N > 0 /\ \A k \in 1 .. N : ss[k] \in Seq(S)
  OBVIOUS
<1>4. /\ DOMAIN f = 1 .. N /\ f = [k \in 1 .. N |-> f[k]]
      /\ \A k \in 1 .. N : f[k] = IF k = 1 THEN ss[k] ELSE f[k - 1] \o ss[k]
  BY DEF Flattens
<1> DEFINE Bad == {k \in Nat : k \in 1 .. N /\ f[k] \notin Seq(S)}
<1>5. Bad = {}
  <2> SUFFICES ASSUME Bad # {} PROVE FALSE
    OBVIOUS
  <2>1. PICK n \in Bad : \A k \in Bad : n <= k
    <3>1. Bad \subseteq Nat
      OBVIOUS
    <3> HIDE DEF Bad
    <3> QED BY <3>1, LeastElement
  <2>2. n \in 1 .. N /\ f[n] \notin Seq(S)
    OBVIOUS
  <2>3. n # 1
    BY <2>2, <1>1, <1>4
  <2>4. n - 1 \in 1 .. N /\ n - 1 \in Nat /\ n - 1 \notin Bad
    <3>1. n - 1 \in 1 .. N /\ n - 1 \in Nat /\ ~ (n <= n - 1)
      BY <2>2, <2>3, <1>1
    <3> HIDE DEF Bad
    <3> QED BY <3>1, <2>1
  <2>5. f[n - 1] \in Seq(S)
    BY <2>4
  <2>6. f[n] = f[n - 1] \o ss[n] /\ ss[n] \in Seq(S)
    BY <1>1, <1>4, <2>2, <2>3
  <2> QED BY <2>2, <2>5, <2>6, ConcatProperties
<1>6. ASSUME NEW k \in 1 .. N PROVE f[k] \in Seq(S)
  <2>1. k \in Nat /\ (k \notin Bad => f[k] \in Seq(S))
    BY <1>1
  <2>2. k \notin Bad
    <3> HIDE DEF Bad
    <3> QED BY <1>5
  <2> QED BY <2>1, <2>2
<1> HIDE DEF Bad, N
<1>7. f \in [1 .. N -> Seq(S)]
  BY <1>4, <1>6
<1> QED BY <1>7 DEF N

\* With one part more at its end.
LEMMA FlattensAppend ==
  ASSUME NEW S, NEW ss \in Seq(Seq(S)), NEW a \in Seq(S),
         NEW f, ss # <<>> => Flattens(ss, f), NEW g, Flattens(Append(ss, a), g)
  PROVE  g[Len(ss) + 1] = IF ss = <<>> THEN a ELSE f[Len(ss)] \o a
<1> DEFINE ts == Append(ss, a)
           N == Len(ss)
<1>1. /\ ts \in Seq(Seq(S)) /\ N \in Nat /\ Len(ts) = N + 1 /\ ts # <<>>
      /\ ts[N + 1] = a /\ \A k \in 1 .. N : ts[k] = ss[k]
  <2>1. N \in Nat /\ \A k \in 1 .. N : ss[k] \in Seq(S)
    OBVIOUS
  <2> QED BY <2>1, AppendProperties
<1>2. Flattens(ts, g)
  OBVIOUS
<1> HIDE DEF ts
<1>3. /\ g[1] = ts[1]
      /\ \A k \in 2 .. N + 1 : g[k] = g[k - 1] \o ts[k]
  <2>1. /\ g[1] = ts[1]
        /\ \A k \in 2 .. Len(ts) : g[k] = g[k - 1] \o ts[k]
    BY <1>1, <1>2, FlattensSteps
  <2> QED BY <2>1, <1>1
<1>4. ASSUME ss = <<>> PROVE g[N + 1] = a
  BY <1>4, <1>1, <1>3
<1>5. ASSUME ss # <<>> PROVE g[N + 1] = f[N] \o a
  <2>1. /\ f[1] = ss[1]
        /\ \A k \in 2 .. N : f[k] = f[k - 1] \o ss[k]
    BY <1>5, FlattensSteps
  <2>2. N >= 1
    BY <1>5, <1>1
  <2> DEFINE Bad == {k \in Nat : k \in 1 .. N /\ f[k] # g[k]}
  <2>3. Bad = {}
    <3> SUFFICES ASSUME Bad # {} PROVE FALSE
      OBVIOUS
    <3>1. PICK n \in Bad : \A k \in Bad : n <= k
      <4>1. Bad \subseteq Nat
        OBVIOUS
      <4> HIDE DEF Bad
      <4> QED BY <4>1, LeastElement
    <3>2. n \in 1 .. N /\ f[n] # g[n]
      OBVIOUS
    <3>3. n # 1
      BY <3>2, <2>1, <2>2, <1>1, <1>3
    <3>4. f[n - 1] = g[n - 1]
      <4>1. n - 1 \in Nat /\ n - 1 \in 1 .. N /\ ~ (n <= n - 1)
        BY <3>2, <3>3, <1>1
      <4> QED BY <4>1, <3>1
    <3>5. n \in 2 .. N /\ n \in 2 .. N + 1 /\ ts[n] = ss[n]
      BY <3>2, <3>3, <1>1
    <3> HIDE DEF Bad
    <3> QED BY <3>2, <3>4, <3>5, <2>1, <1>3
  <2>4. f[N] = g[N]
    <3>1. N \in Nat /\ N \in 1 .. N
      BY <2>2, <1>1
    <3> QED BY <3>1, <2>3
  <2>5. g[N + 1] = g[N] \o a
    <3>1. N + 1 \in 2 .. N + 1 /\ (N + 1) - 1 = N
      BY <2>2, <1>1
    <3>2. g[N + 1] = g[(N + 1) - 1] \o ts[N + 1]
      BY <3>1, <1>3
    <3> QED BY <3>1, <3>2, <1>1
  <2> QED BY <2>4, <2>5
<1> QED BY <1>4, <1>5

Associative(S) == \A x, y, z \in Seq(S) : (x \o y) \o z = x \o (y \o z)

\* Concatenation of three rows.
LEMMA Associates == ASSUME NEW S PROVE Associative(S)
<1> SUFFICES ASSUME NEW x \in Seq(S), NEW y \in Seq(S), NEW z \in Seq(S)
             PROVE  (x \o y) \o z = x \o (y \o z)
  BY DEF Associative
<1> DEFINE l == (x \o y) \o z
           r == x \o (y \o z)
<1>1. Len(x) \in Nat /\ Len(y) \in Nat /\ Len(z) \in Nat
  OBVIOUS
<1>2. /\ x \o y \in Seq(S) /\ Len(x \o y) = Len(x) + Len(y)
      /\ y \o z \in Seq(S) /\ Len(y \o z) = Len(y) + Len(z)
  OBVIOUS
<1>3. l \in Seq(S) /\ r \in Seq(S)
  BY <1>2
<1>4. Len(l) = Len(x) + Len(y) + Len(z) /\ Len(r) = Len(x) + Len(y) + Len(z)
  BY <1>1, <1>2
<1>5. ASSUME NEW k \in 1 .. Len(x) + Len(y) + Len(z) PROVE l[k] = r[k]
  <2>1. CASE k <= Len(x)
    BY <2>1, <1>1, <1>2
  <2>2. CASE k > Len(x) /\ k <= Len(x) + Len(y)
    BY <2>2, <1>1, <1>2
  <2>3. CASE k > Len(x) + Len(y)
    <3>1. l[k] = z[k - (Len(x) + Len(y))]
      BY <2>3, <1>1, <1>2
    <3>2. r[k] = (y \o z)[k - Len(x)]
      BY <2>3, <1>1, <1>2
    <3>3. (y \o z)[k - Len(x)] = z[(k - Len(x)) - Len(y)]
      BY <2>3, <1>1
    <3>4. (k - Len(x)) - Len(y) = k - (Len(x) + Len(y))
      BY <1>1
    <3> HIDE DEF l, r
    <3> QED BY <3>1, <3>2, <3>3, <3>4
  <2> QED BY <1>1, <2>1, <2>2, <2>3
<1> HIDE DEF l, r
<1>6. l = r
  BY <1>3, <1>4, <1>5, SeqEqual
<1> QED BY <1>6 DEF l, r

\* Of rows of numbers, for the provers to cite.
LEMMA AssociatesNat == Associative(Nat)
  BY Associates

-----------------------------------------------------------------------------
(***************************************************************************)
(* What is computed along a row, from a first value, by a step for each    *)
(* place of it: it exists, and two that take the same steps are the same.  *)
(***************************************************************************)
IsFold(f, first, step, N) ==
  f = [n \in 0 .. N |-> IF n = 0 THEN first ELSE step[n][f[n - 1]]]

\* The recursion has a solution.
LEMMA FoldExists ==
  ASSUME NEW S, NEW first \in S, NEW N \in Nat, NEW step \in [1 .. N -> [S -> S]]
  PROVE  \E f \in [0 .. N -> S] : IsFold(f, first, step, N)
<1> DEFINE Bad == {n \in Nat : n <= N /\ ~ \E f \in [0 .. n -> S] : IsFold(f, first, step, n)}
<1>1. SUFFICES ASSUME Bad # {} PROVE FALSE
  OBVIOUS
<1>2. PICK n \in Bad : \A k \in Bad : n <= k
  <2>1. Bad \subseteq Nat
    OBVIOUS
  <2> HIDE DEF Bad
  <2> QED BY <2>1, <1>1, LeastElement
<1>3. n \in Nat /\ n <= N /\ ~ \E f \in [0 .. n -> S] : IsFold(f, first, step, n)
  OBVIOUS
<1>4. n # 0
  <2> SUFFICES ASSUME n = 0 PROVE FALSE
    OBVIOUS
  <2> DEFINE f0 == [k \in 0 .. 0 |-> first]
  <2>1. f0 = [k \in 0 .. 0 |-> IF k = 0 THEN first ELSE step[k][f0[k - 1]]]
    <3>1. \A k \in 0 .. 0 : k = 0
      OBVIOUS
    <3> QED BY <3>1
  <2>2. f0 \in [0 .. 0 -> S]
    OBVIOUS
  <2> QED BY <2>1, <2>2, <1>3 DEF IsFold
<1>5. n - 1 \in Nat /\ n - 1 <= N /\ n - 1 \notin Bad
  <2>1. n - 1 \in Nat /\ n - 1 <= N /\ ~ (n <= n - 1)
    BY <1>3, <1>4
  <2> HIDE DEF Bad
  <2> QED BY <2>1, <1>2
<1>6. PICK f \in [0 .. n - 1 -> S] : IsFold(f, first, step, n - 1)
  BY <1>5
<1> HIDE DEF Bad
<1> DEFINE last == step[n][f[n - 1]]
           g == [k \in 0 .. n |-> IF k = n THEN last ELSE f[k]]
<1>7. last \in S
  <2>1. n \in 1 .. N /\ n - 1 \in 0 .. n - 1
    BY <1>3, <1>4
  <2>2. step[n] \in [S -> S] /\ f[n - 1] \in S
    BY <2>1
  <2> QED BY <2>2
<1>8. g \in [0 .. n -> S]
  <2>1. \A k \in 0 .. n : k # n => k \in 0 .. n - 1
    BY <1>3
  <2> HIDE DEF last
  <2> QED BY <2>1, <1>7
<1>9. ASSUME NEW k \in 0 .. n
      PROVE  g[k] = IF k = 0 THEN first ELSE step[k][g[k - 1]]
  <2>1. CASE k = n
    <3>1. n - 1 \in 0 .. n /\ n - 1 # n
      BY <1>3, <1>4
    <3>2. g[n - 1] = f[n - 1] /\ g[n] = last
      BY <3>1, <2>1
    <3> HIDE DEF g
    <3> QED BY <2>1, <3>2, <1>4
  <2>2. CASE k # n
    <3>1. k \in 0 .. n - 1 /\ (k # 0 => k - 1 \in 0 .. n /\ k - 1 # n)
      BY <2>2, <1>3
    <3>2. f[k] = IF k = 0 THEN first ELSE step[k][f[k - 1]]
      BY <3>1, <1>6 DEF IsFold
    <3>3. g[k] = f[k] /\ (k # 0 => g[k - 1] = f[k - 1])
      BY <3>1, <2>2
    <3> HIDE DEF g
    <3> QED BY <3>2, <3>3
  <2> QED BY <2>1, <2>2
<1>10. g = [k \in 0 .. n |-> IF k = 0 THEN first ELSE step[k][g[k - 1]]]
  <2>1. g = [k \in 0 .. n |-> g[k]]
    OBVIOUS
  <2> HIDE DEF g
  <2> QED BY <2>1, <1>9
<1> QED BY <1>3, <1>8, <1>10 DEF IsFold

\* Two that begin with the same and go on alike are the same, as far as they do.
LEMMA SameSteps ==
  ASSUME NEW N \in Nat, NEW f, NEW g, f[0] = g[0],
         \A n \in 1 .. N : f[n - 1] = g[n - 1] => f[n] = g[n]
  PROVE  f[N] = g[N]
<1> DEFINE Bad == {n \in Nat : n <= N /\ f[n] # g[n]}
<1>1. SUFFICES ASSUME Bad # {} PROVE FALSE
  OBVIOUS
<1>2. PICK n \in Bad : \A k \in Bad : n <= k
  <2>1. Bad \subseteq Nat
    OBVIOUS
  <2> HIDE DEF Bad
  <2> QED BY <2>1, <1>1, LeastElement
<1>3. n \in Nat /\ n <= N /\ f[n] # g[n]
  OBVIOUS
<1>4. n \in 1 .. N
  BY <1>3
<1>5. n - 1 \in Nat /\ n - 1 <= N /\ n - 1 \notin Bad
  <2>1. n - 1 \in Nat /\ n - 1 <= N /\ ~ (n <= n - 1)
    BY <1>3, <1>4
  <2> HIDE DEF Bad
  <2> QED BY <2>1, <1>2
<1> QED BY <1>3, <1>4, <1>5
-----------------------------------------------------------------------------
(***************************************************************************)
(* The elements a script deletes and inserts, as EditScriptService counts  *)
(* them.                                                                   *)
(***************************************************************************)
Touched(es) == UNION {{i} \X (1 .. es[i].length) : i \in DOMAIN es}

Spends(es, n) == IsFiniteSet(Touched(es)) /\ Cardinality(Touched(es)) = n

\* A script without edits spends nothing.
LEMMA SpendsNothing == Spends(<<>>, 0)
<1>1. Touched(<<>>) = {}
  BY DEF Touched
<1> QED BY <1>1, FS_EmptySet DEF Spends

\* An edit more spends its length more.
LEMMA SpendsMore ==
  ASSUME NEW es \in Seq(Edits), NEW e \in Edits, NEW n \in Int, Spends(es, n)
  PROVE  Spends(Append(es, e), n + e.length)
<1> DEFINE fs == Append(es, e)
           l == Len(es) + 1
           new == {l} \X (1 .. e.length)
<1>1. e.length \in Nat /\ e.length > 0 /\ Len(es) \in Nat
  BY DEF Edits
<1>2. /\ fs \in Seq(Edits) /\ DOMAIN fs = 1 .. l /\ DOMAIN es = 1 .. Len(es)
      /\ \A i \in 1 .. Len(es) : fs[i] = es[i]
      /\ fs[l] = e
  OBVIOUS
<1>3. Touched(fs) = Touched(es) \cup new
  <2>1. DOMAIN fs = DOMAIN es \cup {l}
    BY <1>1, <1>2
  <2>2. \A i \in DOMAIN es : {i} \X (1 .. fs[i].length) = {i} \X (1 .. es[i].length)
    BY <1>2
  <2>3. {l} \X (1 .. fs[l].length) = new
    BY <1>2
  <2> HIDE DEF fs, l, new
  <2> QED BY <2>1, <2>2, <2>3 DEF Touched
<1>4. Touched(es) \cap new = {}
  <2>1. ~ (l \in DOMAIN es)
    BY <1>1, <1>2
  <2>2. \A t \in Touched(es) : t[1] \in DOMAIN es
    BY DEF Touched
  <2>3. \A t \in new : t[1] = l
    OBVIOUS
  <2> QED BY <2>1, <2>2, <2>3
<1>5. IsFiniteSet(new) /\ Cardinality(new) = e.length
  <2>1. IsFiniteSet({l}) /\ Cardinality({l}) = 1
    BY FS_Singleton
  <2>2. IsFiniteSet(1 .. e.length) /\ Cardinality(1 .. e.length) = e.length
    <3> DEFINE m == e.length
    <3>1. m \in Int /\ 1 \in Int /\ ~ (1 > m) /\ m - 1 + 1 = m
      BY <1>1
    <3> HIDE DEF m
    <3>2. IsFiniteSet(1 .. m) /\ Cardinality(1 .. m) = m
      BY <3>1, FS_Interval
    <3> QED BY <3>2 DEF m
  <2>3. IsFiniteSet(new) /\ Cardinality(new) = 1 * e.length
    <3> DEFINE R == {l}
               S == 1 .. e.length
    <3>1. IsFiniteSet(R) /\ Cardinality(R) = 1 /\ IsFiniteSet(S) /\ Cardinality(S) = e.length /\ new = R \X S
      BY <2>1, <2>2
    <3> HIDE DEF R, S
    <3> QED BY <3>1, FS_Product
  <2> QED BY <2>3, <1>1
<1>6. IsFiniteSet(Touched(es)) /\ Cardinality(Touched(es)) = n
  BY DEF Spends
<1>7. Cardinality({}) = 0
  BY FS_EmptySet
<1> HIDE DEF new, fs
<1>8. /\ IsFiniteSet(Touched(es) \cup new)
      /\ Cardinality(Touched(es) \cup new) =
           Cardinality(Touched(es)) + Cardinality(new) - Cardinality(Touched(es) \cap new)
  BY <1>5, <1>6, FS_Union
<1>9. IsFiniteSet(Touched(fs)) /\ Cardinality(Touched(fs)) = n + e.length
  <2>1. Cardinality(Touched(fs)) = n + e.length - 0
    BY <1>3, <1>4, <1>5, <1>6, <1>7, <1>8
  <2> QED BY <2>1, <1>1, <1>3, <1>8
<1> QED BY <1>9 DEF Spends, fs
=============================================================================
