------------------------ MODULE HybridEditScriptProofs ------------------------
(***************************************************************************)
(* The divide and conquer search of shortest_edit_script_hybrid.c, for     *)
(* every size of the sequences, relation of their elements and threshold.  *)
(*                                                                         *)
(*  1. The greedy search for a shortest script, on any grid.               *)
(*  2. The edit distance between two points, seen from either of them, and *)
(*     the search that goes back as a search on the grid turned around.    *)
(*  3. Where the two searches meet there is a middle snake, and they do    *)
(*     not pass one another unnoticed.                                     *)
(*  4. The inductive invariant.                                            *)
(*  5. Lengths of scripts, and scripts joined end to end.                  *)
(*  6. The parts that are solved or split.                                 *)
(*  7. The rounds of compute_middle_snake.                                 *)
(*  8. One step of each kind preserves the invariant; the theorems.        *)
(*  9. What is merged and collected is still a shortest script.            *)
(***************************************************************************)
EXTENDS HybridEditScript, SharedTheorems

(***************************************************************************)
(* The greedy search for a shortest script, from one corner of a grid to   *)
(* the other.  A search that starts at the other corner is one of these on *)
(* the grid turned around.                                                 *)
(***************************************************************************)
GridOf(g) == Grid(g.from, g.to)

Problem(g) ==
  /\ g.from \in Points /\ g.to \in Points
  /\ g.from.x <= g.to.x /\ g.from.y <= g.to.y
  /\ IsEditDistance(g.equal, g.cost, g.from, g.to)

\* The two corners of a grid, and the edits to them.
LEMMA ProblemBounds ==
  ASSUME NEW g, Problem(g)
  PROVE  /\ g.from \in Points /\ g.to \in Points
         /\ g.from.x \in Nat /\ g.from.y \in Nat /\ g.to.x \in Nat /\ g.to.y \in Nat
         /\ g.from.x <= g.to.x /\ g.from.y <= g.to.y
         /\ g.from = [x |-> g.from.x, y |-> g.from.y]
         /\ g.to = [x |-> g.to.x, y |-> g.to.y]
         /\ g.from \in GridOf(g) /\ g.to \in GridOf(g)
         /\ IsEditDistance(g.equal, g.cost, g.from, g.to)
         /\ \A p \in GridOf(g) : g.cost[p] \in Nat
         /\ g.cost[g.from] = 0
<1>1. g.from \in Points /\ g.to \in Points /\ g.from.x <= g.to.x /\ g.from.y <= g.to.y
  BY DEF Problem
<1>2. /\ g.from.x \in Nat /\ g.from.y \in Nat /\ g.to.x \in Nat /\ g.to.y \in Nat
      /\ g.from = [x |-> g.from.x, y |-> g.from.y]
      /\ g.to = [x |-> g.to.x, y |-> g.to.y]
  BY <1>1 DEF Points
<1>3. g.from \in GridOf(g) /\ g.to \in GridOf(g)
  BY <1>1, <1>2 DEF Grid, GridOf
<1>4. IsEditDistance(g.equal, g.cost, g.from, g.to)
  BY DEF Problem
<1> QED BY <1>1, <1>2, <1>3, <1>4 DEF IsEditDistance, GridOf

\* A point of a grid, and those a single step before it.
LEMMA ProblemPoints ==
  ASSUME NEW g, Problem(g), NEW p \in GridOf(g)
  PROVE  /\ p \in Points
         /\ p.x \in Nat /\ p.y \in Nat
         /\ p = [x |-> p.x, y |-> p.y]
         /\ g.from.x <= p.x /\ p.x <= g.to.x /\ g.from.y <= p.y /\ p.y <= g.to.y
         /\ ByDeletion(g.from, p) =>
              Left(p) \in GridOf(g) /\ Left(p).x = p.x - 1 /\ Left(p).y = p.y
         /\ ByInsertion(g.from, p) =>
              Above(p) \in GridOf(g) /\ Above(p).x = p.x /\ Above(p).y = p.y - 1
         /\ ByMatch(g.equal, g.from, p) =>
              /\ Diagonal(p) \in GridOf(g)
              /\ Diagonal(p).x = p.x - 1 /\ Diagonal(p).y = p.y - 1
         /\ g.cost[p] \in Nat
<1>b. /\ g.from.x \in Nat /\ g.from.y \in Nat /\ g.to.x \in Nat /\ g.to.y \in Nat
      /\ g.from.x <= g.to.x /\ g.from.y <= g.to.y
  BY ProblemBounds
<1>1. g.from \in Points /\ g.to \in Points /\ p \in Grid(g.from, g.to)
  BY ProblemBounds DEF GridOf
<1>2. p = [x |-> p.x, y |-> p.y] /\ g.cost[p] \in Nat
  BY ProblemBounds DEF Grid, GridOf
<1> QED BY <1>1, <1>2, GridPoints DEF GridOf

Matches(g, p) == p.x < g.to.x /\ p.y < g.to.y /\ <<p.x, p.y>> \in g.equal

(***************************************************************************)
(* For a point p on diagonal k and j edits: j edits suffice to reach p,    *)
(* and no point of the grid further down the diagonal can be reached with  *)
(* j edits.  A point outside the grid is paid for by the distance of the   *)
(* nearest point of the border and the steps beyond it.                    *)
(***************************************************************************)
Cost(g, p) == g.cost[p]

OnDiagonal(g, p, k) == (p.x - g.from.x) - (p.y - g.from.y) = k

Nearest(g, p) == Point(IF p.x <= g.to.x THEN p.x ELSE g.to.x,
                    IF p.y <= g.to.y THEN p.y ELSE g.to.y)

Affordable(g, p, j) ==
  Cost(g, Nearest(g, p)) + (p.x - Nearest(g, p).x) + (p.y - Nearest(g, p).y) <= j

Beyond(g, p) == p \in Points /\ p.x >= g.from.x /\ p.y >= g.from.y

Unreachable(g, p, k, j) ==
  \A q \in GridOf(g) : OnDiagonal(g, q, k) /\ Cost(g, q) <= j => q.x <= p.x

Furthest(g, p, k, j) ==
  /\ Beyond(g, p)
  /\ OnDiagonal(g, p, k)
  /\ Affordable(g, p, j)
  /\ Unreachable(g, p, k, j)

\* A point past an edge of the grid has a nearest point in it.
LEMMA NearestPoint ==
  ASSUME NEW g, Problem(g), NEW p, Beyond(g, p)
  PROVE  /\ Nearest(g, p) \in GridOf(g)
         /\ Nearest(g, p).x = IF p.x <= g.to.x THEN p.x ELSE g.to.x
         /\ Nearest(g, p).y = IF p.y <= g.to.y THEN p.y ELSE g.to.y
         /\ p.x \in Nat /\ p.y \in Nat
<1>b. /\ g.from.x \in Nat /\ g.from.y \in Nat /\ g.to.x \in Nat /\ g.to.y \in Nat
      /\ g.from.x <= g.to.x /\ g.from.y <= g.to.y
  BY ProblemBounds
<1> QED BY <1>b DEF Beyond, Nearest, Point, Points, Grid, GridOf

\* What slides along g.equal elements costs nothing.
LEMMA SlideAffordable ==
  ASSUME NEW g, Problem(g),
         NEW m, Beyond(g, m), NEW j \in Nat, Affordable(g, m, j),
         NEW n \in Nat, \A i \in 0 .. n - 1 : Matches(g, Along(m, i))
  PROVE  Beyond(g, Along(m, n)) /\ Affordable(g, Along(m, n), j)
<1>b. /\ g.from.x \in Nat /\ g.from.y \in Nat /\ g.to.x \in Nat /\ g.to.y \in Nat
      /\ g.from.x <= g.to.x /\ g.from.y <= g.to.y
  BY ProblemBounds
<1> DEFINE Bad == {i \in Nat : i <= n /\ ~ Affordable(g, Along(m, i), j)}
<1>1. m.x \in Nat /\ m.y \in Nat
  BY DEF Beyond, Points
<1>2. \A i \in Nat : /\ Beyond(g, Along(m, i))
                     /\ Along(m, i).x = m.x + i /\ Along(m, i).y = m.y + i
  BY <1>1, <1>b DEF Beyond, Along, Point, Points
<1>3. SUFFICES ASSUME ~ Affordable(g, Along(m, n), j) PROVE FALSE
  BY <1>2
<1>4. PICK i \in Bad : \A t \in Bad : i <= t
  <2>1. Bad \subseteq Nat /\ n \in Bad
    BY <1>3
  <2> HIDE DEF Bad
  <2> QED BY <2>1, LeastElement
<1>5. Along(m, 0) = m
  BY <1>1 DEF Along, Point, Beyond, Points
<1>6. i # 0
  BY <1>5
<1>7. i - 1 \in Nat /\ i - 1 \in 0 .. n - 1 /\ Affordable(g, Along(m, i - 1), j)
  <2>1. i \in Nat /\ i <= n
    OBVIOUS
  <2>2. i - 1 \in Nat /\ i - 1 <= n
    BY <2>1, <1>6
  <2>3. ~ (i - 1 \in Bad)
    <3> HIDE DEF Bad
    <3> QED BY <1>4, <2>1, <2>2
  <2> QED BY <2>1, <2>2, <2>3
<1> DEFINE p == Along(m, i)
           q == Along(m, i - 1)
<1>8. Matches(g, q)
  BY <1>7
<1>9. q.x < g.to.x /\ q.y < g.to.y /\ <<q.x, q.y>> \in g.equal
  BY <1>8 DEF Matches
<1>10. /\ p.x = q.x + 1 /\ p.y = q.y + 1
       /\ q.x \in Nat /\ q.y \in Nat /\ q.x >= g.from.x /\ q.y >= g.from.y
  BY <1>2, <1>7, <1>1 DEF Beyond, Points
<1>11. /\ Nearest(g, p) = p /\ Nearest(g, q) = q
       /\ p \in GridOf(g) /\ q \in GridOf(g)
       /\ ByMatch(g.equal, g.from, p) /\ Diagonal(p) = q
  <2>1. p = Point(q.x + 1, q.y + 1) /\ q = Point(q.x, q.y)
    BY <1>10, <1>7, <1>1 DEF Along, Point
  <2> HIDE DEF p, q
  <2>2. /\ g.from.x <= p.x /\ p.x <= g.to.x /\ g.from.y <= p.y /\ p.y <= g.to.y
        /\ q.x <= g.to.x /\ q.y <= g.to.y /\ p.x \in Nat /\ p.y \in Nat
    BY <1>9, <1>10, <1>b
  <2>3. p = [x |-> p.x, y |-> p.y] /\ q = [x |-> q.x, y |-> q.y]
    BY <2>1, <1>10 DEF Point
  <2>7. p \in GridOf(g) /\ q \in GridOf(g)
    BY <2>2, <2>3, <1>10, <1>b DEF Grid, GridOf, Point
  <2>8. Nearest(g, p) = p /\ Nearest(g, q) = q
    BY <2>2, <2>3 DEF Nearest, Point
  <2>4. p.x - 1 = q.x /\ p.y - 1 = q.y /\ p.x > g.from.x /\ p.y > g.from.y
    <3>1. g.from.x \in Nat /\ g.from.y \in Nat
      BY <1>b
    <3> QED BY <1>10, <3>1
  <2>5. Diagonal(p) = q
    BY <2>1, <1>10 DEF Diagonal, Along, Point
  <2>6. ByMatch(g.equal, g.from, p)
    BY <2>4, <1>9, <1>b DEF ByMatch
  <2> QED BY <2>5, <2>6, <2>7, <2>8
<1>12. Cost(g, p) <= Cost(g, q) /\ Cost(g, p) \in Nat /\ Cost(g, q) \in Nat
  BY <1>11, ProblemBounds DEF IsEditDistance, Cost, GridOf
<1>13. Affordable(g, p, j)
  BY <1>7, <1>10, <1>11, <1>12 DEF Affordable
<1> QED BY <1>13

\* Beyond the move a point can only be reached along the diagonal, and the
\* slide ends where that is no longer possible.
LEMMA SlideFurthest ==
  ASSUME NEW g, Problem(g),
         NEW m, Beyond(g, m), NEW j \in Nat, NEW k \in Int, OnDiagonal(g, m, k),
         \A q \in GridOf(g) :
            OnDiagonal(g, q, k) /\ Cost(g, q) <= j /\ q.x > m.x
            => ByMatch(g.equal, g.from, q) /\ Cost(g, q) = Cost(g, Diagonal(q)),
         NEW n \in Nat, ~ Matches(g, Along(m, n))
  PROVE  Unreachable(g, Along(m, n), k, j)
<1>b. /\ g.from.x \in Nat /\ g.from.y \in Nat /\ g.to.x \in Nat /\ g.to.y \in Nat
      /\ g.from.x <= g.to.x /\ g.from.y <= g.to.y
  BY ProblemBounds
<1> DEFINE p == Along(m, n)
    Bad == {s \in Nat : \E q \in GridOf(g) :
                           /\ q.x = s /\ OnDiagonal(g, q, k) /\ Cost(g, q) <= j
                           /\ q.x > p.x}
<1>1. m.x \in Nat /\ m.y \in Nat /\ p.x = m.x + n /\ p.y = m.y + n
  BY DEF Beyond, Points, Along, Point
<1>2. SUFFICES ASSUME NEW r \in GridOf(g), OnDiagonal(g, r, k), Cost(g, r) <= j, r.x > p.x
               PROVE  FALSE
  <2>1. p.x \in Int /\ \A r \in GridOf(g) : r.x \in Int
    BY <1>1, ProblemPoints
  <2> QED BY <2>1 DEF Unreachable
<1>3. r.x \in Bad
  BY <1>2, ProblemPoints
<1>4. PICK s \in Bad : \A t \in Bad : s <= t
  <2>1. Bad \subseteq Nat /\ Bad # {}
    BY <1>3
  <2> HIDE DEF Bad
  <2> QED BY <2>1, LeastElement
<1>5. PICK q \in GridOf(g) :
        q.x = s /\ OnDiagonal(g, q, k) /\ Cost(g, q) <= j /\ q.x > p.x
  OBVIOUS
<1>6. ByMatch(g.equal, g.from, q) /\ Cost(g, q) = Cost(g, Diagonal(q))
  BY <1>1, <1>5
<1> DEFINE t == Diagonal(q)
<1>7. t \in GridOf(g) /\ t.x = q.x - 1 /\ t.y = q.y - 1 /\ q.x \in Nat /\ q.y \in Nat
  BY <1>6, ProblemPoints
<1>8. OnDiagonal(g, t, k) /\ Cost(g, t) <= j
  <2>1. Cost(g, t) <= j
    BY <1>5, <1>6
  <2>2. (q.x - g.from.x) - (q.y - g.from.y) = k /\ g.from.x \in Nat /\ g.from.y \in Nat
    BY <1>5, <1>b DEF OnDiagonal
  <2> HIDE DEF t
  <2>3. (t.x - g.from.x) - (t.y - g.from.y) = k
    BY <2>2, <1>7
  <2> QED BY <2>1, <2>3 DEF OnDiagonal
<1>9. ~ (t.x > p.x)
  <2> SUFFICES ASSUME t.x > p.x PROVE FALSE
    OBVIOUS
  <2>1. t.x \in Bad
    BY <1>7, <1>8, ProblemPoints
  <2>2. s <= t.x
    BY <2>1, <1>4
  <2> HIDE DEF Bad, t
  <2> QED BY <2>2, <1>5, <1>7
<1>10. t.x = p.x /\ t.y = p.y
  <2>1. t.x = p.x
    <3> HIDE DEF Bad, t, p
    <3> QED BY <1>1, <1>5, <1>7, <1>9
  <2>2. (p.x - g.from.x) - (p.y - g.from.y) = k
    <3> HIDE DEF Bad, t, p
    <3> QED BY <1>1, <1>b DEF OnDiagonal
  <2>3. (t.x - g.from.x) - (t.y - g.from.y) = k
    BY <1>8 DEF OnDiagonal
  <2> HIDE DEF Bad, t, p
  <2> DEFINE a == g.from.x
             b == g.from.y
             u == t.y
             v == p.y
             w == p.x
  <2>4. u \in Int /\ v \in Int /\ w \in Int /\ a \in Int /\ b \in Int
    BY <1>1, <1>7, <1>b
  <2>5. (w - a) - (v - b) = k /\ (w - a) - (u - b) = k
    BY <2>1, <2>2, <2>3
  <2>6. u = v
    <3> HIDE DEF a, b, u, v, w
    <3> QED BY <2>4, <2>5
  <2> QED BY <2>1, <2>6
<1>11. Matches(g, p)
  <2>1. q.x <= g.to.x /\ q.y <= g.to.y
    BY ProblemPoints
  <2>2. <<p.x, p.y>> \in g.equal
    BY <1>6, <1>7, <1>10 DEF ByMatch
  <2> HIDE DEF Bad, t, p
  <2>3. p.x < g.to.x /\ p.y < g.to.y
    BY <2>1, <1>7, <1>10, <1>b
  <2> QED BY <2>2, <2>3 DEF Matches
<1> QED BY <1>11
-----------------------------------------------------------------------------
\* The next point of diagonal k: an insertion from the point R of the diagonal
\* above, or a deletion from the point L of the one below.
MovesDown(L, R, k, j) == k = -j \/ (k # j /\ L.x < R.x)

Target(L, R, k, j) ==
  IF MovesDown(L, R, k, j) THEN Point(R.x, R.y + 1) ELSE Point(L.x + 1, L.y)

Neighbours(g, L, R, k, j) ==
  /\ k # -j => Furthest(g, L, k - 1, j - 1)
  /\ k # j => Furthest(g, R, k + 1, j - 1)

\* A move from a neighbouring diagonal costs the one edit.
LEMMA MoveAffordable ==
  ASSUME NEW g, Problem(g), NEW j \in Nat, j >= 1, NEW k \in -j .. j,
         NEW L, NEW R, Neighbours(g, L, R, k, j)
  PROVE  /\ Beyond(g, Target(L, R, k, j))
         /\ OnDiagonal(g, Target(L, R, k, j), k)
         /\ Affordable(g, Target(L, R, k, j), j)
<1>b. /\ g.from.x \in Nat /\ g.from.y \in Nat /\ g.to.x \in Nat /\ g.to.y \in Nat
      /\ g.from.x <= g.to.x /\ g.from.y <= g.to.y
  BY ProblemBounds
<1> DEFINE down == MovesDown(L, R, k, j)
           o == IF down THEN R ELSE L
           h == IF down THEN k + 1 ELSE k - 1
           m == Target(L, R, k, j)
<1>1. Beyond(g, o) /\ OnDiagonal(g, o, h) /\ Affordable(g, o, j - 1)
  BY DEF Neighbours, Furthest, MovesDown
<1>2. \/ down /\ m = Point(o.x, o.y + 1) /\ h = k + 1
      \/ ~ down /\ m = Point(o.x + 1, o.y) /\ h = k - 1
  BY DEF Target
<1>t. \/ down /\ m.x = o.x /\ m.y = o.y + 1 /\ h = k + 1
      \/ ~ down /\ m.x = o.x + 1 /\ m.y = o.y /\ h = k - 1
  BY <1>2 DEF Point
<1> HIDE DEF down, o, h, m
<1>3. o.x \in Nat /\ o.y \in Nat /\ m \in Points
  <2>1. o.x \in Nat /\ o.y \in Nat
    BY <1>1 DEF Beyond, Points
  <2> QED BY <2>1, <1>2 DEF Points, Point
<1>4. k \in Int /\ j \in Int /\ h \in Int
  BY <1>2
<1>5. Beyond(g, m) /\ OnDiagonal(g, m, k)
  <2>1. /\ o.x >= g.from.x /\ o.y >= g.from.y
        /\ (o.x - g.from.x) - (o.y - g.from.y) = h
    BY <1>1, <1>b DEF Beyond, OnDiagonal
  <2>2. m.x \in Nat /\ m.y \in Nat
    BY <1>3 DEF Points
    <2>3. /\ m.x >= g.from.x /\ m.y >= g.from.y
        /\ (m.x - g.from.x) - (m.y - g.from.y) = k
    BY <2>1, <2>2, <1>t, <1>3, <1>4, <1>b
  <2> QED BY <2>3, <1>3 DEF Beyond, OnDiagonal
<1>6. Affordable(g, m, j)
  <2> DEFINE a == Nearest(g, o)
             b == Nearest(g, m)
  <2>1. /\ a \in GridOf(g) /\ b \in GridOf(g)
        /\ a.x = IF o.x <= g.to.x THEN o.x ELSE g.to.x
        /\ a.y = IF o.y <= g.to.y THEN o.y ELSE g.to.y
        /\ b.x = IF m.x <= g.to.x THEN m.x ELSE g.to.x
        /\ b.y = IF m.y <= g.to.y THEN m.y ELSE g.to.y
    BY <1>1, <1>5, NearestPoint
  <2>2. Cost(g, a) \in Nat /\ Cost(g, b) \in Nat
    BY <2>1, ProblemPoints DEF Cost
  <2>3. /\ a = [x |-> a.x, y |-> a.y]
        /\ b = [x |-> b.x, y |-> b.y]
    BY DEF Nearest, Point
  <2>4. Cost(g, b) + (m.x - b.x) + (m.y - b.y) <= Cost(g, a) + (o.x - a.x) + (o.y - a.y) + 1
    <3>1. CASE down /\ o.y < g.to.y
      <4>1. b.x = a.x /\ b.y = a.y + 1
        BY <1>t, <1>3, <2>1, <3>1, <1>b
      <4>2. ByInsertion(g.from, b) /\ Above(b) = a
        <5>1. o.x >= g.from.x /\ o.y >= g.from.y
          BY <1>1, <1>b DEF Beyond
        <5>2. a.x \in Nat /\ a.y \in Nat /\ a.x >= g.from.x /\ a.y >= g.from.y
          BY <5>1, <2>1, <1>3, <1>b
        <5> HIDE DEF a, b
        <5>4. b.y - 1 = a.y /\ b.x = a.x /\ b.x >= g.from.x /\ b.y > g.from.y
          BY <5>2, <1>b, <4>1
        <5>5. Above(b) = a
          BY <5>4, <2>3 DEF Above, Point
        <5> QED BY <5>4, <5>5 DEF ByInsertion
      <4>3. Cost(g, b) <= Cost(g, a) + 1
        BY <4>2, <2>1, ProblemBounds DEF IsEditDistance, Cost, GridOf
      <4> HIDE DEF a, b
      <4> QED BY <4>1, <4>3, <1>t, <1>3, <2>1, <2>2, <3>1, <1>b
    <3>2. CASE ~ down /\ o.x < g.to.x
      <4>1. b.x = a.x + 1 /\ b.y = a.y
        BY <1>t, <1>3, <2>1, <3>2, <1>b
      <4>2. ByDeletion(g.from, b) /\ Left(b) = a
        <5>1. o.x >= g.from.x /\ o.y >= g.from.y
          BY <1>1, <1>b DEF Beyond
        <5>2. a.x \in Nat /\ a.y \in Nat /\ a.x >= g.from.x /\ a.y >= g.from.y
          BY <5>1, <2>1, <1>3, <1>b
        <5> HIDE DEF a, b
        <5>4. b.x - 1 = a.x /\ b.y = a.y /\ b.x > g.from.x /\ b.y >= g.from.y
          BY <5>2, <1>b, <4>1
        <5>5. Left(b) = a
          BY <5>4, <2>3 DEF Left, Point
        <5> QED BY <5>4, <5>5 DEF ByDeletion
      <4>3. Cost(g, b) <= Cost(g, a) + 1
        BY <4>2, <2>1, ProblemBounds DEF IsEditDistance, Cost, GridOf
      <4> HIDE DEF a, b
      <4> QED BY <4>1, <4>3, <1>t, <1>3, <2>1, <2>2, <3>2, <1>b
    <3>3. CASE \/ down /\ ~ (o.y < g.to.y)
               \/ ~ down /\ ~ (o.x < g.to.x)
      <4>1. b.x = a.x /\ b.y = a.y
        BY <1>t, <1>3, <2>1, <3>3, <1>b
      <4>2. b = a
        BY <4>1, <2>3
      <4> HIDE DEF a, b
      <4> QED BY <4>2, <1>t, <1>3, <2>1, <2>2, <3>3, <1>b
    <3> QED BY <3>1, <3>2, <3>3
  <2>5. Cost(g, a) + (o.x - a.x) + (o.y - a.y) <= j - 1
    BY <1>1 DEF Affordable
  <2>6. /\ a.x \in Int /\ a.y \in Int /\ b.x \in Int /\ b.y \in Int
        /\ m.x \in Int /\ m.y \in Int
    BY <1>t, <1>3, <2>1, <1>b
  <2> HIDE DEF a, b
  <2>7. Cost(g, b) + (m.x - b.x) + (m.y - b.y) <= j
    BY <2>2, <2>4, <2>5, <2>6, <1>3, <1>4
  <2> QED BY <2>7 DEF Affordable, b
<1> QED BY <1>5, <1>6 DEF m

\* Beyond the move, the diagonal is only entered along the diagonal itself: its
\* neighbours do not reach that far with one edit less.
LEMMA MoveFurthest ==
  ASSUME NEW g, Problem(g), NEW j \in Nat, j >= 1, NEW k \in -j .. j,
         NEW L, NEW R, Neighbours(g, L, R, k, j),
         NEW q \in GridOf(g),
         OnDiagonal(g, q, k), Cost(g, q) <= j, q.x > Target(L, R, k, j).x
  PROVE  ByMatch(g.equal, g.from, q) /\ Cost(g, q) = Cost(g, Diagonal(q))
<1>b. /\ g.from.x \in Nat /\ g.from.y \in Nat /\ g.to.x \in Nat /\ g.to.y \in Nat
      /\ g.from.x <= g.to.x /\ g.from.y <= g.to.y
  BY ProblemBounds
<1> DEFINE down == MovesDown(L, R, k, j)
           T == Target(L, R, k, j)
<1>1. j \in Nat /\ j >= 1 /\ k \in Int
  OBVIOUS
<1>2. /\ k # -j => Beyond(g, L) /\ Unreachable(g, L, k - 1, j - 1)
      /\ k # j => Beyond(g, R) /\ Unreachable(g, R, k + 1, j - 1)
  BY DEF Neighbours, Furthest
<1>3. /\ k # -j => T.x >= L.x + 1
      /\ k # j => T.x >= R.x
  <2>1. CASE down
    <3>1. T.x = R.x
      BY <2>1 DEF Target, Point
    <3>2. k # j
      BY <2>1, <1>1 DEF MovesDown
    <3>3. k # -j => L.x < R.x
      BY <2>1 DEF MovesDown
    <3> QED BY <3>1, <3>2, <3>3, <1>2 DEF Beyond, Points
  <2>2. CASE ~ down
    <3>1. T.x = L.x + 1
      BY <2>2 DEF Target, Point
    <3>2. k # -j
      BY <2>2 DEF MovesDown
    <3>3. k # j => ~ (L.x < R.x)
      BY <2>2 DEF MovesDown
    <3> QED BY <3>1, <3>2, <3>3, <1>2 DEF Beyond, Points
  <2> QED BY <2>1, <2>2
<1>4. /\ q.x \in Nat /\ q.y \in Nat /\ q.x >= g.from.x /\ q.y >= g.from.y
      /\ (q.x - g.from.x) - (q.y - g.from.y) = k
      /\ Cost(g, q) \in Nat
  BY ProblemPoints DEF OnDiagonal, Cost
<1>5. T.x >= g.from.x /\ T.x \in Nat
  BY MoveAffordable DEF Beyond, Points
<1>6. q # g.from
  BY <1>4, <1>5, <1>b
<1>x. q.x > T.x
  OBVIOUS
<1> HIDE DEF down, T
<1>7. ~ (ByDeletion(g.from, q) /\ Cost(g, q) = Cost(g, Left(q)) + 1)
  <2> SUFFICES ASSUME ByDeletion(g.from, q), Cost(g, q) = Cost(g, Left(q)) + 1
               PROVE  FALSE
    OBVIOUS
  <2> DEFINE t == Left(q)
  <2>1. t \in GridOf(g) /\ t.x = q.x - 1 /\ t.y = q.y
    BY ProblemPoints
  <2>2. /\ Cost(g, t) \in Nat
        /\ (t.y - g.from.y) - (t.x - g.from.x) <= Cost(g, t)
    BY <2>1, ProblemBounds, DistanceOfDiagonal DEF Cost, GridOf
  <2> HIDE DEF t
  <2>3. Cost(g, t) <= j - 1 /\ OnDiagonal(g, t, k - 1)
    <3>1. Cost(g, q) = Cost(g, t) + 1
      BY DEF t
    <3>2. (t.x - g.from.x) - (t.y - g.from.y) = k - 1
      BY <2>1, <1>4, <1>1, <1>b
    <3> QED BY <3>1, <3>2, <2>2, <1>1 DEF OnDiagonal
  <2>4. CASE k = -j
    BY <2>1, <2>2, <2>3, <2>4, <1>1, <1>4, <1>b
  <2>5. CASE k # -j
    <3>1. t.x <= L.x
      BY <2>1, <2>3, <2>5, <1>2 DEF Unreachable
    <3>2. L.x \in Nat /\ T.x >= L.x + 1
      BY <2>5, <1>2, <1>3 DEF Beyond, Points
    <3> QED BY <3>1, <3>2, <2>1, <1>4, <1>5, <1>x
  <2> QED BY <2>4, <2>5
<1>8. ~ (ByInsertion(g.from, q) /\ Cost(g, q) = Cost(g, Above(q)) + 1)
  <2> SUFFICES ASSUME ByInsertion(g.from, q), Cost(g, q) = Cost(g, Above(q)) + 1
               PROVE  FALSE
    OBVIOUS
  <2> DEFINE t == Above(q)
  <2>1. t \in GridOf(g) /\ t.x = q.x /\ t.y = q.y - 1
    BY ProblemPoints
  <2>2. /\ Cost(g, t) \in Nat
        /\ (t.x - g.from.x) - (t.y - g.from.y) <= Cost(g, t)
    BY <2>1, ProblemBounds, DistanceOfDiagonal DEF Cost, GridOf
  <2> HIDE DEF t
  <2>3. Cost(g, t) <= j - 1 /\ OnDiagonal(g, t, k + 1)
    <3>1. Cost(g, q) = Cost(g, t) + 1
      BY DEF t
    <3>2. (t.x - g.from.x) - (t.y - g.from.y) = k + 1
      <4>1. /\ q.x \in Int /\ q.y \in Int /\ k \in Int
            /\ g.from.x \in Int /\ g.from.y \in Int
        BY <1>4, <1>1, <1>b
      <4>2. (q.x - g.from.x) - ((q.y - 1) - g.from.y) = ((q.x - g.from.x) - (q.y - g.from.y)) + 1
        BY <4>1
      <4> QED BY <4>2, <2>1, <1>4
    <3> QED BY <3>1, <3>2, <2>2, <1>1 DEF OnDiagonal
  <2>4. CASE k = j
    BY <2>1, <2>2, <2>3, <2>4, <1>1, <1>4, <1>b
  <2>5. CASE k # j
    <3>1. t.x <= R.x
      BY <2>1, <2>3, <2>5, <1>2 DEF Unreachable
    <3>2. R.x \in Nat /\ T.x >= R.x
      BY <2>5, <1>2, <1>3 DEF Beyond, Points
    <3> QED BY <3>1, <3>2, <2>1, <1>4, <1>5, <1>x
  <2> QED BY <2>4, <2>5
<1>9. \/ ByDeletion(g.from, q) /\ Cost(g, q) = Cost(g, Left(q)) + 1
      \/ ByInsertion(g.from, q) /\ Cost(g, q) = Cost(g, Above(q)) + 1
      \/ ByMatch(g.equal, g.from, q) /\ Cost(g, q) = Cost(g, Diagonal(q))
  BY <1>6, ProblemBounds DEF IsEditDistance, Cost, GridOf
<1> QED BY <1>7, <1>8, <1>9

Slides(g, m, n) ==
  /\ \A i \in 0 .. n - 1 : Matches(g, Along(m, i))
  /\ ~ Matches(g, Along(m, n))

\* Equal elements are taken along a diagonal.
LEMMA AlongDiagonal ==
  ASSUME NEW g, Problem(g), NEW m, Beyond(g, m), NEW k \in Int, OnDiagonal(g, m, k), NEW n \in Nat
  PROVE  OnDiagonal(g, Along(m, n), k)
<1>1. m.x \in Nat /\ m.y \in Nat /\ g.from.x \in Nat /\ g.from.y \in Nat
  BY ProblemBounds DEF Beyond, Points
<1> DEFINE x == m.x
           y == m.y
           a == g.from.x
           b == g.from.y
<1>2. x \in Nat /\ y \in Nat /\ a \in Nat /\ b \in Nat /\ (x - a) - (y - b) = k
  BY <1>1 DEF OnDiagonal
<1>3. Along(m, n).x = x + n /\ Along(m, n).y = y + n
  BY DEF Along, Point
<1>4. ((x + n) - a) - ((y + n) - b) = k
  <2> HIDE DEF x, y, a, b
  <2> QED BY <1>2
<1> QED BY <1>3, <1>4 DEF OnDiagonal

\* The search goes on from one round to the next.
LEMMA FurthestNext ==
  ASSUME NEW g, Problem(g), NEW j \in Nat, j >= 1, NEW k \in -j .. j,
         NEW L, NEW R, Neighbours(g, L, R, k, j),
         NEW n \in Nat, Slides(g, Target(L, R, k, j), n)
  PROVE  Furthest(g, Along(Target(L, R, k, j), n), k, j)
<1> DEFINE T == Target(L, R, k, j)
<1>2. Beyond(g, T) /\ OnDiagonal(g, T, k) /\ Affordable(g, T, j)
  BY MoveAffordable
<1>3. /\ \A i \in 0 .. n - 1 : Matches(g, Along(T, i))
      /\ ~ Matches(g, Along(T, n))
  BY DEF Slides
<1>7. \A q \in GridOf(g) : OnDiagonal(g, q, k) /\ Cost(g, q) <= j /\ q.x > T.x
         => ByMatch(g.equal, g.from, q) /\ Cost(g, q) = Cost(g, Diagonal(q))
  BY MoveFurthest
<1>8. k \in Int
  OBVIOUS
<1> HIDE DEF T
<1>4. Beyond(g, Along(T, n)) /\ Affordable(g, Along(T, n), j)
  BY <1>2, <1>3, SlideAffordable
<1>5. Unreachable(g, Along(T, n), k, j)
  BY <1>2, <1>3, <1>7, <1>8, SlideFurthest
<1>6. OnDiagonal(g, Along(T, n), k)
  BY <1>2, <1>8, AlongDiagonal
<1> QED BY <1>4, <1>5, <1>6 DEF Furthest, T

\* Where it begins.
LEMMA FurthestFirst ==
  ASSUME NEW g, Problem(g), NEW n \in Nat, Slides(g, g.from, n)
  PROVE  Furthest(g, Along(g.from, n), 0, 0)
<1>b. /\ g.from.x \in Nat /\ g.from.y \in Nat /\ g.to.x \in Nat /\ g.to.y \in Nat
      /\ g.from.x <= g.to.x /\ g.from.y <= g.to.y /\ g.from \in Points
      /\ g.from \in GridOf(g) /\ Cost(g, g.from) = 0
      /\ g.from = [x |-> g.from.x, y |-> g.from.y]
  BY ProblemBounds DEF Cost
<1> DEFINE T == g.from
<1>1. Nearest(g, T) = T
  BY <1>b DEF Nearest, Point
<1>2. Beyond(g, T) /\ OnDiagonal(g, T, 0) /\ Affordable(g, T, 0)
  BY <1>1, <1>b DEF Beyond, OnDiagonal, Affordable
<1>3. /\ \A i \in 0 .. n - 1 : Matches(g, Along(T, i))
      /\ ~ Matches(g, Along(T, n))
  BY DEF Slides
<1>7. ASSUME NEW q \in GridOf(g), OnDiagonal(g, q, 0), Cost(g, q) <= 0, q.x > T.x
      PROVE  ByMatch(g.equal, g.from, q) /\ Cost(g, q) = Cost(g, Diagonal(q))
  <2>1. q # g.from
    BY <1>7, <1>b, ProblemPoints
  <2>2. Cost(g, q) \in Nat /\ Cost(g, q) = 0
    BY <1>7, ProblemPoints DEF Cost
  <2>3. /\ ByDeletion(g.from, q) => Cost(g, Left(q)) \in Nat
        /\ ByInsertion(g.from, q) => Cost(g, Above(q)) \in Nat
    BY ProblemPoints DEF Cost
  <2>4. \/ ByDeletion(g.from, q) /\ Cost(g, q) = Cost(g, Left(q)) + 1
        \/ ByInsertion(g.from, q) /\ Cost(g, q) = Cost(g, Above(q)) + 1
        \/ ByMatch(g.equal, g.from, q) /\ Cost(g, q) = Cost(g, Diagonal(q))
    BY <2>1, ProblemBounds DEF IsEditDistance, Cost, GridOf
  <2> QED BY <2>2, <2>3, <2>4
<1> HIDE DEF T
<1>4. Beyond(g, Along(T, n)) /\ Affordable(g, Along(T, n), 0)
  BY <1>2, <1>3, SlideAffordable
<1>5. Unreachable(g, Along(T, n), 0, 0)
  BY <1>2, <1>3, <1>7, SlideFurthest DEF T
<1>6. OnDiagonal(g, Along(T, n), 0)
  BY <1>2, AlongDiagonal
<1> QED BY <1>4, <1>5, <1>6 DEF Furthest, T
-----------------------------------------------------------------------------
(***************************************************************************)
(* Neighbouring points, and points of one diagonal.                        *)
(***************************************************************************)
\* q is one step further than p, at the cost of w.
Steps(e, p, q, w) ==
  \/ w = 1 /\ q.x = p.x + 1 /\ q.y = p.y
  \/ w = 1 /\ q.x = p.x /\ q.y = p.y + 1
  \/ w = 0 /\ q.x = p.x + 1 /\ q.y = p.y + 1 /\ <<p.x, p.y>> \in e

\* The recurrence of the edit distance, step by step.
LEMMA DistanceSteps ==
  ASSUME NEW g, Problem(g)
  PROVE  /\ \A p, q \in GridOf(g) : \A w \in {0, 1} :
              Steps(g.equal, p, q, w) => Cost(g, q) <= Cost(g, p) + w
         /\ \A q \in GridOf(g) : q # g.from =>
              \E p \in GridOf(g) : \E w \in {0, 1} :
                 Steps(g.equal, p, q, w) /\ Cost(g, q) = Cost(g, p) + w
<1>b. /\ g.from.x \in Nat /\ g.from.y \in Nat /\ g.to.x \in Nat /\ g.to.y \in Nat
  BY ProblemBounds
<1>d. \A q \in GridOf(g) :
       /\ ByDeletion(g.from, q) => Cost(g, q) <= Cost(g, Left(q)) + 1
       /\ ByInsertion(g.from, q) => Cost(g, q) <= Cost(g, Above(q)) + 1
       /\ ByMatch(g.equal, g.from, q) => Cost(g, q) <= Cost(g, Diagonal(q))
       /\ \/ q = g.from
          \/ ByDeletion(g.from, q) /\ Cost(g, q) = Cost(g, Left(q)) + 1
          \/ ByInsertion(g.from, q) /\ Cost(g, q) = Cost(g, Above(q)) + 1
          \/ ByMatch(g.equal, g.from, q) /\ Cost(g, q) = Cost(g, Diagonal(q))
  BY ProblemBounds DEF IsEditDistance, Cost, GridOf
<1>1. ASSUME NEW p \in GridOf(g), NEW q \in GridOf(g), NEW w \in {0, 1}, Steps(g.equal, p, q, w)
      PROVE  Cost(g, q) <= Cost(g, p) + w
  <2>1. /\ p.x \in Nat /\ p.y \in Nat /\ q.x \in Nat /\ q.y \in Nat
        /\ g.from.x <= p.x /\ g.from.y <= p.y
        /\ p = [x |-> p.x, y |-> p.y] /\ q = [x |-> q.x, y |-> q.y]
        /\ Cost(g, p) \in Nat /\ Cost(g, q) \in Nat
    BY ProblemPoints DEF Cost
  <2>2. CASE w = 1 /\ q.x = p.x + 1 /\ q.y = p.y
    <3>1. ByDeletion(g.from, q) /\ Left(q) = p
      BY <1>b, <2>1, <2>2 DEF ByDeletion, Left, Point
    <3> QED BY <3>1, <1>d, <2>1, <2>2
  <2>3. CASE w = 1 /\ q.x = p.x /\ q.y = p.y + 1
    <3>1. ByInsertion(g.from, q) /\ Above(q) = p
      BY <1>b, <2>1, <2>3 DEF ByInsertion, Above, Point
    <3> QED BY <3>1, <1>d, <2>1, <2>3
  <2>4. CASE w = 0 /\ q.x = p.x + 1 /\ q.y = p.y + 1 /\ <<p.x, p.y>> \in g.equal
    <3>0. q.x - 1 = p.x /\ q.y - 1 = p.y /\ q.x > g.from.x /\ q.y > g.from.y
      BY <1>b, <2>1, <2>4
    <3>1. ByMatch(g.equal, g.from, q)
      BY <3>0, <2>4 DEF ByMatch
    <3>2. Diagonal(q) = p
      BY <2>1, <2>4 DEF Diagonal, Along, Point
    <3> QED BY <3>1, <3>2, <1>d, <2>1, <2>4
  <2> QED BY <1>1, <2>2, <2>3, <2>4 DEF Steps
<1>2. ASSUME NEW q \in GridOf(g), q # g.from
      PROVE  \E p \in GridOf(g) : \E w \in {0, 1} :
               Steps(g.equal, p, q, w) /\ Cost(g, q) = Cost(g, p) + w
  <2>1. q.x \in Nat /\ q.y \in Nat /\ Cost(g, q) \in Nat
    BY ProblemPoints DEF Cost
  <2>2. CASE ByDeletion(g.from, q) /\ Cost(g, q) = Cost(g, Left(q)) + 1
    <3>1. Left(q) \in GridOf(g) /\ Left(q).x = q.x - 1 /\ Left(q).y = q.y
      BY <2>2, ProblemPoints
    <3>2. Steps(g.equal, Left(q), q, 1)
      BY <2>1, <3>1 DEF Steps
    <3> QED BY <3>1, <3>2, <2>2
  <2>3. CASE ByInsertion(g.from, q) /\ Cost(g, q) = Cost(g, Above(q)) + 1
    <3>1. Above(q) \in GridOf(g) /\ Above(q).x = q.x /\ Above(q).y = q.y - 1
      BY <2>3, ProblemPoints
    <3>2. Steps(g.equal, Above(q), q, 1)
      BY <2>1, <3>1 DEF Steps
    <3> QED BY <3>1, <3>2, <2>3
  <2>4. CASE ByMatch(g.equal, g.from, q) /\ Cost(g, q) = Cost(g, Diagonal(q))
    <3>1. Diagonal(q) \in GridOf(g) /\ Diagonal(q).x = q.x - 1 /\ Diagonal(q).y = q.y - 1
      BY <2>4, ProblemPoints
    <3>2. <<Diagonal(q).x, Diagonal(q).y>> \in g.equal
      BY <3>1, <2>4 DEF ByMatch
    <3>3. Steps(g.equal, Diagonal(q), q, 0)
      BY <2>1, <3>1, <3>2 DEF Steps
    <3>4. Cost(g, q) = Cost(g, Diagonal(q)) + 0
      BY <2>4, <2>1
    <3> QED BY <3>1, <3>3, <3>4
  <2> QED BY <1>2, <1>d, <2>2, <2>3, <2>4
<1> QED BY <1>1, <1>2

\* An edit distance is known by its steps: none costs less than the distance it
\* covers, and each point but the first is reached by one that costs just that.
LEMMA StepsDistance ==
  ASSUME NEW e, NEW from \in Points, NEW to \in Points,
         NEW d \in [Grid(from, to) -> Nat], d[from] = 0,
         \A p, q \in Grid(from, to) : \A w \in {0, 1} : Steps(e, p, q, w) => d[q] <= d[p] + w,
         \A q \in Grid(from, to) : q # from =>
            \E p \in Grid(from, to) : \E w \in {0, 1} : Steps(e, p, q, w) /\ d[q] = d[p] + w
  PROVE  IsEditDistance(e, d, from, to)
<1>1. ASSUME NEW q \in Grid(from, to)
      PROVE  /\ ByDeletion(from, q) => d[q] <= d[Left(q)] + 1
             /\ ByInsertion(from, q) => d[q] <= d[Above(q)] + 1
             /\ ByMatch(e, from, q) => d[q] <= d[Diagonal(q)]
  <2>1. q.x \in Nat /\ q.y \in Nat
    BY GridPoints
  <2>2. ASSUME ByDeletion(from, q) PROVE d[q] <= d[Left(q)] + 1
    <3>1. Left(q) \in Grid(from, to) /\ Left(q).x = q.x - 1 /\ Left(q).y = q.y
      BY <2>2, GridPoints
    <3>2. Steps(e, Left(q), q, 1)
      BY <2>1, <3>1 DEF Steps
    <3> QED BY <3>1, <3>2
  <2>3. ASSUME ByInsertion(from, q) PROVE d[q] <= d[Above(q)] + 1
    <3>1. Above(q) \in Grid(from, to) /\ Above(q).x = q.x /\ Above(q).y = q.y - 1
      BY <2>3, GridPoints
    <3>2. Steps(e, Above(q), q, 1)
      BY <2>1, <3>1 DEF Steps
    <3> QED BY <3>1, <3>2
  <2>4. ASSUME ByMatch(e, from, q) PROVE d[q] <= d[Diagonal(q)]
    <3>1. Diagonal(q) \in Grid(from, to) /\ Diagonal(q).x = q.x - 1 /\ Diagonal(q).y = q.y - 1
      BY <2>4, GridPoints
    <3>2. <<Diagonal(q).x, Diagonal(q).y>> \in e
      BY <3>1, <2>4 DEF ByMatch
    <3>3. Steps(e, Diagonal(q), q, 0)
      BY <2>1, <3>1, <3>2 DEF Steps
    <3>4. d[q] <= d[Diagonal(q)] + 0 /\ d[Diagonal(q)] \in Nat
      BY <3>1, <3>3
    <3> QED BY <3>4
  <2> QED BY <2>2, <2>3, <2>4
<1>2. ASSUME NEW q \in Grid(from, to), q # from
      PROVE  \/ ByDeletion(from, q) /\ d[q] = d[Left(q)] + 1
             \/ ByInsertion(from, q) /\ d[q] = d[Above(q)] + 1
             \/ ByMatch(e, from, q) /\ d[q] = d[Diagonal(q)]
  <2>1. PICK p \in Grid(from, to), w \in {0, 1} : Steps(e, p, q, w) /\ d[q] = d[p] + w
    BY <1>2
  <2>2. /\ p.x \in Nat /\ p.y \in Nat /\ q.x \in Nat /\ q.y \in Nat
        /\ from.x <= p.x /\ from.y <= p.y /\ from.x \in Nat /\ from.y \in Nat
        /\ p = [x |-> p.x, y |-> p.y] /\ d[p] \in Nat
    BY GridPoints DEF Grid, Points
  <2>3. CASE w = 1 /\ q.x = p.x + 1 /\ q.y = p.y
    <3>1. ByDeletion(from, q) /\ Left(q) = p
      BY <2>2, <2>3 DEF ByDeletion, Left, Point
    <3> QED BY <3>1, <2>1, <2>3
  <2>4. CASE w = 1 /\ q.x = p.x /\ q.y = p.y + 1
    <3>1. ByInsertion(from, q) /\ Above(q) = p
      BY <2>2, <2>4 DEF ByInsertion, Above, Point
    <3> QED BY <3>1, <2>1, <2>4
  <2>5. CASE w = 0 /\ q.x = p.x + 1 /\ q.y = p.y + 1 /\ <<p.x, p.y>> \in e
    <3>0. q.x - 1 = p.x /\ q.y - 1 = p.y /\ q.x > from.x /\ q.y > from.y
      BY <2>2, <2>5
    <3>1. ByMatch(e, from, q)
      BY <3>0, <2>5 DEF ByMatch
    <3>2. Diagonal(q) = p
      BY <2>2, <2>5 DEF Diagonal, Along, Point
    <3> QED BY <3>1, <3>2, <2>1, <2>2, <2>5
  <2>6. Steps(e, p, q, w)
    BY <2>1
  <2> QED BY <2>6, <2>3, <2>4, <2>5 DEF Steps
<1> QED BY <1>1, <1>2 DEF IsEditDistance

\* A point of the grid, by its coordinates.
LEMMA InGridOf ==
  ASSUME NEW g, Problem(g), NEW x \in Nat, NEW y \in Nat,
         g.from.x <= x, x <= g.to.x, g.from.y <= y, y <= g.to.y
  PROVE  Point(x, y) \in GridOf(g) /\ Point(x, y).x = x /\ Point(x, y).y = y
<1>b. g.from.x \in Nat /\ g.from.y \in Nat /\ g.to.x \in Nat /\ g.to.y \in Nat
  BY ProblemBounds
<1> QED BY <1>b DEF GridOf, Grid, Point

Adjacent(p, q) ==
  \/ q.x = p.x + 1 /\ q.y = p.y
  \/ q.x = p.x /\ q.y = p.y + 1

\* The edit distances of neighbouring points differ by one at most.
LEMMA AdjacentCost ==
  ASSUME NEW g, Problem(g), NEW p \in GridOf(g), NEW q \in GridOf(g), Adjacent(p, q)
  PROVE  Cost(g, p) <= Cost(g, q) + 1
<1> DEFINE Bad == {s \in Nat : \E a, b \in GridOf(g) :
                     b.x + b.y = s /\ Adjacent(a, b) /\ ~ (Cost(g, a) <= Cost(g, b) + 1)}
<1>b. /\ g.from.x \in Nat /\ g.from.y \in Nat /\ g.to.x \in Nat /\ g.to.y \in Nat
  BY ProblemBounds
<1>g. \A a \in GridOf(g) :
        /\ a.x \in Nat /\ a.y \in Nat /\ a = [x |-> a.x, y |-> a.y]
        /\ g.from.x <= a.x /\ a.x <= g.to.x /\ g.from.y <= a.y /\ a.y <= g.to.y
        /\ Cost(g, a) \in Nat
  BY ProblemPoints DEF Cost
<1> SUFFICES ASSUME ~ (Cost(g, p) <= Cost(g, q) + 1) PROVE FALSE
  OBVIOUS
<1>1. PICK s \in Bad : \A t \in Bad : s <= t
  <2>1. q.x + q.y \in Bad /\ Bad \subseteq Nat
    BY <1>g
  <2> HIDE DEF Bad
  <2> QED BY <2>1, LeastElement
<1>2. PICK a \in GridOf(g), b \in GridOf(g) :
        b.x + b.y = s /\ Adjacent(a, b) /\ ~ (Cost(g, a) <= Cost(g, b) + 1)
  OBVIOUS
<1>3. ASSUME NEW c \in GridOf(g), NEW d \in GridOf(g), Adjacent(c, d), d.x + d.y < b.x + b.y
      PROVE  Cost(g, c) <= Cost(g, d) + 1
  <2> SUFFICES ASSUME ~ (Cost(g, c) <= Cost(g, d) + 1) PROVE FALSE
    OBVIOUS
  <2>1. d.x + d.y \in Bad
    BY <1>3, <1>g
  <2>2. s <= d.x + d.y /\ s = b.x + b.y
    BY <2>1, <1>1, <1>2
  <2> HIDE DEF Bad
  <2>3. b.x \in Nat /\ b.y \in Nat /\ d.x \in Nat /\ d.y \in Nat
    BY <1>g
  <2> QED BY <2>2, <2>3, <1>3
<1> HIDE DEF Bad
<1>4. /\ \A c, d \in GridOf(g) : \A w \in {0, 1} :
           Steps(g.equal, c, d, w) => Cost(g, d) <= Cost(g, c) + w
      /\ \A d \in GridOf(g) : d # g.from =>
           \E c \in GridOf(g) : \E w \in {0, 1} :
              Steps(g.equal, c, d, w) /\ Cost(g, d) = Cost(g, c) + w
  BY DistanceSteps
<1>5. b # g.from
  BY <1>2, <1>g, <1>b DEF Adjacent
<1>6. PICK c \in GridOf(g), w \in {0, 1} :
        Steps(g.equal, c, b, w) /\ Cost(g, b) = Cost(g, c) + w
  BY <1>4, <1>5
<1>7. /\ a.x \in Nat /\ a.y \in Nat /\ a = [x |-> a.x, y |-> a.y]
      /\ b.x \in Nat /\ b.y \in Nat
      /\ c.x \in Nat /\ c.y \in Nat /\ c = [x |-> c.x, y |-> c.y]
      /\ g.from.x <= a.x /\ a.x <= g.to.x /\ g.from.y <= a.y /\ a.y <= g.to.y
      /\ g.from.x <= c.x /\ c.x <= g.to.x /\ g.from.y <= c.y /\ c.y <= g.to.y
      /\ Cost(g, a) \in Nat /\ Cost(g, b) \in Nat /\ Cost(g, c) \in Nat
  BY <1>g
<1>8. Steps(g.equal, c, b, w) /\ Adjacent(a, b)
  BY <1>6, <1>2
<1>9. c # a
  BY <1>2, <1>6, <1>7
<1>10. CASE c.x = a.x /\ c.y = a.y
  BY <1>9, <1>10, <1>7
<1>11. CASE c.x + 1 = b.x /\ c.y + 1 = b.y /\ w = 0
  <2>1. Steps(g.equal, c, a, 1)
    BY <1>8, <1>11, <1>7 DEF Steps, Adjacent
  <2>2. Cost(g, a) <= Cost(g, c) + 1
    BY <2>1, <1>4
  <2> QED BY <2>2, <1>2, <1>6, <1>7, <1>11
<1>12. CASE /\ w = 1 /\ c.x + 1 = b.x /\ c.y = b.y
            /\ b.x = a.x /\ b.y = a.y + 1
  <2> DEFINE r == Point(c.x, a.y)
  <2>1. r \in GridOf(g) /\ r.x = c.x /\ r.y = a.y
    BY <1>7, InGridOf
  <2> HIDE DEF r
  <2>2. Adjacent(r, c) /\ c.x + c.y < b.x + b.y
    BY <2>1, <1>7, <1>12 DEF Adjacent
  <2>3. Cost(g, r) <= Cost(g, c) + 1 /\ Cost(g, r) \in Nat
    BY <2>1, <2>2, <1>3, <1>g
  <2>4. Steps(g.equal, r, a, 1)
    BY <2>1, <1>7, <1>12 DEF Steps
  <2>5. Cost(g, a) <= Cost(g, r) + 1
    BY <2>1, <2>4, <1>4
  <2> QED BY <2>3, <2>5, <1>2, <1>6, <1>7, <1>12
<1>13. CASE /\ w = 1 /\ c.x = b.x /\ c.y + 1 = b.y
            /\ b.x = a.x + 1 /\ b.y = a.y
  <2> DEFINE r == Point(a.x, c.y)
  <2>1. r \in GridOf(g) /\ r.x = a.x /\ r.y = c.y
    BY <1>7, InGridOf
  <2> HIDE DEF r
  <2>2. Adjacent(r, c) /\ c.x + c.y < b.x + b.y
    BY <2>1, <1>7, <1>13 DEF Adjacent
  <2>3. Cost(g, r) <= Cost(g, c) + 1 /\ Cost(g, r) \in Nat
    BY <2>1, <2>2, <1>3, <1>g
  <2>4. Steps(g.equal, r, a, 1)
    BY <2>1, <1>7, <1>13 DEF Steps
  <2>5. Cost(g, a) <= Cost(g, r) + 1
    BY <2>1, <2>4, <1>4
  <2> QED BY <2>3, <2>5, <1>2, <1>6, <1>7, <1>13
<1> QED BY <1>8, <1>7, <1>10, <1>11, <1>12, <1>13 DEF Steps, Adjacent

\* The edit distance does not shrink along a diagonal.
LEMMA DiagonalCost ==
  ASSUME NEW g, Problem(g), NEW p \in GridOf(g), NEW n \in Nat, Along(p, n) \in GridOf(g)
  PROVE  Cost(g, p) <= Cost(g, Along(p, n))
<1>g. \A a \in GridOf(g) :
        /\ a.x \in Nat /\ a.y \in Nat /\ a = [x |-> a.x, y |-> a.y]
        /\ g.from.x <= a.x /\ a.x <= g.to.x /\ g.from.y <= a.y /\ a.y <= g.to.y
        /\ Cost(g, a) \in Nat
  BY ProblemPoints DEF Cost
<1>b. /\ g.from.x \in Nat /\ g.from.y \in Nat /\ g.to.x \in Nat /\ g.to.y \in Nat
  BY ProblemBounds
<1>1. ASSUME NEW a \in GridOf(g), NEW b \in GridOf(g), b.x = a.x + 1, b.y = a.y + 1
      PROVE  Cost(g, a) <= Cost(g, b)
  <2>1. /\ a.x \in Nat /\ a.y \in Nat /\ a = [x |-> a.x, y |-> a.y]
        /\ g.from.x <= a.x /\ g.from.y <= a.y /\ b.x <= g.to.x /\ b.y <= g.to.y
        /\ Cost(g, a) \in Nat /\ Cost(g, b) \in Nat
    BY <1>g
  <2>2. b # g.from
    BY <2>1, <1>1, <1>b
  <2>3. PICK c \in GridOf(g), w \in {0, 1} :
          Steps(g.equal, c, b, w) /\ Cost(g, b) = Cost(g, c) + w
    BY <2>2, DistanceSteps
  <2>4. Steps(g.equal, c, b, w)
    BY <2>3
  <2>5. c.x \in Nat /\ c.y \in Nat /\ c = [x |-> c.x, y |-> c.y] /\ Cost(g, c) \in Nat
    BY <1>g
  <2>6. CASE w = 1 /\ Adjacent(a, c)
    <3>1. Cost(g, a) <= Cost(g, c) + 1
      BY <2>6, AdjacentCost
    <3> QED BY <3>1, <2>1, <2>3, <2>5, <2>6
  <2>7. CASE c.x = a.x /\ c.y = a.y
    <3>1. c = a
      BY <2>7, <2>1, <2>5
    <3> QED BY <3>1, <2>1, <2>3, <2>5
  <2> QED BY <2>4, <2>5, <2>6, <2>7, <2>1, <1>1 DEF Steps, Adjacent
<1> DEFINE Bad == {i \in Nat : i <= n /\ ~ (Cost(g, p) <= Cost(g, Along(p, i)))}
<1>2. p.x \in Nat /\ p.y \in Nat /\ p = [x |-> p.x, y |-> p.y] /\ Cost(g, p) \in Nat
  BY <1>g
<1>3. \A i \in Nat : Along(p, i).x = p.x + i /\ Along(p, i).y = p.y + i
  BY DEF Along, Point
<1>4. \A i \in Nat : i <= n => Along(p, i) \in GridOf(g)
  <2> TAKE i \in Nat
  <2> HAVE i <= n
  <2>1. p.x + n <= g.to.x /\ p.y + n <= g.to.y /\ g.from.x <= p.x /\ g.from.y <= p.y
    BY <1>3, <1>g
  <2>2. /\ p.x + i \in Nat /\ p.y + i \in Nat
        /\ g.from.x <= p.x + i /\ p.x + i <= g.to.x /\ g.from.y <= p.y + i /\ p.y + i <= g.to.y
    BY <2>1, <1>2, <1>b
  <2>3. Point(p.x + i, p.y + i) \in GridOf(g)
    BY <2>2, InGridOf
  <2> QED BY <2>3 DEF Along
<1> SUFFICES ASSUME ~ (Cost(g, p) <= Cost(g, Along(p, n))) PROVE FALSE
  OBVIOUS
<1>5. PICK i \in Bad : \A t \in Bad : i <= t
  <2>1. n \in Bad /\ Bad \subseteq Nat
    OBVIOUS
  <2> HIDE DEF Bad
  <2> QED BY <2>1, LeastElement
<1>6. i \in Nat /\ i <= n /\ ~ (Cost(g, p) <= Cost(g, Along(p, i)))
  OBVIOUS
<1>7. Along(p, 0) = p
  BY <1>2 DEF Along, Point
<1>8. i # 0
  BY <1>6, <1>7, <1>2
<1> DEFINE h == i - 1
<1>9. h \in Nat /\ h <= n /\ i = h + 1
  BY <1>6, <1>8
<1>10. ~ (h \in Bad)
  <2> HIDE DEF Bad, h
  <2> QED BY <1>5, <1>6, <1>9
<1>11. Cost(g, p) <= Cost(g, Along(p, h))
  BY <1>9, <1>10
<1> HIDE DEF Bad, h
<1>12. /\ Along(p, h) \in GridOf(g) /\ Along(p, i) \in GridOf(g)
       /\ Along(p, i).x = Along(p, h).x + 1 /\ Along(p, i).y = Along(p, h).y + 1
  BY <1>3, <1>4, <1>6, <1>9, <1>2
<1>13. Cost(g, Along(p, h)) <= Cost(g, Along(p, i))
  BY <1>12, <1>1
<1> QED BY <1>2, <1>6, <1>11, <1>12, <1>13, <1>g

\* To go on to a point takes as many edits as there are elements between, at most.
LEMMA CostOfAll ==
  ASSUME NEW g, Problem(g), NEW p \in GridOf(g), NEW q \in GridOf(g), p.x <= q.x, p.y <= q.y
  PROVE  Cost(g, q) <= Cost(g, p) + (q.x - p.x) + (q.y - p.y)
<1> DEFINE Far(a) == Cost(g, a) <= Cost(g, p) + (a.x - p.x) + (a.y - p.y)
           Bad == {s \in Nat : \E a \in GridOf(g) :
                                  a.x + a.y = s /\ p.x <= a.x /\ p.y <= a.y /\ ~ Far(a)}
<1>b. /\ g.from.x \in Nat /\ g.from.y \in Nat /\ g.to.x \in Nat /\ g.to.y \in Nat
  BY ProblemBounds
<1>g. \A a \in GridOf(g) :
        /\ a.x \in Nat /\ a.y \in Nat /\ a = [x |-> a.x, y |-> a.y]
        /\ g.from.x <= a.x /\ a.x <= g.to.x /\ g.from.y <= a.y /\ a.y <= g.to.y
        /\ Cost(g, a) \in Nat
  BY ProblemPoints DEF Cost
<1> SUFFICES ASSUME ~ Far(q) PROVE FALSE
  OBVIOUS
<1>1. PICK s \in Bad : \A t \in Bad : s <= t
  <2>1. q.x + q.y \in Bad /\ Bad \subseteq Nat
    BY <1>g
  <2> HIDE DEF Bad
  <2> QED BY <2>1, LeastElement
<1>2. PICK a \in GridOf(g) : a.x + a.y = s /\ p.x <= a.x /\ p.y <= a.y /\ ~ Far(a)
  OBVIOUS
<1>3. /\ a.x \in Nat /\ a.y \in Nat /\ a = [x |-> a.x, y |-> a.y]
      /\ p.x \in Nat /\ p.y \in Nat /\ p = [x |-> p.x, y |-> p.y]
      /\ g.from.x <= p.x /\ a.x <= g.to.x /\ g.from.y <= p.y /\ a.y <= g.to.y
      /\ Cost(g, a) \in Nat /\ Cost(g, p) \in Nat
  BY <1>g
<1>4. ASSUME NEW b \in GridOf(g), Adjacent(b, a), p.x <= b.x, p.y <= b.y PROVE FALSE
  <2>1. b.x \in Nat /\ b.y \in Nat /\ Cost(g, b) \in Nat
    BY <1>g
  <2>2. ~ (b.x + b.y \in Bad)
    <3> HIDE DEF Bad, Far
    <3> QED BY <1>1, <1>2, <1>3, <1>4, <2>1 DEF Adjacent
  <2>3. Far(b)
    BY <2>1, <2>2, <1>4
  <2>4. Steps(g.equal, b, a, 1)
    BY <1>4, <1>3, <2>1 DEF Adjacent, Steps
  <2>5. Cost(g, a) <= Cost(g, b) + 1
    BY <2>4, DistanceSteps
  <2> QED BY <2>1, <2>3, <2>5, <1>2, <1>3, <1>4 DEF Adjacent
<1>5. CASE a.x > p.x
  <2>1. Point(a.x - 1, a.y) \in GridOf(g) /\ Point(a.x - 1, a.y).x = a.x - 1 /\ Point(a.x - 1, a.y).y = a.y
    <3>1. a.x - 1 \in Nat /\ g.from.x <= a.x - 1 /\ a.x - 1 <= g.to.x /\ g.from.y <= a.y
      BY <1>2, <1>3, <1>5, <1>b
    <3> QED BY <3>1, <1>3, InGridOf
  <2>2. Adjacent(Point(a.x - 1, a.y), a)
    BY <2>1, <1>3 DEF Adjacent
  <2> QED BY <2>1, <2>2, <1>2, <1>3, <1>4, <1>5
<1>6. CASE a.y > p.y
  <2>1. Point(a.x, a.y - 1) \in GridOf(g) /\ Point(a.x, a.y - 1).x = a.x /\ Point(a.x, a.y - 1).y = a.y - 1
    <3>1. a.y - 1 \in Nat /\ g.from.y <= a.y - 1 /\ a.y - 1 <= g.to.y /\ g.from.x <= a.x
      BY <1>2, <1>3, <1>6, <1>b
    <3> QED BY <3>1, <1>3, InGridOf
  <2>2. Adjacent(Point(a.x, a.y - 1), a)
    BY <2>1, <1>3 DEF Adjacent
  <2> QED BY <2>1, <2>2, <1>2, <1>3, <1>4, <1>6
<1>7. CASE a.x = p.x /\ a.y = p.y
  <2>1. a = p
    BY <1>3, <1>7
  <2>2. Far(p)
    BY <1>3
  <2> QED BY <2>1, <2>2, <1>2
<1> QED BY <1>2, <1>3, <1>5, <1>6, <1>7

\* A point that is within reach and on a diagonal from which the far corner is
\* within reach lies in the grid, unless the corner is nearer than that.
LEMMA WithinGrid ==
  ASSUME NEW g, Problem(g), NEW p, Beyond(g, p),
         NEW k \in Int, OnDiagonal(g, p, k), NEW i \in Nat, NEW j \in Nat, Affordable(g, p, j),
         -i <= k - ((g.to.x - g.from.x) - (g.to.y - g.from.y)),
         k - ((g.to.x - g.from.x) - (g.to.y - g.from.y)) <= i,
         Cost(g, g.to) >= i + j
  PROVE  p \in GridOf(g) /\ Cost(g, p) <= j
<1> DEFINE x == p.x
           y == p.y
           a == g.from.x
           b == g.from.y
           c == g.to.x
           d == g.to.y
           z == Nearest(g, p)
           u == z.x
           v == z.y
           n == Cost(g, z)
           m == Cost(g, g.to)
<1>1. /\ a \in Nat /\ b \in Nat /\ c \in Nat /\ d \in Nat /\ a <= c /\ b <= d
      /\ g.to \in GridOf(g)
  BY ProblemBounds
<1>2. /\ x \in Nat /\ y \in Nat /\ x >= a /\ y >= b /\ p = [x |-> x, y |-> y]
      /\ (x - a) - (y - b) = k
  BY DEF Beyond, OnDiagonal, Points
<1>3. /\ z \in GridOf(g)
      /\ u = IF x <= c THEN x ELSE c
      /\ v = IF y <= d THEN y ELSE d
      /\ z = [x |-> u, y |-> v]
  BY NearestPoint DEF Nearest, Point
<1>4. n + (x - u) + (y - v) <= j
  BY DEF Affordable
<1>5. n \in Nat /\ m \in Nat
  BY <1>1, <1>3, ProblemPoints DEF Cost
<1>6. m <= n + (c - u) + (d - v)
  <2>1. u <= c /\ v <= d
    BY <1>1, <1>2, <1>3
  <2> QED BY <2>1, <1>1, <1>3, CostOfAll
<1>7. -i <= k - ((c - a) - (d - b)) /\ k - ((c - a) - (d - b)) <= i /\ m >= i + j
  OBVIOUS
<1> HIDE DEF x, y, a, b, c, d, z, u, v, n, m
<1>8. x <= c /\ y <= d
  <2>1. u \in Nat /\ v \in Nat
    BY <1>1, <1>2, <1>3
  <2>2. CASE x > c /\ y <= d
    BY <2>1, <2>2, <1>1, <1>2, <1>3, <1>4, <1>5, <1>6, <1>7
  <2>3. CASE x <= c /\ y > d
    BY <2>1, <2>3, <1>1, <1>2, <1>3, <1>4, <1>5, <1>6, <1>7
  <2>4. CASE x > c /\ y > d
    BY <2>1, <2>4, <1>1, <1>2, <1>3, <1>4, <1>5, <1>6, <1>7
  <2> QED BY <2>2, <2>3, <2>4, <1>1, <1>2
<1>9. u = x /\ v = y
  BY <1>3, <1>8
<1>10. z = p
  BY <1>2, <1>3, <1>9
<1>11. n <= j
  BY <1>4, <1>5, <1>9, <1>2
<1> QED BY <1>3, <1>10, <1>11 DEF n
-----------------------------------------------------------------------------
(***************************************************************************)
(* The edit distance between any two points, as a search sees it that goes *)
(* on from the first of them, and as one does that goes back from the      *)
(* second.                                                                 *)
(***************************************************************************)
Whole == Grid(Start, End)

Ordered(a, b) == a.x <= b.x /\ a.y <= b.y

Between(e, a, b) == EditDistance(e, a)[b]

Relations == SUBSET Cells(Start, End)

\* The points of the whole problem.
LEMMA WholeGrid ==
  /\ Start \in Points /\ End \in Points
  /\ Start.x = 0 /\ Start.y = 0 /\ End.x = SizeOne /\ End.y = SizeTwo
  /\ SizeOne \in Nat /\ SizeTwo \in Nat
  /\ \A a \in Whole : /\ a \in Points /\ a.x \in Nat /\ a.y \in Nat
                      /\ a.x <= SizeOne /\ a.y <= SizeTwo
                      /\ a = [x |-> a.x, y |-> a.y]
  /\ \A x, y \in Nat : x <= SizeOne /\ y <= SizeTwo =>
       Point(x, y) \in Whole /\ Point(x, y).x = x /\ Point(x, y).y = y
  /\ \A a, c \in Whole : \A p :
       p \in Grid(a, c) <=> p \in Whole /\ Ordered(a, p) /\ Ordered(p, c)
<1>1. /\ Start \in Points /\ End \in Points
      /\ Start.x = 0 /\ Start.y = 0 /\ End.x = SizeOne /\ End.y = SizeTwo
      /\ SizeOne \in Nat /\ SizeTwo \in Nat
  BY SizesAssumption DEF Start, End, Point, Points
<1>2. \A a \in Whole : /\ a \in Points /\ a.x \in Nat /\ a.y \in Nat
                       /\ a.x <= SizeOne /\ a.y <= SizeTwo
                       /\ a = [x |-> a.x, y |-> a.y]
  BY <1>1 DEF Whole, Grid, Points
<1>3. \A x, y \in Nat : x <= SizeOne /\ y <= SizeTwo =>
        Point(x, y) \in Whole /\ Point(x, y).x = x /\ Point(x, y).y = y
  BY <1>1 DEF Whole, Grid, Point
<1>4. ASSUME NEW a \in Whole, NEW c \in Whole, NEW p
      PROVE  p \in Grid(a, c) <=> p \in Whole /\ Ordered(a, p) /\ Ordered(p, c)
  BY <1>1, <1>2 DEF Whole, Grid, Ordered
<1> QED BY <1>1, <1>2, <1>3, <1>4

\* The search that goes on from a.
Onward(e, a, c) ==
  [from |-> a, to |-> c, equal |-> e, cost |-> [p \in Grid(a, c) |-> Between(e, a, p)]]

\* What is between two points is a problem that starts at the first.
LEMMA OnwardProblem ==
  ASSUME NEW e \in Relations, NEW a \in Whole, NEW c \in Whole, Ordered(a, c)
  PROVE  /\ Problem(Onward(e, a, c))
         /\ GridOf(Onward(e, a, c)) = Grid(a, c)
         /\ \A p \in Grid(a, c) : Cost(Onward(e, a, c), p) = Between(e, a, p)
<1> DEFINE d == EditDistance(e, a)
           f == [p \in Grid(a, c) |-> Between(e, a, p)]
<1>1. IsEditDistance(e, d, a, End)
  BY EditDistanceAssumption DEF Relations, Whole
<1>2. \A p \in Grid(a, c) : p \in Grid(a, End)
  BY WholeGrid DEF Whole, Grid
<1>3. \A p \in Grid(a, c) : d[p] = f[p]
  BY DEF Between
<1>4. a \in Points /\ c \in Points /\ a \in Grid(a, c)
  BY WholeGrid DEF Ordered
<1>5. \A p \in Grid(a, c) : /\ ByDeletion(a, p) => Left(p) \in Grid(a, c)
                            /\ ByInsertion(a, p) => Above(p) \in Grid(a, c)
                            /\ ByMatch(e, a, p) => Diagonal(p) \in Grid(a, c)
  BY <1>4, GridPoints
<1>6. IsEditDistance(e, f, a, c)
  <2>1. f \in [Grid(a, c) -> Nat]
    BY <1>1, <1>2, <1>3 DEF IsEditDistance
  <2>2. f[a] = 0
    BY <1>1, <1>3, <1>4 DEF IsEditDistance
  <2>3. ASSUME NEW p \in Grid(a, c)
        PROVE  /\ ByDeletion(a, p) => f[p] <= f[Left(p)] + 1
               /\ ByInsertion(a, p) => f[p] <= f[Above(p)] + 1
               /\ ByMatch(e, a, p) => f[p] <= f[Diagonal(p)]
               /\ \/ p = a
                  \/ ByDeletion(a, p) /\ f[p] = f[Left(p)] + 1
                  \/ ByInsertion(a, p) /\ f[p] = f[Above(p)] + 1
                  \/ ByMatch(e, a, p) /\ f[p] = f[Diagonal(p)]
    <3> HIDE DEF d, f
    <3>1. p \in Grid(a, End)
      BY <1>2
    <3> QED BY <3>1, <1>1, <1>3, <1>5 DEF IsEditDistance
  <2> QED BY <2>1, <2>2, <2>3 DEF IsEditDistance
<1>7. Problem(Onward(e, a, c))
  BY <1>4, <1>6 DEF Problem, Onward, Ordered
<1> QED BY <1>7 DEF Onward, GridOf, Cost

\* The edits from a point, step by step.
LEMMA OnwardSteps ==
  ASSUME NEW e \in Relations, NEW a \in Whole
  PROVE  /\ Between(e, a, a) = 0
         /\ \A p \in Whole : Ordered(a, p) => Between(e, a, p) \in Nat
         /\ \A p, q \in Whole : \A w \in {0, 1} :
              Ordered(a, p) /\ Steps(e, p, q, w) => Between(e, a, q) <= Between(e, a, p) + w
         /\ \A q \in Whole : Ordered(a, q) /\ q # a =>
              \E p \in Whole : \E w \in {0, 1} :
                Ordered(a, p) /\ Steps(e, p, q, w) /\ Between(e, a, q) = Between(e, a, p) + w
<1> DEFINE g == Onward(e, a, End)
<1>1. End \in Whole /\ Ordered(a, End) /\ \A p \in Whole : Ordered(p, End)
  <2>1. \A p \in Whole : Ordered(p, End)
    BY WholeGrid DEF Ordered
  <2>2. End \in Whole
    BY WholeGrid DEF End
  <2> QED BY <2>1, <2>2
<1>2. /\ Problem(g) /\ GridOf(g) = Grid(a, End)
      /\ \A p \in Grid(a, End) : Cost(g, p) = Between(e, a, p)
  BY <1>1, OnwardProblem
<1>3. g.from = a /\ g.equal = e
  BY DEF Onward
<1> HIDE DEF g
<1>4. \A p : p \in Grid(a, End) <=> p \in Whole /\ Ordered(a, p)
  BY WholeGrid, <1>1
<1>5. /\ \A p \in GridOf(g) : Cost(g, p) \in Nat
      /\ Cost(g, a) = 0 /\ a \in GridOf(g)
  BY <1>2, <1>3, ProblemBounds DEF Cost
<1>6. /\ \A p, q \in GridOf(g) : \A w \in {0, 1} :
           Steps(e, p, q, w) => Cost(g, q) <= Cost(g, p) + w
      /\ \A q \in GridOf(g) : q # a =>
           \E p \in GridOf(g) : \E w \in {0, 1} :
              Steps(e, p, q, w) /\ Cost(g, q) = Cost(g, p) + w
  BY <1>2, <1>3, DistanceSteps
<1>7. \A p, q \in Whole : \A w \in {0, 1} : Ordered(a, p) /\ Steps(e, p, q, w) => Ordered(a, q)
  BY WholeGrid DEF Ordered, Steps
<1> QED BY <1>2, <1>4, <1>5, <1>6, <1>7

\* The order of the points is transitive.
LEMMA OrderedTransitive ==
  ASSUME NEW a \in Whole, NEW b \in Whole, NEW c \in Whole, Ordered(a, b), Ordered(b, c)
  PROVE  Ordered(a, c)
  BY WholeGrid DEF Ordered

\* What there is to edit on the way is to be edited before the end of it.
LEMMA Triangle ==
  ASSUME NEW e \in Relations, NEW a \in Whole, NEW b \in Whole, NEW c \in Whole,
         Ordered(a, b), Ordered(b, c)
  PROVE  Between(e, a, c) <= Between(e, a, b) + Between(e, b, c)
<1> DEFINE Good(p) == Between(e, a, p) <= Between(e, a, b) + Between(e, b, p)
           Bad == {s \in Nat : \E p \in Whole : p.x + p.y = s /\ Ordered(b, p) /\ ~ Good(p)}
<1> SUFFICES ASSUME ~ Good(c) PROVE FALSE
  OBVIOUS
<1>w. \A p \in Whole : p.x \in Nat /\ p.y \in Nat
  BY WholeGrid
<1>1. PICK s \in Bad : \A t \in Bad : s <= t
  <2>1. c.x + c.y \in Bad /\ Bad \subseteq Nat
    BY <1>w
  <2> HIDE DEF Bad
  <2> QED BY <2>1, LeastElement
<1>2. PICK q \in Whole : q.x + q.y = s /\ Ordered(b, q) /\ ~ Good(q)
  OBVIOUS
<1>3. Between(e, a, b) \in Nat /\ Between(e, b, b) = 0
  BY OnwardSteps
<1>4. q # b
  BY <1>2, <1>3
<1>5. PICK p \in Whole, w \in {0, 1} :
        Ordered(b, p) /\ Steps(e, p, q, w) /\ Between(e, b, q) = Between(e, b, p) + w
  BY <1>2, <1>4, OnwardSteps
<1>6. p.x + p.y \in Nat /\ p.x + p.y < s
  BY <1>w, <1>2, <1>5 DEF Steps
<1>7. ~ (p.x + p.y \in Bad)
  <2> HIDE DEF Bad, Good
  <2>1. s \in Nat
    BY <1>w, <1>2
  <2> QED BY <1>1, <1>6, <2>1
<1>8. Good(p)
  BY <1>5, <1>6, <1>7
<1>9. Ordered(a, p) /\ Ordered(a, q)
  BY <1>2, <1>5, OrderedTransitive
<1>10. Between(e, a, q) <= Between(e, a, p) + w
  BY <1>5, <1>9, OnwardSteps
<1>11. /\ Between(e, a, p) \in Nat /\ Between(e, a, q) \in Nat
       /\ Between(e, b, p) \in Nat /\ Between(e, b, q) \in Nat
  BY <1>2, <1>5, <1>9, OnwardSteps
<1>12. Good(q)
  BY <1>3, <1>5, <1>8, <1>10, <1>11
<1> QED BY <1>2, <1>12

\* A step never goes back.
LEMMA StepsOrdered ==
  ASSUME NEW e, NEW p \in Whole, NEW q \in Whole, NEW w, Steps(e, p, q, w)
  PROVE  Ordered(p, q)
  BY WholeGrid DEF Ordered, Steps

\* The first step of a shortest way.
LEMMA FirstStep ==
  ASSUME NEW e \in Relations, NEW a \in Whole, NEW c \in Whole, Ordered(a, c), a # c
  PROVE  \E b \in Whole : \E w \in {0, 1} :
           Ordered(b, c) /\ Steps(e, a, b, w) /\ Between(e, a, c) = Between(e, b, c) + w
<1> DEFINE Good(q) == \E b \in Whole : \E w \in {0, 1} :
             Ordered(b, q) /\ Steps(e, a, b, w) /\ Between(e, a, q) = Between(e, b, q) + w
           Bad == {s \in Nat : \E q \in Whole :
                     q.x + q.y = s /\ Ordered(a, q) /\ q # a /\ ~ Good(q)}
<1> SUFFICES ASSUME ~ Good(c) PROVE FALSE
  OBVIOUS
<1>w. \A p \in Whole : p.x \in Nat /\ p.y \in Nat
  BY WholeGrid
<1>1. PICK s \in Bad : \A t \in Bad : s <= t
  <2>1. c.x + c.y \in Bad /\ Bad \subseteq Nat
    BY <1>w
  <2> HIDE DEF Bad
  <2> QED BY <2>1, LeastElement
<1>2. PICK q \in Whole : q.x + q.y = s /\ Ordered(a, q) /\ q # a /\ ~ Good(q)
  OBVIOUS
<1>3. PICK p \in Whole, w \in {0, 1} :
        Ordered(a, p) /\ Steps(e, p, q, w) /\ Between(e, a, q) = Between(e, a, p) + w
  BY <1>2, OnwardSteps
<1>4. CASE p = a
  <2>1. Between(e, a, a) = 0 /\ Between(e, q, q) = 0
    BY OnwardSteps
  <2>2. Ordered(q, q)
    BY <1>w DEF Ordered
  <2> QED BY <2>1, <2>2, <1>2, <1>3, <1>4
<1>5. CASE p # a
  <2>1. p.x + p.y \in Nat /\ p.x + p.y < s /\ s \in Nat
    BY <1>w, <1>2, <1>3 DEF Steps
  <2>2. ~ (p.x + p.y \in Bad)
    <3> HIDE DEF Bad, Good
    <3> QED BY <1>1, <2>1
  <2>3. Good(p)
    BY <1>3, <1>5, <2>1, <2>2
  <2>4. PICK b \in Whole, v \in {0, 1} :
          Ordered(b, p) /\ Steps(e, a, b, v) /\ Between(e, a, p) = Between(e, b, p) + v
    BY <2>3
  <2> HIDE DEF Bad
  <2>5. Ordered(p, q) /\ Ordered(b, q) /\ Ordered(a, b) /\ Ordered(a, a)
    BY <1>3, <2>4, <1>w, StepsOrdered, OrderedTransitive DEF Ordered
  <2>6. Between(e, b, q) <= Between(e, b, p) + w
    BY <1>3, <2>4, OnwardSteps
  <2>7. Between(e, a, q) <= Between(e, a, b) + Between(e, b, q)
    BY <2>5, Triangle
  <2>8. Between(e, a, b) <= v
    <3>1. Between(e, a, b) <= Between(e, a, a) + v /\ Between(e, a, a) = 0
      BY <2>4, <2>5, OnwardSteps
    <3> QED BY <3>1
  <2>9. /\ Between(e, a, p) \in Nat /\ Between(e, a, q) \in Nat /\ Between(e, a, b) \in Nat
        /\ Between(e, b, p) \in Nat /\ Between(e, b, q) \in Nat
    BY <1>2, <1>3, <2>4, <2>5, OnwardSteps
  <2>10. Between(e, a, q) = Between(e, b, q) + v
    BY <1>3, <2>4, <2>6, <2>7, <2>8, <2>9
  <2> QED BY <2>10, <2>4, <2>5, <1>2
<1> QED BY <1>4, <1>5

\* A shortest way has a point after any number of its edits.
LEMMA Midpoint ==
  ASSUME NEW e \in Relations, NEW a \in Whole, NEW c \in Whole, Ordered(a, c),
         NEW n \in Nat, n <= Between(e, a, c)
  PROVE  \E b \in Whole : /\ Ordered(a, b) /\ Ordered(b, c)
                          /\ Between(e, a, b) = n
                          /\ Between(e, b, c) = Between(e, a, c) - n
<1> DEFINE Good(q) == \E b \in Whole : /\ Ordered(a, b) /\ Ordered(b, q)
                                       /\ Between(e, a, b) = n
                                       /\ Between(e, b, q) = Between(e, a, q) - n
           Bad == {s \in Nat : \E q \in Whole :
                     q.x + q.y = s /\ Ordered(a, q) /\ n <= Between(e, a, q) /\ ~ Good(q)}
<1> SUFFICES ASSUME ~ Good(c) PROVE FALSE
  OBVIOUS
<1>w. \A p \in Whole : p.x \in Nat /\ p.y \in Nat
  BY WholeGrid
<1>1. PICK s \in Bad : \A t \in Bad : s <= t
  <2>1. c.x + c.y \in Bad /\ Bad \subseteq Nat
    BY <1>w
  <2> HIDE DEF Bad
  <2> QED BY <2>1, LeastElement
<1>2. PICK q \in Whole : q.x + q.y = s /\ Ordered(a, q) /\ n <= Between(e, a, q) /\ ~ Good(q)
  OBVIOUS
<1>o. Ordered(q, q)
  BY <1>w DEF Ordered
<1>3. Between(e, a, q) # n
  <2>1. Between(e, q, q) = 0
    BY OnwardSteps
  <2> QED BY <2>1, <1>2, <1>o
<1>4. q # a
  <2>1. Between(e, a, a) = 0
    BY OnwardSteps
  <2> QED BY <2>1, <1>2, <1>3
<1>5. PICK p \in Whole, w \in {0, 1} :
        Ordered(a, p) /\ Steps(e, p, q, w) /\ Between(e, a, q) = Between(e, a, p) + w
  BY <1>2, <1>4, OnwardSteps
<1>6. p.x + p.y \in Nat /\ p.x + p.y < s /\ s \in Nat
  BY <1>w, <1>2, <1>5 DEF Steps
<1>7. ~ (p.x + p.y \in Bad)
  <2> HIDE DEF Bad, Good
  <2> QED BY <1>1, <1>6
<1>8. n <= Between(e, a, p)
  <2>1. Between(e, a, p) \in Nat /\ Between(e, a, q) \in Nat
    BY <1>2, <1>5, OnwardSteps
  <2> QED BY <2>1, <1>2, <1>3, <1>5
<1>9. Good(p)
  BY <1>5, <1>6, <1>7, <1>8
<1> HIDE DEF Bad
<1>10. PICK b \in Whole : /\ Ordered(a, b) /\ Ordered(b, p)
                          /\ Between(e, a, b) = n
                          /\ Between(e, b, p) = Between(e, a, p) - n
  BY <1>9
<1>11. Ordered(p, q) /\ Ordered(b, q)
  BY <1>5, <1>10, StepsOrdered, OrderedTransitive
<1>12. Between(e, b, q) <= Between(e, b, p) + w
  BY <1>5, <1>10, OnwardSteps
<1>13. Between(e, a, q) <= Between(e, a, b) + Between(e, b, q)
  BY <1>10, <1>11, Triangle
<1>14. /\ Between(e, a, p) \in Nat /\ Between(e, a, q) \in Nat
       /\ Between(e, b, p) \in Nat /\ Between(e, b, q) \in Nat
  BY <1>2, <1>5, <1>10, <1>11, OnwardSteps
<1>15. Between(e, b, q) = Between(e, a, q) - n
  BY <1>5, <1>10, <1>12, <1>13, <1>14
<1> QED BY <1>2, <1>10, <1>11, <1>15

\* The search that goes back from c is one that goes on, on the grid turned around.
Turn(c, p) == Point(c.x - p.x, c.y - p.y)

TurnedCells(e, a, c) ==
  {k \in (0 .. c.x - a.x - 1) \X (0 .. c.y - a.y - 1) : <<c.x - 1 - k[1], c.y - 1 - k[2]>> \in e}

Backward(e, a, c) ==
  [from |-> Point(0, 0), to |-> Turn(c, a), equal |-> TurnedCells(e, a, c),
   cost |-> [p \in Grid(Point(0, 0), Turn(c, a)) |-> Between(e, Turn(c, p), c)]]

\* A point turned twice is where it was.
LEMMA TurnTwice ==
  ASSUME NEW c \in Whole, NEW x \in Int, NEW y \in Int
  PROVE  /\ Turn(c, Point(x, y)).x = c.x - x /\ Turn(c, Point(x, y)).y = c.y - y
         /\ Turn(c, Turn(c, Point(x, y))) = Point(x, y)
<1>1. c.x \in Nat /\ c.y \in Nat
  BY WholeGrid
<1> QED BY <1>1 DEF Turn, Point

\* A grid turned around is a grid, and each point of the one is one of the other.
LEMMA TurnedGrid ==
  ASSUME NEW a \in Whole, NEW c \in Whole, Ordered(a, c)
  PROVE  /\ Point(0, 0) \in Points /\ Turn(c, a) \in Points
         /\ Turn(c, a).x = c.x - a.x /\ Turn(c, a).y = c.y - a.y
         /\ \A p \in Grid(a, c) : /\ Turn(c, p) \in Grid(Point(0, 0), Turn(c, a))
                                  /\ Turn(c, p).x = c.x - p.x /\ Turn(c, p).y = c.y - p.y
                                  /\ Turn(c, Turn(c, p)) = p
         /\ \A t \in Grid(Point(0, 0), Turn(c, a)) :
              /\ Turn(c, t) \in Grid(a, c)
              /\ Turn(c, t).x = c.x - t.x /\ Turn(c, t).y = c.y - t.y
              /\ t.x \in Nat /\ t.y \in Nat /\ t.x <= c.x - a.x /\ t.y <= c.y - a.y
              /\ t = [x |-> t.x, y |-> t.y]
              /\ Turn(c, Turn(c, t)) = t
<1>1. /\ a.x \in Nat /\ a.y \in Nat /\ c.x \in Nat /\ c.y \in Nat
      /\ a.x <= c.x /\ a.y <= c.y
  BY WholeGrid DEF Ordered
<1>2. Point(0, 0) \in Points /\ Turn(c, a) \in Points
  BY <1>1 DEF Turn, Point, Points
<1>3. Turn(c, a).x = c.x - a.x /\ Turn(c, a).y = c.y - a.y
  BY DEF Turn, Point
<1>4. ASSUME NEW p \in Grid(a, c)
      PROVE  /\ Turn(c, p) \in Grid(Point(0, 0), Turn(c, a))
             /\ Turn(c, p).x = c.x - p.x /\ Turn(c, p).y = c.y - p.y
             /\ Turn(c, Turn(c, p)) = p
  <2>1. /\ p.x \in Int /\ p.y \in Int /\ p = [x |-> p.x, y |-> p.y]
        /\ a.x <= p.x /\ p.x <= c.x /\ a.y <= p.y /\ p.y <= c.y
    BY <1>1 DEF Grid
  <2>2. Turn(c, p).x = c.x - p.x /\ Turn(c, p).y = c.y - p.y
    BY DEF Turn, Point
  <2>3. Turn(c, p) \in Grid(Point(0, 0), Turn(c, a))
    BY <1>1, <2>1 DEF Grid, Turn, Point
  <2>4. Turn(c, Turn(c, p)) = p
    BY <1>1, <2>1 DEF Turn, Point
  <2> QED BY <2>2, <2>3, <2>4
<1>5. ASSUME NEW t \in Grid(Point(0, 0), Turn(c, a))
      PROVE  /\ Turn(c, t) \in Grid(a, c)
             /\ Turn(c, t).x = c.x - t.x /\ Turn(c, t).y = c.y - t.y
             /\ t.x \in Nat /\ t.y \in Nat /\ t.x <= c.x - a.x /\ t.y <= c.y - a.y
             /\ t = [x |-> t.x, y |-> t.y]
             /\ Turn(c, Turn(c, t)) = t
  <2>1. /\ t.x \in Int /\ t.y \in Int /\ t = [x |-> t.x, y |-> t.y]
        /\ 0 <= t.x /\ t.x <= c.x - a.x /\ 0 <= t.y /\ t.y <= c.y - a.y
    BY <1>1 DEF Grid, Turn, Point
  <2>2. Turn(c, t).x = c.x - t.x /\ Turn(c, t).y = c.y - t.y
    BY DEF Turn, Point
  <2>3. Turn(c, t) \in Grid(a, c)
    BY <1>1, <2>1 DEF Grid, Turn, Point
  <2>4. Turn(c, Turn(c, t)) = t
    BY <1>1, <2>1 DEF Turn, Point
  <2> QED BY <2>1, <2>2, <2>3, <2>4
<1> QED BY <1>2, <1>3, <1>4, <1>5

\* A step of the turned grid is one of the grid, taken the other way.
LEMMA TurnedSteps ==
  ASSUME NEW e \in Relations, NEW a \in Whole, NEW c \in Whole, Ordered(a, c),
         NEW s \in Grid(Point(0, 0), Turn(c, a)), NEW t \in Grid(Point(0, 0), Turn(c, a)),
         NEW w \in {0, 1}
  PROVE  Steps(TurnedCells(e, a, c), s, t, w) <=> Steps(e, Turn(c, t), Turn(c, s), w)
<1>1. /\ a.x \in Nat /\ a.y \in Nat /\ c.x \in Nat /\ c.y \in Nat
      /\ a.x <= c.x /\ a.y <= c.y
  BY WholeGrid DEF Ordered
<1>2. /\ s.x \in Nat /\ s.y \in Nat /\ s.x <= c.x - a.x /\ s.y <= c.y - a.y
      /\ t.x \in Nat /\ t.y \in Nat /\ t.x <= c.x - a.x /\ t.y <= c.y - a.y
      /\ Turn(c, s).x = c.x - s.x /\ Turn(c, s).y = c.y - s.y
      /\ Turn(c, t).x = c.x - t.x /\ Turn(c, t).y = c.y - t.y
  BY TurnedGrid
<1>3. ASSUME t.x = s.x + 1, t.y = s.y + 1
      PROVE  <<s.x, s.y>> \in TurnedCells(e, a, c) <=> <<Turn(c, t).x, Turn(c, t).y>> \in e
  <2>1. s.x \in 0 .. c.x - a.x - 1 /\ s.y \in 0 .. c.y - a.y - 1
    BY <1>1, <1>2, <1>3
  <2>2. c.x - 1 - s.x = Turn(c, t).x /\ c.y - 1 - s.y = Turn(c, t).y
    BY <1>1, <1>2, <1>3
  <2> QED BY <2>1, <2>2 DEF TurnedCells
<1>4. /\ t.x = s.x + 1 <=> Turn(c, s).x = Turn(c, t).x + 1
      /\ t.y = s.y + 1 <=> Turn(c, s).y = Turn(c, t).y + 1
      /\ t.x = s.x <=> Turn(c, s).x = Turn(c, t).x
      /\ t.y = s.y <=> Turn(c, s).y = Turn(c, t).y
  <2> DEFINE m == c.x
             n == c.y
             i == s.x
             j == s.y
             u == t.x
             v == t.y
  <2>1. /\ m \in Int /\ n \in Int /\ i \in Int /\ j \in Int /\ u \in Int /\ v \in Int
        /\ Turn(c, s).x = m - i /\ Turn(c, s).y = n - j
        /\ Turn(c, t).x = m - u /\ Turn(c, t).y = n - v
    BY <1>1, <1>2
  <2> HIDE DEF m, n, i, j, u, v
  <2>2. /\ u = i + 1 <=> m - i = (m - u) + 1
        /\ v = j + 1 <=> n - j = (n - v) + 1
        /\ u = i <=> m - i = m - u
        /\ v = j <=> n - j = n - v
    BY <2>1
  <2>3. /\ u = i + 1 <=> Turn(c, s).x = Turn(c, t).x + 1
        /\ v = j + 1 <=> Turn(c, s).y = Turn(c, t).y + 1
        /\ u = i <=> Turn(c, s).x = Turn(c, t).x
        /\ v = j <=> Turn(c, s).y = Turn(c, t).y
    BY <2>1, <2>2
  <2> QED BY <2>3 DEF u, v, i, j
<1> QED BY <1>3, <1>4 DEF Steps

\* What is between two points is, turned around, a problem that starts at the
\* second.
LEMMA BackwardProblem ==
  ASSUME NEW e \in Relations, NEW a \in Whole, NEW c \in Whole, Ordered(a, c)
  PROVE  /\ Problem(Backward(e, a, c))
         /\ GridOf(Backward(e, a, c)) = Grid(Point(0, 0), Turn(c, a))
         /\ \A p \in Grid(a, c) : Cost(Backward(e, a, c), Turn(c, p)) = Between(e, p, c)
<1> DEFINE G == Grid(Point(0, 0), Turn(c, a))
           d == [p \in G |-> Between(e, Turn(c, p), c)]
           E == TurnedCells(e, a, c)
<1>1. /\ Point(0, 0) \in Points /\ Turn(c, a) \in Points
      /\ Turn(c, a).x = c.x - a.x /\ Turn(c, a).y = c.y - a.y
      /\ \A p \in Grid(a, c) : /\ Turn(c, p) \in G
                               /\ Turn(c, Turn(c, p)) = p
      /\ \A t \in G : /\ Turn(c, t) \in Grid(a, c)
                      /\ Turn(c, Turn(c, t)) = t
  BY TurnedGrid
<1>2. \A p : p \in Grid(a, c) <=> p \in Whole /\ Ordered(a, p) /\ Ordered(p, c)
  BY WholeGrid
<1>3. c \in Grid(a, c) /\ Turn(c, c) = Point(0, 0)
  <2>1. Ordered(c, c) /\ c.x \in Nat /\ c.y \in Nat
    BY WholeGrid DEF Ordered
  <2> QED BY <2>1, <1>2 DEF Turn
<1>4. d \in [G -> Nat]
  BY <1>1, <1>2, OnwardSteps
<1>5. d[Point(0, 0)] = 0 /\ Point(0, 0) \in G
  BY <1>1, <1>3, OnwardSteps
<1>6. ASSUME NEW s \in G, NEW t \in G, NEW w \in {0, 1}, Steps(E, s, t, w)
      PROVE  d[t] <= d[s] + w
  <2> DEFINE p == Turn(c, t)
             q == Turn(c, s)
  <2>1. Steps(e, p, q, w)
    BY <1>6, TurnedSteps
  <2>2. p \in Grid(a, c) /\ q \in Grid(a, c) /\ d[t] = Between(e, p, c) /\ d[s] = Between(e, q, c)
    BY <1>1
  <2> HIDE DEF p, q, d
  <2>3. /\ p \in Whole /\ q \in Whole /\ Ordered(p, c) /\ Ordered(q, c) /\ Ordered(p, q)
        /\ Ordered(p, p)
    BY <2>1, <2>2, <1>2, StepsOrdered, WholeGrid DEF Ordered
  <2>4. Between(e, p, c) <= Between(e, p, q) + Between(e, q, c)
    BY <2>3, Triangle
  <2>5. Between(e, p, q) <= Between(e, p, p) + w /\ Between(e, p, p) = 0
    BY <2>1, <2>3, OnwardSteps
  <2>6. Between(e, p, c) \in Nat /\ Between(e, p, q) \in Nat /\ Between(e, q, c) \in Nat
    BY <2>3, OnwardSteps
  <2> QED BY <2>2, <2>4, <2>5, <2>6
<1>7. ASSUME NEW t \in G, t # Point(0, 0)
      PROVE  \E s \in G : \E w \in {0, 1} : Steps(E, s, t, w) /\ d[t] = d[s] + w
  <2> DEFINE p == Turn(c, t)
  <2>1. p \in Grid(a, c) /\ d[t] = Between(e, p, c) /\ Turn(c, p) = t
    BY <1>1
  <2>2. p # c
    BY <2>1, <1>3, <1>7
  <2> HIDE DEF p, d, E
  <2>3. PICK q \in Whole, w \in {0, 1} :
          Ordered(q, c) /\ Steps(e, p, q, w) /\ Between(e, p, c) = Between(e, q, c) + w
    BY <2>1, <2>2, <1>2, FirstStep
  <2>4. q \in Grid(a, c)
    BY <2>1, <2>3, <1>2, StepsOrdered, OrderedTransitive
  <2> DEFINE s == Turn(c, q)
  <2>5. s \in G /\ Turn(c, s) = q
    BY <2>4, <1>1
  <2>6. d[s] = Between(e, q, c)
    BY <2>5 DEF d
  <2> HIDE DEF s
  <2>7. Steps(E, s, t, w)
    BY <2>3, <2>5, TurnedSteps DEF E, p
  <2> QED BY <2>1, <2>3, <2>5, <2>6, <2>7
<1>8. IsEditDistance(E, d, Point(0, 0), Turn(c, a))
  <2> HIDE DEF E, d
  <2> QED BY <1>1, <1>4, <1>5, <1>6, <1>7, StepsDistance
<1>9. Point(0, 0).x <= Turn(c, a).x /\ Point(0, 0).y <= Turn(c, a).y
  BY <1>1, WholeGrid DEF Ordered, Point
<1>10. Problem(Backward(e, a, c)) /\ GridOf(Backward(e, a, c)) = G
  BY <1>1, <1>8, <1>9 DEF Problem, Backward, GridOf
<1>11. \A p \in Grid(a, c) : Cost(Backward(e, a, c), Turn(c, p)) = Between(e, p, c)
  BY <1>1 DEF Cost, Backward
<1> QED BY <1>10, <1>11

\* Equal elements cost nothing.
LEMMA CommonFree ==
  ASSUME NEW e \in Relations, NEW p \in Whole, NEW q \in Whole, Common(e, p, q)
  PROVE  Between(e, p, q) = 0 /\ Ordered(p, q)
<1> DEFINE n == q.x - p.x
           Bad == {i \in Nat : i <= n /\ Between(e, p, Along(p, i)) # 0}
<1>1. /\ p.x \in Nat /\ p.y \in Nat /\ p = [x |-> p.x, y |-> p.y]
      /\ q.x \in Nat /\ q.y \in Nat /\ q = [x |-> q.x, y |-> q.y]
      /\ q.x <= SizeOne /\ q.y <= SizeTwo /\ SizeOne \in Nat /\ SizeTwo \in Nat
  BY WholeGrid
<1>2. /\ q.x - p.x = q.y - p.y /\ q.x >= p.x
      /\ \A i \in 0 .. n - 1 : <<p.x + i, p.y + i>> \in e
  BY DEF Common
<1>3. n \in Nat /\ q = Along(p, n) /\ Ordered(p, q)
  BY <1>1, <1>2 DEF Along, Point, Ordered
<1>4. \A i \in Nat : i <= n => /\ Along(p, i) \in Whole /\ Ordered(p, Along(p, i))
                               /\ Along(p, i).x = p.x + i /\ Along(p, i).y = p.y + i
  <2> TAKE i \in Nat
  <2> HAVE i <= n
  <2>1. p.x + i \in Nat /\ p.y + i \in Nat /\ p.x + i <= SizeOne /\ p.y + i <= SizeTwo
    BY <1>1, <1>2
  <2>2. Along(p, i) = Point(p.x + i, p.y + i)
    BY DEF Along
  <2> QED BY <2>1, <2>2, <1>1, WholeGrid DEF Ordered
<1> SUFFICES ASSUME Between(e, p, q) # 0 PROVE FALSE
  BY <1>3
<1>5. PICK i \in Bad : \A t \in Bad : i <= t
  <2>1. n \in Bad /\ Bad \subseteq Nat
    BY <1>3
  <2> HIDE DEF Bad
  <2> QED BY <2>1, LeastElement
<1>6. i \in Nat /\ i <= n /\ Between(e, p, Along(p, i)) # 0
  OBVIOUS
<1>7. i # 0
  <2>1. Along(p, 0) = p
    BY <1>1 DEF Along, Point
  <2> QED BY <2>1, <1>6, OnwardSteps
<1> DEFINE h == i - 1
<1>8. h \in Nat /\ h <= n /\ i = h + 1 /\ h \in 0 .. n - 1
  BY <1>3, <1>6, <1>7
<1>9. ~ (h \in Bad)
  <2> HIDE DEF Bad, h
  <2> QED BY <1>5, <1>6, <1>8
<1>10. Between(e, p, Along(p, h)) = 0
  BY <1>8, <1>9
<1>11. <<p.x + h, p.y + h>> \in e
  BY <1>2, <1>8
<1> HIDE DEF Bad, h, n
<1>12. /\ Along(p, h) \in Whole /\ Ordered(p, Along(p, h))
       /\ Along(p, h).x = p.x + h /\ Along(p, h).y = p.y + h
       /\ Along(p, i) \in Whole /\ Ordered(p, Along(p, i))
       /\ Along(p, i).x = p.x + i /\ Along(p, i).y = p.y + i
  BY <1>4, <1>6, <1>8
<1>13. Steps(e, Along(p, h), Along(p, i), 0)
  BY <1>1, <1>8, <1>11, <1>12 DEF Steps
<1>14. Between(e, p, Along(p, i)) <= Between(e, p, Along(p, h)) + 0
  BY <1>12, <1>13, OnwardSteps
<1>15. Between(e, p, Along(p, i)) \in Nat
  BY <1>12, OnwardSteps
<1> QED BY <1>6, <1>10, <1>14, <1>15
-----------------------------------------------------------------------------
(***************************************************************************)
(* Where the two searches meet.  f and q are the points they have on the   *)
(* diagonal k after i and j edits; the one of the search that goes back is *)
(* not yet taken along the equal elements before it.                       *)
(***************************************************************************)
Offset(a, c) == (c.x - a.x) - (c.y - a.y)

IntPoints == [x : Int, y : Int]

Forwards(e, a, c, f, k, i) ==
  /\ Furthest(Onward(e, a, c), f, k, i)
  /\ ~ Matches(Onward(e, a, c), f)

Backwards(e, a, c, q, k, j) ==
  /\ q \in IntPoints /\ q.x <= c.x /\ q.y <= c.y
  /\ OnDiagonal(Backward(e, a, c), Turn(c, q), Offset(a, c) - k)
  /\ Affordable(Backward(e, a, c), Turn(c, q), j)
  /\ \E n \in Nat : /\ Slides(Backward(e, a, c), Turn(c, q), n)
                    /\ Furthest(Backward(e, a, c), Along(Turn(c, q), n), Offset(a, c) - k, j)

\* Going back from q along equal elements is going on along them, turned around.
LEMMA TurnedMatches ==
  ASSUME NEW e \in Relations, NEW a \in Whole, NEW c \in Whole, Ordered(a, c),
         NEW q \in IntPoints, q.x <= c.x, q.y <= c.y, NEW i \in Nat
  PROVE  /\ Turn(c, q).x = c.x - q.x /\ Turn(c, q).y = c.y - q.y
         /\ Beyond(Backward(e, a, c), Turn(c, q))
         /\ Turn(c, Along(q, -i)) = Along(Turn(c, q), i)
         /\ Matches(Backward(e, a, c), Along(Turn(c, q), i)) <=>
              q.x - i > a.x /\ q.y - i > a.y /\ <<q.x - i - 1, q.y - i - 1>> \in e
<1>1. /\ a.x \in Nat /\ a.y \in Nat /\ c.x \in Nat /\ c.y \in Nat
      /\ a.x <= c.x /\ a.y <= c.y /\ q.x \in Int /\ q.y \in Int
  BY WholeGrid DEF Ordered, IntPoints
<1>2. Turn(c, q).x = c.x - q.x /\ Turn(c, q).y = c.y - q.y
  BY DEF Turn, Point
<1>3. Beyond(Backward(e, a, c), Turn(c, q))
  BY <1>1 DEF Beyond, Backward, Turn, Point, Points
<1>4. Turn(c, Along(q, -i)) = Along(Turn(c, q), i)
  <2>1. c.x - (q.x + -i) = (c.x - q.x) + i /\ c.y - (q.y + -i) = (c.y - q.y) + i
    BY <1>1
  <2> QED BY <2>1 DEF Turn, Along, Point
<1>5. Matches(Backward(e, a, c), Along(Turn(c, q), i)) <=>
        q.x - i > a.x /\ q.y - i > a.y /\ <<q.x - i - 1, q.y - i - 1>> \in e
  <2> DEFINE u == (c.x - q.x) + i
             v == (c.y - q.y) + i
             m == c.x - a.x
             n == c.y - a.y
  <2>1. Matches(Backward(e, a, c), Along(Turn(c, q), i)) <=>
          u < m /\ v < n /\ <<u, v>> \in TurnedCells(e, a, c)
    BY DEF Matches, Backward, Along, Turn, Point
  <2>2. u \in Nat /\ v \in Nat /\ m \in Nat /\ n \in Nat
    BY <1>1
  <2>3. /\ u < m <=> q.x - i > a.x
        /\ v < n <=> q.y - i > a.y
        /\ c.x - 1 - u = q.x - i - 1
        /\ c.y - 1 - v = q.y - i - 1
    <3> DEFINE cx == c.x
               cy == c.y
               ax == a.x
               ay == a.y
               qx == q.x
               qy == q.y
    <3>1. /\ cx \in Int /\ cy \in Int /\ ax \in Int /\ ay \in Int /\ qx \in Int /\ qy \in Int
      BY <1>1
    <3>2. /\ (cx - qx) + i < cx - ax <=> qx - i > ax
          /\ (cy - qy) + i < cy - ay <=> qy - i > ay
          /\ cx - 1 - ((cx - qx) + i) = qx - i - 1
          /\ cy - 1 - ((cy - qy) + i) = qy - i - 1
      <4> HIDE DEF cx, cy, ax, ay, qx, qy
      <4> QED BY <3>1
    <3> QED BY <3>2
  <2>4. u < m /\ v < n =>
          (<<u, v>> \in TurnedCells(e, a, c) <=> <<q.x - i - 1, q.y - i - 1>> \in e)
    <3> SUFFICES ASSUME u < m, v < n
                 PROVE  <<u, v>> \in TurnedCells(e, a, c) <=> <<q.x - i - 1, q.y - i - 1>> \in e
      OBVIOUS
    <3>1. u \in 0 .. m - 1 /\ v \in 0 .. n - 1
      <4> HIDE DEF u, v, m, n
      <4> QED BY <2>2
    <3>2. <<u, v>> \in (0 .. c.x - a.x - 1) \X (0 .. c.y - a.y - 1)
      BY <3>1
    <3>3. <<u, v>>[1] = u /\ <<u, v>>[2] = v
      OBVIOUS
    <3>4. <<u, v>> \in TurnedCells(e, a, c) <=> <<c.x - 1 - u, c.y - 1 - v>> \in e
      <4> HIDE DEF u, v, m, n
      <4> QED BY <3>2, <3>3 DEF TurnedCells
    <3> QED BY <3>4, <2>3
  <2> HIDE DEF u, v, m, n
  <2> QED BY <2>1, <2>3, <2>4
<1> QED BY <1>2, <1>3, <1>4, <1>5

\* The two problems, field by field.
LEMMA OnwardFields ==
  ASSUME NEW e, NEW a, NEW c
  PROVE  /\ Onward(e, a, c).from = a /\ Onward(e, a, c).to = c /\ Onward(e, a, c).equal = e
         /\ Backward(e, a, c).from = Point(0, 0) /\ Backward(e, a, c).to = Turn(c, a)
         /\ Backward(e, a, c).equal = TurnedCells(e, a, c)
         /\ \A p, k : OnDiagonal(Onward(e, a, c), p, k) <=> (p.x - a.x) - (p.y - a.y) = k
         /\ \A p, k : OnDiagonal(Backward(e, a, c), p, k) <=> (p.x - 0) - (p.y - 0) = k
         /\ \A p : Beyond(Onward(e, a, c), p) <=> p \in Points /\ p.x >= a.x /\ p.y >= a.y
         /\ \A p : Matches(Onward(e, a, c), p) <=> p.x < c.x /\ p.y < c.y /\ <<p.x, p.y>> \in e
  BY DEF Onward, Backward, OnDiagonal, Beyond, Matches, Point

\* The two searches cannot pass one another unnoticed: a point in the middle of a
\* shortest way is between theirs.
LEMMA NotMissed ==
  ASSUME NEW e \in Relations, NEW a \in Whole, NEW c \in Whole, Ordered(a, c),
         NEW i \in Nat, NEW j \in Nat, NEW k \in Int,
         NEW b \in Grid(a, c), (b.x - a.x) - (b.y - a.y) = k,
         Between(e, a, b) <= i, Between(e, b, c) <= j,
         NEW f, Forwards(e, a, c, f, k, i), NEW q, Backwards(e, a, c, q, k, j)
  PROVE  q.x <= f.x
<1> DEFINE g == Onward(e, a, c)
           h == Backward(e, a, c)
<1>1. /\ a.x \in Nat /\ a.y \in Nat /\ c.x \in Nat /\ c.y \in Nat
      /\ a.x <= c.x /\ a.y <= c.y
      /\ b.x \in Nat /\ b.y \in Nat /\ a.x <= b.x /\ b.x <= c.x /\ a.y <= b.y /\ b.y <= c.y
  BY WholeGrid DEF Ordered
<1>2. /\ Problem(g) /\ GridOf(g) = Grid(a, c) /\ Cost(g, b) = Between(e, a, b)
      /\ Problem(h) /\ GridOf(h) = Grid(Point(0, 0), Turn(c, a))
      /\ Cost(h, Turn(c, b)) = Between(e, b, c)
  BY OnwardProblem, BackwardProblem
<1>3. OnDiagonal(g, b, k)
  BY OnwardFields
<1>4. /\ Beyond(g, f) /\ OnDiagonal(g, f, k) /\ Unreachable(g, f, k, i) /\ ~ Matches(g, f)
  BY DEF Forwards, Furthest
<1>5. b.x <= f.x
  BY <1>2, <1>3, <1>4 DEF Unreachable
<1>6. /\ f.x \in Nat /\ f.y \in Nat /\ (f.x - a.x) - (f.y - a.y) = k
      /\ ~ (f.x < c.x /\ f.y < c.y /\ <<f.x, f.y>> \in e)
  <2>1. f \in Points
    BY <1>4 DEF Beyond
  <2>2. (f.x - a.x) - (f.y - a.y) = k
    BY <1>4, OnwardFields
  <2>3. ~ (f.x < c.x /\ f.y < c.y /\ <<f.x, f.y>> \in e)
    BY <1>4, OnwardFields
  <2> QED BY <2>1, <2>2, <2>3 DEF Points
<1>7. PICK n \in Nat : /\ Slides(h, Turn(c, q), n)
                       /\ Furthest(h, Along(Turn(c, q), n), Offset(a, c) - k, j)
  BY DEF Backwards
<1>8. /\ q \in IntPoints /\ q.x \in Int /\ q.y \in Int /\ q.x <= c.x /\ q.y <= c.y
      /\ OnDiagonal(h, Turn(c, q), Offset(a, c) - k)
  BY DEF Backwards, IntPoints
<1>9. Turn(c, b) \in GridOf(h) /\ Turn(c, b).x = c.x - b.x /\ Turn(c, b).y = c.y - b.y
  BY <1>2, TurnedGrid
<1>10. OnDiagonal(h, Turn(c, b), Offset(a, c) - k)
  <2> DEFINE cx == c.x
             cy == c.y
             ax == a.x
             ay == a.y
             bx == b.x
             by == b.y
  <2>1. /\ cx \in Int /\ cy \in Int /\ ax \in Int /\ ay \in Int /\ bx \in Int /\ by \in Int
        /\ (bx - ax) - (by - ay) = k
    BY <1>1
  <2>2. ((cx - bx) - 0) - ((cy - by) - 0) = ((cx - ax) - (cy - ay)) - k
    <3> HIDE DEF cx, cy, ax, ay, bx, by
    <3> QED BY <2>1
  <2> QED BY <1>9, <2>2, OnwardFields DEF Offset
<1>11. Turn(c, b).x <= Along(Turn(c, q), n).x
  <2>1. Unreachable(h, Along(Turn(c, q), n), Offset(a, c) - k, j)
    BY <1>7 DEF Furthest
  <2> HIDE DEF h
  <2> QED BY <2>1, <1>2, <1>9, <1>10 DEF Unreachable
<1>12. Turn(c, q).x = c.x - q.x /\ Turn(c, q).y = c.y - q.y
  BY DEF Turn, Point
<1>13. c.x - b.x <= (c.x - q.x) + n
  BY <1>9, <1>11, <1>12 DEF Along, Point
<1>14. (q.x - a.x) - (q.y - a.y) = k
  <2>1. ((c.x - q.x) - 0) - ((c.y - q.y) - 0) = ((c.x - a.x) - (c.y - a.y)) - k
    BY <1>8, <1>12, OnwardFields DEF Offset
  <2> DEFINE cx == c.x
             cy == c.y
             ax == a.x
             ay == a.y
             qx == q.x
             qy == q.y
  <2>2. /\ cx \in Int /\ cy \in Int /\ ax \in Int /\ ay \in Int /\ qx \in Int /\ qy \in Int
        /\ ((cx - qx) - 0) - ((cy - qy) - 0) = ((cx - ax) - (cy - ay)) - k
    BY <2>1, <1>1, <1>8
  <2>3. (qx - ax) - (qy - ay) = k
    <3> HIDE DEF cx, cy, ax, ay, qx, qy
    <3> QED BY <2>2
  <2> QED BY <2>3
<1> SUFFICES ASSUME f.x < q.x PROVE FALSE
  BY <1>6, <1>8
<1> DEFINE r == q.x - f.x - 1
<1>15. /\ r \in 0 .. n - 1 /\ q.x - r - 1 = f.x /\ q.y - r - 1 = f.y /\ f.y < q.y
  <2> DEFINE cx == c.x
             ax == a.x
             ay == a.y
             qx == q.x
             qy == q.y
             fx == f.x
             fy == f.y
             bx == b.x
  <2>1. /\ cx \in Int /\ ax \in Int /\ ay \in Int /\ qx \in Int /\ qy \in Int
        /\ fx \in Int /\ fy \in Int /\ bx \in Int
        /\ (qx - ax) - (qy - ay) = k /\ (fx - ax) - (fy - ay) = k
        /\ cx - bx <= (cx - qx) + n /\ bx <= fx /\ fx < qx
    BY <1>1, <1>5, <1>6, <1>8, <1>13, <1>14
  <2>2. /\ qx - fx - 1 \in 0 .. n - 1 /\ qx - (qx - fx - 1) - 1 = fx
        /\ qy - (qx - fx - 1) - 1 = fy /\ fy < qy
    <3> HIDE DEF cx, ax, ay, qx, qy, fx, fy, bx
    <3> QED BY <2>1
  <2> QED BY <2>2
<1>16. Matches(h, Along(Turn(c, q), r))
  BY <1>7, <1>15 DEF Slides
<1>17. <<q.x - r - 1, q.y - r - 1>> \in e
  <2>1. r \in Nat
    BY <1>15
  <2> HIDE DEF r
  <2> QED BY <2>1, <1>8, <1>16, TurnedMatches
<1>18. <<f.x, f.y>> \in e
  BY <1>15, <1>17
<1>19. f.x < c.x /\ f.y < c.y
  BY <1>1, <1>6, <1>8, <1>15
<1> QED BY <1>6, <1>18, <1>19

\* A point in the middle of a shortest way, and the diagonal it is on.
LEMMA MiddlePoint ==
  ASSUME NEW e \in Relations, NEW a \in Whole, NEW c \in Whole, Ordered(a, c),
         NEW i \in Nat, NEW j \in Nat, Between(e, a, c) = i + j
  PROVE  \E b \in Grid(a, c) : \E k \in -i .. i :
           /\ (b.x - a.x) - (b.y - a.y) = k
           /\ Between(e, a, b) = i /\ Between(e, b, c) = j
           /\ (i - k) % 2 = 0
           /\ -j <= k - Offset(a, c) /\ k - Offset(a, c) <= j
<1>1. PICK b \in Whole : /\ Ordered(a, b) /\ Ordered(b, c)
                         /\ Between(e, a, b) = i
                         /\ Between(e, b, c) = Between(e, a, c) - i
  <2>1. i <= Between(e, a, c)
    OBVIOUS
  <2> QED BY <2>1, Midpoint
<1>2. Between(e, b, c) = j
  BY <1>1
<1> DEFINE g == Onward(e, a, c)
           h == Onward(e, b, c)
           k == (b.x - a.x) - (b.y - a.y)
           l == (c.x - b.x) - (c.y - b.y)
<1>3. b \in Grid(a, c) /\ c \in Grid(b, c) /\ a \in Points /\ b \in Points /\ c \in Points
  <2>1. Ordered(c, c)
    BY WholeGrid DEF Ordered
  <2> QED BY <2>1, <1>1, WholeGrid
<1>4. /\ Problem(g) /\ GridOf(g) = Grid(a, c) /\ g.cost[b] = i
      /\ Problem(h) /\ GridOf(h) = Grid(b, c) /\ h.cost[c] = j
      /\ g.from = a /\ g.to = c /\ h.from = b /\ h.to = c
  BY <1>1, <1>2, <1>3, OnwardProblem, OnwardFields DEF Cost
<1>5. IsEditDistance(g.equal, g.cost, a, c) /\ IsEditDistance(h.equal, h.cost, b, c)
  BY <1>4, ProblemBounds
<1> HIDE DEF g, h
<1>6. k <= i /\ -k <= i /\ (i - k) % 2 = 0
  <2>1. /\ (b.x - a.x) - (b.y - a.y) <= g.cost[b]
        /\ (b.y - a.y) - (b.x - a.x) <= g.cost[b]
        /\ (g.cost[b] - ((b.x - a.x) - (b.y - a.y))) % 2 = 0
    BY <1>3, <1>5, DistanceOfDiagonal
  <2>2. a.x \in Nat /\ a.y \in Nat /\ b.x \in Nat /\ b.y \in Nat
    BY WholeGrid
  <2> QED BY <2>1, <2>2, <1>4
<1>7. l <= j /\ -l <= j
  <2>1. /\ (c.x - b.x) - (c.y - b.y) <= h.cost[c]
        /\ (c.y - b.y) - (c.x - b.x) <= h.cost[c]
    BY <1>3, <1>5, DistanceOfDiagonal
  <2>2. c.x \in Nat /\ c.y \in Nat /\ b.x \in Nat /\ b.y \in Nat
    BY WholeGrid
  <2> QED BY <2>1, <2>2, <1>4
<1>8. k \in Int /\ l \in Int /\ k - Offset(a, c) = -l
  <2> DEFINE cx == c.x
             cy == c.y
             ax == a.x
             ay == a.y
             bx == b.x
             by == b.y
  <2>1. /\ cx \in Int /\ cy \in Int /\ ax \in Int /\ ay \in Int /\ bx \in Int /\ by \in Int
    BY WholeGrid
  <2>2. ((bx - ax) - (by - ay)) - ((cx - ax) - (cy - ay)) = -((cx - bx) - (cy - by))
    <3> HIDE DEF cx, cy, ax, ay, bx, by
    <3> QED BY <2>1
  <2>3. k \in Int /\ l \in Int
    BY <2>1
  <2> QED BY <2>2, <2>3 DEF Offset
<1>9. k \in -i .. i
  <2> HIDE DEF k
  <2> QED BY <1>6, <1>8
<1>10. -j <= k - Offset(a, c) /\ k - Offset(a, c) <= j
  <2> HIDE DEF k, l
  <2> QED BY <1>7, <1>8
<1> QED BY <1>1, <1>2, <1>3, <1>6, <1>9, <1>10

\* The number of edits has the parity of the difference of the lengths, is at
\* least that, and at most their sum.
LEMMA DistanceRange ==
  ASSUME NEW e \in Relations, NEW a \in Whole, NEW c \in Whole, Ordered(a, c)
  PROVE  /\ Between(e, a, c) \in Nat
         /\ Offset(a, c) <= Between(e, a, c) /\ -Offset(a, c) <= Between(e, a, c)
         /\ Between(e, a, c) <= (c.x - a.x) + (c.y - a.y)
         /\ (Between(e, a, c) - Offset(a, c)) % 2 = 0
         /\ Offset(a, c) \in Int
<1> DEFINE g == Onward(e, a, c)
<1>1. c \in Grid(a, c) /\ a \in Points /\ c \in Points
  <2>1. Ordered(c, c)
    BY WholeGrid DEF Ordered
  <2> QED BY <2>1, WholeGrid
<1>2. Problem(g) /\ g.cost[c] = Between(e, a, c) /\ g.from = a /\ g.to = c
  BY <1>1, OnwardProblem, OnwardFields DEF Cost
<1>3. IsEditDistance(g.equal, g.cost, a, c)
  BY <1>2, ProblemBounds
<1> HIDE DEF g
<1>4. /\ g.cost[c] \in Nat
      /\ (c.x - a.x) - (c.y - a.y) <= g.cost[c]
      /\ (c.y - a.y) - (c.x - a.x) <= g.cost[c]
      /\ g.cost[c] <= (c.x - a.x) + (c.y - a.y)
      /\ (g.cost[c] - ((c.x - a.x) - (c.y - a.y))) % 2 = 0
  BY <1>1, <1>3, DistanceOfDiagonal
<1>5. a.x \in Nat /\ a.y \in Nat /\ c.x \in Nat /\ c.y \in Nat
  BY WholeGrid
<1> QED BY <1>2, <1>4, <1>5 DEF Offset

\* Of two points on one diagonal, the further is along it from the other.
LEMMA SameDiagonal ==
  ASSUME NEW p \in IntPoints, NEW q \in IntPoints, p.x - p.y = q.x - q.y, q.x <= p.x
  PROVE  p.x - q.x \in Nat /\ p = Along(q, p.x - q.x)
  BY DEF IntPoints, Along, Point

\* Two searches that have met or passed one another, when the corners are no nearer
\* than the edits both have taken, have met at points of a shortest way.
LEMMA TheyMeet ==
  ASSUME NEW e \in Relations, NEW a \in Whole, NEW c \in Whole, Ordered(a, c),
         NEW i \in Nat, NEW j \in Nat, NEW k \in -i .. i,
         -j <= k - Offset(a, c), k - Offset(a, c) <= j,
         NEW f, Furthest(Onward(e, a, c), f, k, i),
         NEW q, Backwards(e, a, c, q, k, j),
         q.x <= f.x, Between(e, a, c) >= i + j
  PROVE  /\ f \in Grid(a, c) /\ q \in Grid(a, c) /\ Ordered(q, f)
         /\ f.x - f.y = q.x - q.y
         /\ Between(e, a, c) = i + j
         /\ Between(e, a, f) = i /\ Between(e, f, c) = j
         /\ Between(e, a, q) = i /\ Between(e, q, c) = j
<1> DEFINE g == Onward(e, a, c)
           h == Backward(e, a, c)
<1>1. /\ a.x \in Nat /\ a.y \in Nat /\ c.x \in Nat /\ c.y \in Nat
      /\ a.x <= c.x /\ a.y <= c.y
  BY WholeGrid DEF Ordered
<1>2. /\ Problem(g) /\ GridOf(g) = Grid(a, c)
      /\ \A p \in Grid(a, c) : Cost(g, p) = Between(e, a, p)
      /\ Problem(h) /\ GridOf(h) = Grid(Point(0, 0), Turn(c, a))
      /\ \A p \in Grid(a, c) : Cost(h, Turn(c, p)) = Between(e, p, c)
  BY OnwardProblem, BackwardProblem
<1>3. /\ g.from = a /\ g.to = c /\ h.from = Point(0, 0) /\ h.to = Turn(c, a)
      /\ h.from.x = 0 /\ h.from.y = 0 /\ h.to.x = c.x - a.x /\ h.to.y = c.y - a.y
  BY OnwardFields DEF Point, Turn
<1>4. a \in Grid(a, c) /\ c \in Grid(a, c)
  <2>1. Ordered(c, c) /\ Ordered(a, a)
    BY WholeGrid DEF Ordered
  <2> QED BY <2>1, WholeGrid
<1>5. Cost(g, g.to) >= i + j /\ Cost(h, h.to) >= i + j
  BY <1>2, <1>3, <1>4
<1>6. Offset(a, c) \in Int /\ k \in Int /\ -i <= k /\ k <= i
  BY <1>1 DEF Offset
<1>7. f \in Grid(a, c) /\ Between(e, a, f) <= i
  <2>1. Beyond(g, f) /\ OnDiagonal(g, f, k) /\ Affordable(g, f, i)
    BY DEF Furthest
  <2>2. /\ -j <= k - ((g.to.x - g.from.x) - (g.to.y - g.from.y))
        /\ k - ((g.to.x - g.from.x) - (g.to.y - g.from.y)) <= j
    BY <1>3 DEF Offset
  <2>3. Cost(g, g.to) >= j + i
    BY <1>5
  <2> HIDE DEF g
  <2>4. f \in GridOf(g) /\ Cost(g, f) <= i
    BY <1>2, <1>6, <2>1, <2>2, <2>3, WithinGrid
  <2> QED BY <2>4, <1>2
<1>8. /\ q \in IntPoints /\ q.x <= c.x /\ q.y <= c.y
      /\ OnDiagonal(h, Turn(c, q), Offset(a, c) - k)
      /\ Affordable(h, Turn(c, q), j)
  BY DEF Backwards
<1>9. q \in Grid(a, c) /\ Between(e, q, c) <= j
  <2>1. Beyond(h, Turn(c, q)) /\ Turn(c, q).x = c.x - q.x /\ Turn(c, q).y = c.y - q.y
    <3>1. 0 \in Nat
      OBVIOUS
    <3> QED BY <3>1, <1>8, TurnedMatches
  <2>2. /\ -i <= (Offset(a, c) - k) - ((h.to.x - h.from.x) - (h.to.y - h.from.y))
        /\ (Offset(a, c) - k) - ((h.to.x - h.from.x) - (h.to.y - h.from.y)) <= i
    <3>1. (h.to.x - h.from.x) - (h.to.y - h.from.y) = Offset(a, c)
      BY <1>1, <1>3 DEF Offset
    <3> HIDE DEF h
    <3> QED BY <3>1, <1>6
  <2>3. Offset(a, c) - k \in Int
    BY <1>6
  <2> HIDE DEF h
  <2>4. Turn(c, q) \in GridOf(h) /\ Cost(h, Turn(c, q)) <= j
    BY <1>2, <1>5, <1>8, <2>1, <2>2, <2>3, WithinGrid
  <2>5. Turn(c, Turn(c, q)) \in Grid(a, c)
    BY <1>2, <2>4, TurnedGrid
  <2>6. Turn(c, Turn(c, q)) = q
    <3>1. q = Point(q.x, q.y) /\ q.x \in Int /\ q.y \in Int
      BY <1>8 DEF IntPoints, Point
    <3> QED BY <3>1, TurnTwice
  <2> QED BY <2>4, <2>5, <2>6, <1>2
<1>10. f.x - f.y = q.x - q.y
  <2>1. (f.x - a.x) - (f.y - a.y) = k
    BY OnwardFields DEF Furthest
  <2>2. ((c.x - q.x) - 0) - ((c.y - q.y) - 0) = Offset(a, c) - k
    <3>1. OnDiagonal(h, Turn(c, q), Offset(a, c) - k) <=>
            (Turn(c, q).x - 0) - (Turn(c, q).y - 0) = Offset(a, c) - k
      BY OnwardFields
    <3>2. (Turn(c, q).x - 0) - (Turn(c, q).y - 0) = Offset(a, c) - k
      BY <3>1, <1>8
    <3> QED BY <3>2 DEF Turn, Point
  <2> DEFINE cx == c.x
             cy == c.y
             ax == a.x
             ay == a.y
             qx == q.x
             qy == q.y
             fx == f.x
             fy == f.y
  <2>3. /\ cx \in Int /\ cy \in Int /\ ax \in Int /\ ay \in Int /\ qx \in Int /\ qy \in Int
        /\ fx \in Int /\ fy \in Int
    BY <1>1, <1>7, <1>9, GridPoints DEF Grid
  <2>4. /\ (fx - ax) - (fy - ay) = k
        /\ ((cx - qx) - 0) - ((cy - qy) - 0) = ((cx - ax) - (cy - ay)) - k
    BY <2>1, <2>2 DEF Offset
  <2>5. fx - fy = qx - qy
    <3> HIDE DEF cx, cy, ax, ay, qx, qy, fx, fy
    <3> QED BY <2>3, <2>4, <1>6
  <2> QED BY <2>5
<1>11. /\ f \in Whole /\ q \in Whole /\ Ordered(a, f) /\ Ordered(f, c) /\ Ordered(a, q) /\ Ordered(q, c)
       /\ f \in IntPoints
  <2>1. f \in Whole /\ q \in Whole /\ Ordered(a, f) /\ Ordered(f, c) /\ Ordered(a, q) /\ Ordered(q, c)
    BY <1>7, <1>9, WholeGrid
  <2>2. f.x \in Nat /\ f.y \in Nat /\ f = [x |-> f.x, y |-> f.y]
    BY <2>1, WholeGrid
  <2> QED BY <2>1, <2>2 DEF IntPoints
<1>12. f.x - q.x \in Nat /\ f = Along(q, f.x - q.x)
  BY <1>8, <1>10, <1>11, SameDiagonal
<1>18. f.y - q.y = f.x - q.x
  <2> DEFINE qx == q.x
             qy == q.y
             fx == f.x
             fy == f.y
  <2>1. /\ qx \in Int /\ qy \in Int /\ fx \in Int /\ fy \in Int
        /\ fx - fy = qx - qy
    BY <1>10, <1>11, WholeGrid
  <2>2. fy - qy = fx - qx
    <3> HIDE DEF qx, qy, fx, fy
    <3> QED BY <2>1
  <2> QED BY <2>2
<1>13. Ordered(q, f)
  <2>1. f.y - q.y = f.x - q.x
    BY <1>18
  <2> QED BY <2>1, <1>11, <1>12, WholeGrid DEF Ordered
<1>14. Between(e, a, q) <= Between(e, a, f)
  <2>1. Cost(g, q) <= Cost(g, Along(q, f.x - q.x))
    BY <1>2, <1>7, <1>9, <1>12, DiagonalCost
  <2> QED BY <2>1, <1>2, <1>7, <1>9, <1>12
<1>15. Between(e, f, c) <= Between(e, q, c)
  <2> DEFINE n == f.x - q.x
  <2>1. Turn(c, f) \in GridOf(h) /\ Turn(c, q) \in GridOf(h)
    BY <1>2, <1>7, <1>9, TurnedGrid
  <2>2. Turn(c, q) = Along(Turn(c, f), n)
    <3>1. f.y - q.y = n
      BY <1>18
    <3>2. c.x - q.x = (c.x - f.x) + (f.x - q.x) /\ c.y - q.y = (c.y - f.y) + (f.y - q.y)
      <4>1. /\ c.x \in Int /\ c.y \in Int /\ f.x \in Int /\ f.y \in Int
            /\ q.x \in Int /\ q.y \in Int
        BY <1>11, WholeGrid
      <4> QED BY <4>1
    <3> QED BY <3>1, <3>2 DEF Turn, Along, Point
  <2>3. n \in Nat
    BY <1>12
  <2> HIDE DEF n, h
  <2>4. Cost(h, Turn(c, f)) <= Cost(h, Along(Turn(c, f), n))
    BY <1>2, <2>1, <2>2, <2>3, DiagonalCost
  <2> QED BY <2>2, <2>4, <1>2, <1>7, <1>9
<1>16. /\ Between(e, a, c) <= Between(e, a, f) + Between(e, f, c)
       /\ Between(e, a, c) <= Between(e, a, q) + Between(e, q, c)
  BY <1>11, Triangle
<1>17. /\ Between(e, a, c) \in Nat /\ Between(e, a, f) \in Nat /\ Between(e, f, c) \in Nat
       /\ Between(e, a, q) \in Nat /\ Between(e, q, c) \in Nat
  BY <1>11, OnwardSteps
<1> HIDE DEF g, h
<1> QED BY <1>7, <1>9, <1>10, <1>13, <1>14, <1>15, <1>16, <1>17

\* What a snake costs it costs on neither side.
LEMMA SnakeEnds ==
  ASSUME NEW e \in Relations, NEW a \in Whole, NEW c \in Whole, Ordered(a, c),
         NEW s \in Grid(a, c), NEW t \in Grid(a, c), Common(e, s, t),
         NEW i \in Nat, NEW j \in Nat,
         Between(e, a, c) = i + j, Between(e, a, t) = i, Between(e, t, c) = j
  PROVE  Between(e, a, s) = i /\ Between(e, s, c) = j
<1>1. /\ s \in Whole /\ t \in Whole /\ Ordered(a, s) /\ Ordered(s, c) /\ Ordered(t, c)
      /\ Ordered(a, t)
  BY WholeGrid
<1>2. Between(e, s, t) = 0 /\ Ordered(s, t)
  BY <1>1, CommonFree
<1>3. Between(e, a, c) <= Between(e, a, s) + Between(e, s, c)
  BY <1>1, Triangle
<1>4. Between(e, s, c) <= Between(e, s, t) + Between(e, t, c)
  BY <1>1, <1>2, Triangle
<1>5. Between(e, a, s) <= Between(e, a, t)
  <2> DEFINE g == Onward(e, a, c)
             n == t.x - s.x
  <2>1. n \in Nat /\ t = Along(s, n)
    <3>1. t.x - s.x = t.y - s.y /\ t.x >= s.x
      BY DEF Common
    <3>2. /\ s.x \in Nat /\ s.y \in Nat /\ t.x \in Nat /\ t.y \in Nat
          /\ t = [x |-> t.x, y |-> t.y]
      BY <1>1, WholeGrid
    <3> QED BY <3>1, <3>2 DEF Along, Point
  <2>2. /\ Problem(g) /\ GridOf(g) = Grid(a, c)
        /\ \A p \in Grid(a, c) : Cost(g, p) = Between(e, a, p)
    BY OnwardProblem
  <2> HIDE DEF n, g
  <2>3. Cost(g, s) <= Cost(g, Along(s, n))
    BY <2>1, <2>2, DiagonalCost
  <2> QED BY <2>1, <2>2, <2>3
<1>6. Between(e, a, s) \in Nat /\ Between(e, s, c) \in Nat
  BY <1>1, OnwardSteps
<1> QED BY <1>2, <1>3, <1>4, <1>5, <1>6

-----------------------------------------------------------------------------
(***************************************************************************)
(* Slides.                                                                 *)
(***************************************************************************)
\* On along equal elements, to where they end.
LEMMA SlidesDown ==
  ASSUME equal \in Relations, NEW a, NEW c \in Whole, NEW p \in Points
  PROVE  \E n \in Nat : /\ SlideDown(p, c) = Along(p, n)
                        /\ Slides(Onward(equal, a, c), p, n)
<1> DEFINE Same(q) == q.x < c.x /\ q.y < c.y /\ <<q.x, q.y>> \in equal
           Halts(n) == (\A i \in 0 .. n - 1 : Same(Along(p, i))) /\ ~ Same(Along(p, n))
           Stops == {n \in Nat : ~ Same(Along(p, n))}
<1>1. /\ c.x \in Nat /\ c.y \in Nat /\ c.x <= SizeOne /\ c.y <= SizeTwo
      /\ SizeOne \in Nat /\ SizeTwo \in Nat /\ p.x \in Nat /\ p.y \in Nat
  BY WholeGrid DEF Points
<1>2. \A i \in Nat : Along(p, i).x = p.x + i /\ Along(p, i).y = p.y + i
  BY DEF Along, Point
<1>3. c.x \in Stops
  <2>1. ~ (Along(p, c.x).x < c.x)
    BY <1>1, <1>2
  <2> QED BY <2>1, <1>1
<1>4. PICK n \in Stops : \A m \in Stops : n <= m
  <2>1. Stops \subseteq Nat /\ Stops # {}
    BY <1>3
  <2> HIDE DEF Stops
  <2> QED BY <2>1, LeastElement
<1>5. n \in Nat /\ ~ Same(Along(p, n))
  OBVIOUS
<1>6. ASSUME NEW i \in 0 .. n - 1 PROVE Same(Along(p, i))
  <2>1. i \in Nat /\ i < n
    BY <1>5
  <2>2. ~ (i \in Stops)
    <3> HIDE DEF Stops
    <3> QED BY <2>1, <1>4, <1>5
  <2> QED BY <2>1, <2>2
<1>7. n \in Lengths
  <2>1. CASE n = 0
    BY <2>1, <1>1 DEF Lengths
  <2>2. CASE n # 0
    <3>1. n - 1 \in 0 .. n - 1 /\ n - 1 \in Nat
      BY <1>5, <2>2
    <3>2. Same(Along(p, n - 1))
      BY <3>1, <1>6
    <3>3. Along(p, n - 1).x < c.x /\ Along(p, n - 1).y < c.y
      BY <3>2
    <3>4. p.x + (n - 1) < c.x /\ p.y + (n - 1) < c.y
      BY <3>1, <3>3, <1>2
    <3>5. n <= SizeOne /\ n <= SizeTwo
      BY <3>4, <1>1, <1>5
    <3> QED BY <3>5, <1>1, <1>5 DEF Lengths
  <2> QED BY <2>1, <2>2
<1>8. Halts(n)
  BY <1>5, <1>6
<1> DEFINE l == CHOOSE m \in Lengths : Halts(m)
<1>9. l \in Lengths /\ Halts(l)
  <2> HIDE DEF Halts
  <2> QED BY <1>7, <1>8
<1>10. l \in Nat
  BY <1>1, <1>9 DEF Lengths
<1>11. SlideDown(p, c) = Along(p, l)
  BY DEF SlideDown
<1>12. Slides(Onward(equal, a, c), p, l)
  <2> HIDE DEF l
  <2> QED BY <1>9, OnwardFields DEF Slides
<1> QED BY <1>10, <1>11, <1>12

\* Back along equal elements on the grid is along them on the turned one.
LEMMA SlidesUp ==
  ASSUME equal \in Relations, NEW a \in Whole, NEW c \in Whole, Ordered(a, c),
         NEW p \in IntPoints, p.x <= c.x, p.y <= c.y
  PROVE  \E n \in Nat : /\ SlideUp(p, a) = Along(p, -n)
                        /\ Turn(c, Along(p, -n)) = Along(Turn(c, p), n)
                        /\ Slides(Backward(equal, a, c), Turn(c, p), n)
<1> DEFINE Same(q) == q.x > a.x /\ q.y > a.y /\ <<q.x - 1, q.y - 1>> \in equal
           Halts(n) == (\A i \in 0 .. n - 1 : Same(Along(p, -i))) /\ ~ Same(Along(p, -n))
           Stops == {n \in Nat : ~ Same(Along(p, -n))}
<1>1. /\ c.x \in Nat /\ c.y \in Nat /\ c.x <= SizeOne /\ c.y <= SizeTwo
      /\ SizeOne \in Nat /\ SizeTwo \in Nat /\ p.x \in Int /\ p.y \in Int
      /\ a.x \in Nat /\ a.y \in Nat
  BY WholeGrid DEF IntPoints
<1>2. \A i \in Nat : Along(p, -i).x = p.x - i /\ Along(p, -i).y = p.y - i
  <2>1. \A i \in Nat : p.x + -i = p.x - i /\ p.y + -i = p.y - i
    BY <1>1
  <2> QED BY <2>1 DEF Along, Point
<1>3. c.x \in Stops
  <2>1. ~ (Along(p, -c.x).x > a.x)
    <3>1. Along(p, -c.x).x = p.x - c.x
      BY <1>1, <1>2
    <3> QED BY <3>1, <1>1
  <2> QED BY <2>1, <1>1
<1>4. PICK n \in Stops : \A m \in Stops : n <= m
  <2>1. Stops \subseteq Nat /\ Stops # {}
    BY <1>3
  <2> HIDE DEF Stops
  <2> QED BY <2>1, LeastElement
<1>5. n \in Nat /\ ~ Same(Along(p, -n))
  OBVIOUS
<1>6. ASSUME NEW i \in 0 .. n - 1 PROVE Same(Along(p, -i))
  <2>1. i \in Nat /\ i < n
    BY <1>5
  <2>2. ~ (i \in Stops)
    <3> HIDE DEF Stops
    <3> QED BY <2>1, <1>4, <1>5
  <2> QED BY <2>1, <2>2
<1>7. n \in Lengths
  <2>1. CASE n = 0
    BY <2>1, <1>1 DEF Lengths
  <2>2. CASE n # 0
    <3> DEFINE m == n - 1
    <3>1. m \in 0 .. n - 1 /\ m \in Nat /\ n = m + 1
      BY <1>5, <2>2
    <3> HIDE DEF m
    <3>2. Same(Along(p, -m))
      BY <3>1, <1>6
    <3>3. Along(p, -m).x > a.x /\ Along(p, -m).y > a.y
      BY <3>2
    <3>4. p.x - m > a.x /\ p.y - m > a.y
      BY <3>1, <3>3, <1>2
    <3>5. n <= SizeOne /\ n <= SizeTwo
      BY <3>1, <3>4, <1>1, <1>5
    <3> QED BY <3>5, <1>1, <1>5 DEF Lengths
  <2> QED BY <2>1, <2>2
<1>8. Halts(n)
  BY <1>5, <1>6
<1> DEFINE l == CHOOSE m \in Lengths : Halts(m)
<1>9. l \in Lengths /\ Halts(l)
  <2> HIDE DEF Halts
  <2> QED BY <1>7, <1>8
<1>10. l \in Nat
  BY <1>1, <1>9 DEF Lengths
<1>11. SlideUp(p, a) = Along(p, -l)
  BY DEF SlideUp
<1>t. \A i \in Nat :
        /\ Turn(c, Along(p, -i)) = Along(Turn(c, p), i)
        /\ Matches(Backward(equal, a, c), Along(Turn(c, p), i)) <=> Same(Along(p, -i))
  <2> TAKE i \in Nat
  <2>1. /\ Turn(c, Along(p, -i)) = Along(Turn(c, p), i)
        /\ Matches(Backward(equal, a, c), Along(Turn(c, p), i)) <=>
             p.x - i > a.x /\ p.y - i > a.y /\ <<p.x - i - 1, p.y - i - 1>> \in equal
    BY TurnedMatches
  <2> QED BY <2>1, <1>2
<1>12. Slides(Backward(equal, a, c), Turn(c, p), l)
  <2>1. /\ \A i \in 0 .. l - 1 : Same(Along(p, -i))
        /\ ~ Same(Along(p, -l))
    BY <1>9
  <2> HIDE DEF l, Same
  <2>2. \A i \in 0 .. l - 1 : i \in Nat
    OBVIOUS
  <2> QED BY <2>1, <2>2, <1>10, <1>t DEF Slides
<1> QED BY <1>10, <1>11, <1>12, <1>t
-----------------------------------------------------------------------------
(***************************************************************************)
(* The inductive invariant.                                                *)
(***************************************************************************)
PartTypes ==
  [from : Whole, to : Whole, by : {"quadratic", "halves"}, half : BOOLEAN]

Searching == phase \in {"forward", "reverse"}

Solving == phase \in {"solve", "forward", "reverse", "snake"}

TypeOK ==
  /\ equal \in Relations
  /\ threshold \in Thresholds
  /\ phase \in {"start", "solve", "forward", "reverse", "snake", "merge", "collect", "done",
                "crashed", "exited"}
  /\ parts \in Seq(PartTypes)
  /\ distance \in Nat /\ diagonal \in Int
  /\ Searching => /\ forward_paths \in [Diagonals -> Points]
                  /\ reverse_paths \in [Diagonals -> IntPoints]
  /\ points \in Whole \X Whole /\ edit_distance \in Nat
  /\ script \in Seq(Edits) /\ merged \in Seq(Edits) /\ edits \in Seq(SesEdits)
  /\ failed \in BOOLEAN

\* The parts: a part without an edit in it is empty, and is not a half.
PartsOrdered ==
  /\ \A i \in 1 .. Len(parts) :
       /\ Ordered(parts[i].from, parts[i].to)
       /\ Between(equal, parts[i].from, parts[i].to) = 0 =>
            parts[i].from = parts[i].to /\ ~ parts[i].half
  /\ \A i \in 1 .. Len(parts) - 1 : Common(equal, parts[i].to, parts[i + 1].from)
  /\ Solving => parts # <<>> /\ parts[Len(parts)].to = End

\* The edits found so far, and those that will be.
PartsSpend ==
  /\ phase = "start" => script = <<>>
  /\ Solving /\ ~ failed =>
       /\ Transforms(equal, script, Start, From)
       /\ Total(script) + ToSpend(equal, parts) = Between(equal, Start, End)

\* The diagonals of a round, and those the round has been to.
Round(d) == {k \in -d .. d : (d - k) % 2 = 0}

Passed == {k \in Round(distance) : k > diagonal}

ForwardsOn(K, d) ==
  \A k \in K : Forwards(equal, From, To, forward_paths[k], k, d)

BackwardsOn(K, d) ==
  \A k \in K : Backwards(equal, From, To, reverse_paths[k + Delta], k + Delta, d)

SearchesForward ==
  phase = "forward" =>
    /\ 2 * distance - 1 <= Between(equal, From, To)
    /\ ForwardsOn(Passed, distance)
    /\ ForwardsOn(Round(distance - 1), distance - 1)
    /\ BackwardsOn(Round(distance - 1), distance - 1)
    /\ ~ IsEven => \A k \in Passed :
         k - Delta \in -(distance - 1) .. distance - 1 =>
           ~ Meet(forward_paths[k], reverse_paths[k])
    /\ distance = 0 => /\ forward_paths = [k \in Diagonals |-> From]
                       /\ reverse_paths = [k \in Diagonals |-> To]
    /\ distance = 1 => Common(equal, From, forward_paths[0])

SearchesBack ==
  phase = "reverse" =>
    /\ 2 * distance <= Between(equal, From, To)
    /\ ForwardsOn(Round(distance), distance)
    /\ BackwardsOn(Passed, distance)
    /\ BackwardsOn(Round(distance - 1), distance - 1)
    /\ IsEven => \A k \in Passed :
         k + Delta \in -distance .. distance =>
           ~ Meet(forward_paths[k + Delta], reverse_paths[k + Delta])
    /\ distance = 0 => /\ reverse_paths = [k \in Diagonals |-> To]
                       /\ Common(equal, From, forward_paths[0])

Searches ==
  /\ phase \in {"forward", "reverse", "snake"} => LengthOne > 0 /\ LengthTwo > 0
  /\ Searching => diagonal \in Round(distance)
  /\ SearchesForward
  /\ SearchesBack

\* The middle snake, and the edit next to it when there is one only.
SnakeFound ==
  phase = "snake" =>
    /\ points[1] \in Grid(From, To) /\ points[2] \in Grid(From, To)
    /\ Common(equal, points[1], points[2])
    /\ edit_distance = Between(equal, From, To)
    /\ Between(equal, From, points[1]) + Between(equal, points[2], To) = edit_distance
    /\ Between(equal, From, points[1]) - Between(equal, points[2], To) \in {0, 1}
    /\ edit_distance <= 1 =>
         /\ SingleEdit \in Edits
         /\ Common(equal, From, Before(SingleEdit))
         /\ Common(equal, After(SingleEdit), To)

NothingMissed == phase \in {"crashed", "exited"} => phase = "crashed" /\ failed

\* A deletion of the list, and an edit that would have been one change with it.
Replaced(e, f) ==
  /\ e.operation = "DELETE"
  /\ f.operation = "INSERT"
  /\ e.original_offset + e.original_length = f.original_offset

\* The same of the last edit collected and the next one to be.
Unpaired(e, f) ==
  /\ e.operation = "DELETE"
  /\ f.operation = "SES_INSERT"
  /\ e.original_offset + e.original_length = f.one

\* The edits collected are paired, and the last of them has not been taken for a
\* deletion with its insertion still to come.
Paired ==
  /\ phase \notin {"collect", "done"} => edits = <<>>
  /\ \A i \in 1 .. Len(edits) - 1 : ~ Replaced(edits[i], edits[i + 1])
  /\ edits # <<>> /\ merged # <<>> => ~ Unpaired(edits[Len(edits)], merged[1])

IInv ==
  /\ TypeOK /\ PartsOrdered /\ PartsSpend /\ Searches /\ SnakeFound /\ NothingMissed
  /\ Paired
-----------------------------------------------------------------------------
(***************************************************************************)
(* Sums along a row.                                                       *)
(***************************************************************************)
Sums(f, w, N) ==
  /\ f \in [0 .. N -> Nat]
  /\ f[0] = 0
  /\ \A n \in 1 .. N : f[n] = f[n - 1] + w[n]

\* A sum along a row is defined.
LEMMA SumExists ==
  ASSUME NEW N \in Nat, NEW w \in [1 .. N -> Nat]
  PROVE  \E f \in [0 .. N -> Nat] :
           f = [n \in 0 .. N |-> IF n = 0 THEN 0 ELSE f[n - 1] + w[n]]
<1> DEFINE step == [n \in 1 .. N |-> [m \in Nat |-> m + w[n]]]
<1>1. step \in [1 .. N -> [Nat -> Nat]]
  OBVIOUS
<1>2. PICK f \in [0 .. N -> Nat] : IsFold(f, 0, step, N)
  <2> HIDE DEF step
  <2> QED BY <1>1, FoldExists
<1>3. f = [n \in 0 .. N |-> IF n = 0 THEN 0 ELSE step[n][f[n - 1]]]
  BY <1>2 DEF IsFold
<1>4. \A n \in 0 .. N : n # 0 => step[n][f[n - 1]] = f[n - 1] + w[n]
  OBVIOUS
<1> HIDE DEF step
<1>5. [n \in 0 .. N |-> IF n = 0 THEN 0 ELSE step[n][f[n - 1]]]
        = [n \in 0 .. N |-> IF n = 0 THEN 0 ELSE f[n - 1] + w[n]]
  BY <1>4
<1> QED BY <1>3, <1>5

\* What defines a sum along a row gives its steps.
LEMMA SumOf ==
  ASSUME NEW N \in Nat, NEW w \in [1 .. N -> Nat], NEW g,
         g = [n \in 0 .. N |-> IF n = 0 THEN 0 ELSE g[n - 1] + w[n]]
  PROVE  Sums(g, w, N)
<1>1. PICK h \in [0 .. N -> Nat] : h = [n \in 0 .. N |-> IF n = 0 THEN 0 ELSE h[n - 1] + w[n]]
  BY SumExists
<1>2. \A n \in 0 .. N : g[n] = IF n = 0 THEN 0 ELSE g[n - 1] + w[n]
  OBVIOUS
<1>3. \A n \in 0 .. N : h[n] = IF n = 0 THEN 0 ELSE h[n - 1] + w[n]
  BY <1>1
<1>4. ASSUME NEW n \in 0 .. N PROVE g[n] = h[n]
  <2>1. n \in Nat /\ n <= N
    OBVIOUS
  <2>2. \A m \in 1 .. n : g[m - 1] = h[m - 1] => g[m] = h[m]
    <3> TAKE m \in 1 .. n
    <3>1. m \in 0 .. N /\ m # 0
      BY <2>1
    <3> QED BY <3>1, <1>2, <1>3
  <2>3. g[0] = h[0]
    BY <1>2, <1>3
  <2> QED BY <2>1, <2>2, <2>3, SameSteps
<1>5. g \in [0 .. N -> Nat]
  <2>1. \A n \in 0 .. N : g[n] \in Nat
    BY <1>1, <1>4
  <2> QED BY <2>1
<1>6. g[0] = 0 /\ \A n \in 1 .. N : g[n] = g[n - 1] + w[n]
  BY <1>2
<1> QED BY <1>5, <1>6 DEF Sums

\* The length of a script is a sum along it.
LEMMA TotalSums ==
  ASSUME NEW es \in Seq(Edits)
  PROVE  \E f : /\ Sums(f, [n \in 1 .. Len(es) |-> es[n].length], Len(es))
                /\ Total(es) = f[Len(es)]
<1> DEFINE N == Len(es)
           w == [n \in 1 .. N |-> es[n].length]
           Is(f) == f = [n \in 0 .. N |-> IF n = 0 THEN 0 ELSE f[n - 1] + es[n].length]
           g == CHOOSE f : Is(f)
<1>1. N \in Nat /\ w \in [1 .. N -> Nat] /\ \A n \in 1 .. N : w[n] = es[n].length
  <2>1. \A n \in 1 .. Len(es) : es[n] \in Edits
    OBVIOUS
  <2>2. \A n \in 1 .. Len(es) : es[n].length \in Nat
    BY <2>1 DEF Edits
  <2> QED BY <2>2
<1>2. \A f : Is(f) <=> f = [n \in 0 .. N |-> IF n = 0 THEN 0 ELSE f[n - 1] + w[n]]
  <2> TAKE f
  <2>1. \A n \in 0 .. N : n # 0 => f[n - 1] + es[n].length = f[n - 1] + w[n]
    BY <1>1
  <2> HIDE DEF w, N
  <2>2. [n \in 0 .. N |-> IF n = 0 THEN 0 ELSE f[n - 1] + es[n].length]
          = [n \in 0 .. N |-> IF n = 0 THEN 0 ELSE f[n - 1] + w[n]]
    BY <2>1
  <2> QED BY <2>2
<1>3. PICK h \in [0 .. N -> Nat] : h = [n \in 0 .. N |-> IF n = 0 THEN 0 ELSE h[n - 1] + w[n]]
  <2> HIDE DEF w, N
  <2> QED BY <1>1, SumExists
<1>4. Is(g)
  <2>1. Is(h)
    BY <1>2, <1>3
  <2> HIDE DEF Is
  <2> QED BY <2>1
<1>5. g = [n \in 0 .. N |-> IF n = 0 THEN 0 ELSE g[n - 1] + w[n]]
  BY <1>2, <1>4
<1>6. Total(es) = g[N]
  BY DEF Total
<1>7. Sums(g, w, N)
  <2> HIDE DEF Is, g, w, N
  <2> QED BY <1>1, <1>5, SumOf
<1> QED BY <1>6, <1>7

\* The length of a script is a number.
LEMMA TotalNat ==
  ASSUME NEW es \in Seq(Edits)
  PROVE  Total(es) \in Nat
<1>1. PICK f : /\ Sums(f, [n \in 1 .. Len(es) |-> es[n].length], Len(es))
               /\ Total(es) = f[Len(es)]
  BY TotalSums
<1> QED BY <1>1 DEF Sums

\* A script without edits has no length.
LEMMA TotalNone == Total(<<>>) = 0
<1>1. <<>> \in Seq(Edits) /\ Len(<<>>) = 0
  OBVIOUS
<1>2. PICK f : /\ Sums(f, [n \in 1 .. Len(<<>>) |-> <<>>[n].length], Len(<<>>))
               /\ Total(<<>>) = f[Len(<<>>)]
  BY <1>1, TotalSums
<1> QED BY <1>1, <1>2 DEF Sums

\* The length of a single edit.
LEMMA TotalOne ==
  ASSUME NEW e \in Edits
  PROVE  Total(<<e>>) = e.length
<1>1. <<e>> \in Seq(Edits) /\ Len(<<e>>) = 1 /\ <<e>>[1] = e
  OBVIOUS
<1>2. PICK f : /\ Sums(f, [n \in 1 .. Len(<<e>>) |-> <<e>>[n].length], Len(<<e>>))
               /\ Total(<<e>>) = f[Len(<<e>>)]
  BY <1>1, TotalSums
<1>3. f[0] = 0 /\ f[1] = f[0] + e.length
  BY <1>1, <1>2 DEF Sums
<1> QED BY <1>1, <1>2, <1>3 DEF Edits

\* The length of two scripts one after the other.
LEMMA TotalConcat ==
  ASSUME NEW s \in Seq(Edits), NEW t \in Seq(Edits)
  PROVE  Total(s \o t) = Total(s) + Total(t)
<1> DEFINE M == Len(s)
           N == Len(t)
           u == s \o t
<1>1. /\ M \in Nat /\ N \in Nat /\ u \in Seq(Edits) /\ Len(u) = M + N
      /\ \A i \in 1 .. M : u[i] = s[i]
      /\ \A i \in 1 .. N : u[M + i] = t[i]
      /\ \A i \in 1 .. M : s[i].length \in Nat
      /\ \A i \in 1 .. N : t[i].length \in Nat
  <2>1. u \in Seq(Edits)
    BY ConcatProperties
  <2>2. Len(u) = Len(s) + Len(t) /\ \A i \in 1 .. Len(s) + Len(t) :
          u[i] = IF i <= Len(s) THEN s[i] ELSE t[i - Len(s)]
    BY ConcatProperties
  <2>3. /\ \A i \in 1 .. Len(s) : s[i] \in Edits
        /\ \A i \in 1 .. Len(t) : t[i] \in Edits
    OBVIOUS
  <2>4. M \in Nat /\ N \in Nat
    OBVIOUS
  <2> HIDE DEF u
  <2>5. \A i \in 1 .. N : u[M + i] = t[i]
    <3> TAKE i \in 1 .. N
    <3> DEFINE j == M + i
    <3>1. j \in 1 .. M + N /\ ~ (j <= M) /\ j - M = i
      BY <2>4
    <3> HIDE DEF j
    <3>2. u[j] = t[i]
      BY <2>2, <3>1
    <3> QED BY <3>2 DEF j
  <2>6. \A i \in 1 .. M : u[i] = s[i]
    BY <2>2, <2>4
  <2> QED BY <2>1, <2>2, <2>3, <2>4, <2>5, <2>6 DEF Edits
<1>2. PICK f : Sums(f, [n \in 1 .. M |-> s[n].length], M) /\ Total(s) = f[M]
  BY TotalSums
<1>3. PICK g : Sums(g, [n \in 1 .. N |-> t[n].length], N) /\ Total(t) = g[N]
  BY TotalSums
<1> HIDE DEF u
<1>4. PICK h : Sums(h, [n \in 1 .. Len(u) |-> u[n].length], Len(u)) /\ Total(u) = h[Len(u)]
  BY <1>1, TotalSums
<1> HIDE DEF M, N
<1>f. /\ f \in [0 .. M -> Nat] /\ f[0] = 0
      /\ \A n \in 1 .. M : f[n] = f[n - 1] + s[n].length
  BY <1>2 DEF Sums
<1>g. /\ g \in [0 .. N -> Nat] /\ g[0] = 0
      /\ \A n \in 1 .. N : g[n] = g[n - 1] + t[n].length
  BY <1>3 DEF Sums
<1>h. /\ h \in [0 .. M + N -> Nat] /\ h[0] = 0 /\ Total(u) = h[M + N]
      /\ \A n \in 1 .. M + N : h[n] = h[n - 1] + u[n].length
  BY <1>1, <1>4 DEF Sums
<1>5. h[M] = f[M]
  <2>1. \A n \in 1 .. M : h[n - 1] = f[n - 1] => h[n] = f[n]
    <3> TAKE n \in 1 .. M
    <3>1. n \in 1 .. M + N
      BY <1>1
    <3>2. h[n] = h[n - 1] + u[n].length
      BY <3>1, <1>h
    <3>3. f[n] = f[n - 1] + s[n].length /\ u[n] = s[n]
      BY <1>1, <1>f
    <3> QED BY <3>2, <3>3
  <2>2. h[0] = f[0]
    BY <1>f, <1>h
  <2> QED BY <2>1, <2>2, <1>1, SameSteps
<1> DEFINE k == [n \in 0 .. N |-> h[M + n]]
           l == [n \in 0 .. N |-> f[M] + g[n]]
<1>6. k[0] = l[0] /\ k[N] = h[M + N] /\ l[N] = f[M] + g[N]
  BY <1>1, <1>5, <1>f, <1>g, <1>h
<1>7. \A n \in 1 .. N : k[n - 1] = l[n - 1] => k[n] = l[n]
  <2> SUFFICES ASSUME NEW n \in 1 .. N, k[n - 1] = l[n - 1] PROVE k[n] = l[n]
    OBVIOUS
  <2>1. n - 1 \in 0 .. N /\ n \in 0 .. N /\ M + n \in 1 .. M + N /\ M + n - 1 = M + (n - 1)
    BY <1>1
  <2>2. k[n - 1] = h[M + (n - 1)] /\ k[n] = h[M + n] /\ l[n - 1] = f[M] + g[n - 1]
        /\ l[n] = f[M] + g[n]
    BY <2>1
  <2>3. h[M + n] = h[M + n - 1] + u[M + n].length
    <3>1. \A m \in 1 .. M + N : m = M + n => h[M + n] = h[M + n - 1] + u[M + n].length
      <4> TAKE m \in 1 .. M + N
      <4> HAVE m = M + n
      <4>1. h[m] = h[m - 1] + u[m].length
        BY <1>h
      <4>2. M \in Int /\ n \in Int /\ m \in Int
        BY <1>1
      <4>3. m - 1 = M + n - 1
        BY <4>2
      <4> HIDE DEF k, l
      <4> QED BY <4>1, <4>3
    <3> HIDE DEF k, l
    <3> QED BY <3>1, <2>1
  <2>4. u[M + n].length = t[n].length /\ t[n].length \in Nat
    BY <1>1
  <2>5. g[n] = g[n - 1] + t[n].length /\ g[n - 1] \in Nat /\ f[M] \in Nat
    BY <2>1, <1>1, <1>f, <1>g
  <2>6. h[M + (n - 1)] = f[M] + g[n - 1]
    BY <2>2
  <2>7. h[M + n] = h[M + (n - 1)] + t[n].length
    BY <2>1, <2>3, <2>4
  <2>8. h[M + n] = f[M] + g[n]
    <3> DEFINE hn == h[M + n]
               hm == h[M + (n - 1)]
               gn == g[n]
               gm == g[n - 1]
               x == f[M]
               y == t[n].length
    <3>1. /\ hm = x + gm /\ hn = hm + y /\ gn = gm + y
          /\ gm \in Nat /\ x \in Nat /\ y \in Nat
      BY <2>4, <2>5, <2>6, <2>7
    <3>2. hn = x + gn
      <4> HIDE DEF hn, hm, gn, gm, x, y
      <4> QED BY <3>1
    <3> QED BY <3>2
  <2> QED BY <2>2, <2>8
<1>8. k[N] = l[N]
  <2> HIDE DEF k, l
  <2> QED BY <1>1, <1>6, <1>7, SameSteps
<1> QED BY <1>2, <1>3, <1>6, <1>8, <1>h DEF u

\* What the parts will cost is a sum along them, from the last to the first.
LEMMA SpendSums ==
  ASSUME NEW e, NEW ps, Len(ps) \in Nat,
         \A i \in 1 .. Len(ps) : Between(e, ps[i].from, ps[i].to) \in Nat
  PROVE  \E f : /\ f \in [0 .. Len(ps) -> Nat] /\ f[0] = 0
                /\ \A n \in 1 .. Len(ps) :
                     f[n] = f[n - 1] + Between(e, ps[Len(ps) + 1 - n].from,
                                                  ps[Len(ps) + 1 - n].to)
                /\ ToSpend(e, ps) = f[Len(ps)]
<1> DEFINE N == Len(ps)
           W(n) == Between(e, ps[N + 1 - n].from, ps[N + 1 - n].to)
           w == [n \in 1 .. N |-> W(n)]
           Is(f) == f = [n \in 0 .. N |-> IF n = 0 THEN 0 ELSE f[n - 1] + W(n)]
           g == CHOOSE f : Is(f)
<1>1. N \in Nat /\ w \in [1 .. N -> Nat] /\ \A n \in 1 .. N : w[n] = W(n) /\ W(n) \in Nat
  <2>1. \A n \in 1 .. N : N + 1 - n \in 1 .. N
    OBVIOUS
  <2> QED BY <2>1
<1>6. ToSpend(e, ps) = g[N]
  BY DEF ToSpend, Between
<1> HIDE DEF W
<1>2. \A f : Is(f) <=> f = [n \in 0 .. N |-> IF n = 0 THEN 0 ELSE f[n - 1] + w[n]]
  <2> TAKE f
  <2>1. \A n \in 0 .. N : n # 0 => f[n - 1] + W(n) = f[n - 1] + w[n]
    BY <1>1
  <2> HIDE DEF w, N
  <2>2. [n \in 0 .. N |-> IF n = 0 THEN 0 ELSE f[n - 1] + W(n)]
          = [n \in 0 .. N |-> IF n = 0 THEN 0 ELSE f[n - 1] + w[n]]
    BY <2>1
  <2> QED BY <2>2
<1>3. PICK h \in [0 .. N -> Nat] : h = [n \in 0 .. N |-> IF n = 0 THEN 0 ELSE h[n - 1] + w[n]]
  <2> HIDE DEF w, N
  <2> QED BY <1>1, SumExists
<1>4. Is(g)
  <2>1. Is(h)
    BY <1>2, <1>3
  <2> HIDE DEF Is
  <2> QED BY <2>1
<1>5. g = [n \in 0 .. N |-> IF n = 0 THEN 0 ELSE g[n - 1] + w[n]]
  BY <1>2, <1>4
<1> HIDE DEF Is, g, w, N
<1>7. Sums(g, w, N)
  BY <1>1, <1>5, SumOf
<1>10. g \in [0 .. N -> Nat] /\ g[0] = 0 /\ \A n \in 1 .. N : g[n] = g[n - 1] + w[n]
  BY <1>7 DEF Sums
<1>11. \A n \in 1 .. N : g[n] = g[n - 1] + W(n)
  BY <1>1, <1>10
<1>12. /\ g \in [0 .. N -> Nat] /\ g[0] = 0
       /\ \A n \in 1 .. N : g[n] = g[n - 1] + Between(e, ps[N + 1 - n].from, ps[N + 1 - n].to)
       /\ ToSpend(e, ps) = g[N]
  BY <1>6, <1>10, <1>11 DEF W
<1> HIDE DEF W
<1> QED BY <1>12 DEF N

\* One part more.
LEMMA SpendMore ==
  ASSUME NEW e, NEW ps, NEW qs, Len(ps) \in Nat, Len(qs) = Len(ps) + 1,
         \A i \in 1 .. Len(ps) : qs[i + 1] = ps[i],
         \A i \in 1 .. Len(qs) : Between(e, qs[i].from, qs[i].to) \in Nat
  PROVE  /\ ToSpend(e, ps) \in Nat
         /\ ToSpend(e, qs) = Between(e, qs[1].from, qs[1].to) + ToSpend(e, ps)
<1> DEFINE N == Len(ps)
           B(p) == Between(e, p.from, p.to)
<1>1. /\ N \in Nat /\ Len(qs) = N + 1 /\ \A i \in 1 .. N : qs[i + 1] = ps[i]
      /\ \A i \in 1 .. N + 1 : B(qs[i]) \in Nat
  OBVIOUS
<1>2. \A i \in 1 .. N : B(ps[i]) \in Nat
  <2> TAKE i \in 1 .. N
  <2>1. i + 1 \in 1 .. N + 1
    BY <1>1
  <2>2. B(qs[i + 1]) \in Nat
    BY <2>1, <1>1
  <2> QED BY <2>2, <1>1
<1>3. PICK f : /\ f \in [0 .. N -> Nat] /\ f[0] = 0
               /\ \A n \in 1 .. N : f[n] = f[n - 1] + B(ps[N + 1 - n])
               /\ ToSpend(e, ps) = f[N]
  BY <1>2, SpendSums
<1>4. PICK g : /\ g \in [0 .. N + 1 -> Nat] /\ g[0] = 0
               /\ \A n \in 1 .. N + 1 : g[n] = g[n - 1] + B(qs[N + 1 + 1 - n])
               /\ ToSpend(e, qs) = g[N + 1]
  <2>1. PICK g : /\ g \in [0 .. Len(qs) -> Nat] /\ g[0] = 0
                 /\ \A n \in 1 .. Len(qs) : g[n] = g[n - 1] + B(qs[Len(qs) + 1 - n])
                 /\ ToSpend(e, qs) = g[Len(qs)]
    <3>1. Len(qs) \in Nat
      BY <1>1
    <3> QED BY <3>1, SpendSums
  <2> QED BY <2>1, <1>1
<1> HIDE DEF B, N
<1>5. g[N] = f[N]
  <2>1. \A n \in 1 .. N : g[n - 1] = f[n - 1] => g[n] = f[n]
    <3> TAKE n \in 1 .. N
    <3>1. N + 1 + 1 - n = (N + 1 - n) + 1 /\ N + 1 - n \in 1 .. N /\ n \in 1 .. N + 1
      BY <1>1
    <3>2. qs[N + 1 + 1 - n] = ps[N + 1 - n]
      <4> DEFINE m == N + 1 - n
      <4>1. m \in 1 .. N /\ N + 1 + 1 - n = m + 1
        BY <3>1
      <4>2. qs[m + 1] = ps[m]
        <5> HIDE DEF m
        <5> QED BY <4>1, <1>1
      <4> QED BY <4>1, <4>2
    <3>3. g[n] = g[n - 1] + B(qs[N + 1 + 1 - n])
      BY <3>1, <1>4
    <3>4. f[n] = f[n - 1] + B(ps[N + 1 - n])
      BY <1>3
    <3> QED BY <3>2, <3>3, <3>4
  <2>2. g[0] = f[0]
    BY <1>3, <1>4
  <2> QED BY <2>1, <2>2, <1>1, SameSteps
<1>6. g[N + 1] = g[N] + B(qs[1])
  <2> DEFINE m == N + 1
  <2>1. m \in 1 .. N + 1 /\ m - 1 = N /\ N + 1 + 1 - m = 1
    BY <1>1
  <2>2. g[m] = g[m - 1] + B(qs[N + 1 + 1 - m])
    <3> HIDE DEF m
    <3> QED BY <2>1, <1>4
  <2> QED BY <2>1, <2>2
<1>7. f[N] \in Nat /\ B(qs[1]) \in Nat
  BY <1>1, <1>3
<1> QED BY <1>3, <1>4, <1>5, <1>6, <1>7 DEF B

\* No parts cost nothing.
LEMMA SpendNone ==
  ASSUME NEW e
  PROVE  ToSpend(e, <<>>) = 0
<1>1. Len(<<>>) = 0 /\ Len(<<>>) \in Nat
  OBVIOUS
<1>2. PICK f : f[0] = 0 /\ ToSpend(e, <<>>) = f[Len(<<>>)]
  <2>1. \A i \in 1 .. Len(<<>>) : Between(e, <<>>[i].from, <<>>[i].to) \in Nat
    BY <1>1
  <2> QED BY <2>1, <1>1, SpendSums
<1> QED BY <1>1, <1>2

(***************************************************************************)
(* Scripts joined end to end.                                              *)
(***************************************************************************)
\* Equal elements after equal elements.
LEMMA CommonJoins ==
  ASSUME NEW e, NEW p \in Points, NEW q \in Points, NEW r \in Points,
         Common(e, p, q), Common(e, q, r)
  PROVE  Common(e, p, r)
<1>1. /\ p.x \in Nat /\ p.y \in Nat /\ q.x \in Nat /\ q.y \in Nat /\ r.x \in Nat /\ r.y \in Nat
  BY DEF Points
<1>2. /\ q.x - p.x = q.y - p.y /\ q.x >= p.x
      /\ r.x - q.x = r.y - q.y /\ r.x >= q.x
  BY DEF Common
<1>3. r.x - p.x = r.y - p.y /\ r.x >= p.x
  BY <1>1, <1>2
<1>4. ASSUME NEW i \in 0 .. (r.x - p.x) - 1 PROVE <<p.x + i, p.y + i>> \in e
  <2>1. i \in Nat /\ i < r.x - p.x
    BY <1>1, <1>3
  <2>2. CASE i < q.x - p.x
    <3>1. i \in 0 .. (q.x - p.x) - 1
      BY <1>1, <2>1, <2>2
    <3> QED BY <3>1 DEF Common
  <2>3. CASE ~ (i < q.x - p.x)
    <3> DEFINE j == i - (q.x - p.x)
    <3>1. j \in 0 .. (r.x - q.x) - 1 /\ q.x + j = p.x + i /\ q.y + j = p.y + i
      BY <1>1, <1>2, <2>1, <2>3
    <3>2. <<q.x + j, q.y + j>> \in e
      <4> HIDE DEF j
      <4> QED BY <3>1 DEF Common
    <3> QED BY <3>1, <3>2
  <2> QED BY <2>2, <2>3
<1> QED BY <1>3, <1>4 DEF Common

\* An edit is between points.
LEMMA EditPoints ==
  ASSUME NEW u \in Edits
  PROVE  Before(u) \in Points /\ After(u) \in Points
  BY DEF Edits, Before, After, Point, Points

\* A script leads on along equal elements.
LEMMA TransformsGoesOn ==
  ASSUME NEW e, NEW es \in Seq(Edits), NEW a \in Points, NEW b \in Points, NEW c \in Points,
         Transforms(e, es, a, b), Common(e, b, c)
  PROVE  Transforms(e, es, a, c)
<1>1. /\ Len(es) \in Nat
      /\ \A i \in 1 .. Len(es) : es[i] \in Edits
  OBVIOUS
<1> SUFFICES ASSUME NEW i \in 0 .. Len(es)
             PROVE  Common(e, Leaving(es, i, a), Arriving(es, i + 1, c))
  BY DEF Transforms
<1>2. Common(e, Leaving(es, i, a), Arriving(es, i + 1, b))
  BY DEF Transforms
<1>3. CASE i # Len(es)
  <2>1. Arriving(es, i + 1, c) = Arriving(es, i + 1, b)
    BY <1>1, <1>3 DEF Arriving
  <2> QED BY <2>1, <1>2
<1>4. CASE i = Len(es)
  <2>1. Arriving(es, i + 1, c) = c /\ Arriving(es, i + 1, b) = b
    BY <1>4 DEF Arriving
  <2>2. Leaving(es, i, a) \in Points
    BY <1>1, EditPoints DEF Leaving
  <2> QED BY <2>1, <2>2, <1>2, CommonJoins
<1> QED BY <1>3, <1>4

\* Two scripts that meet lead from the start of the first to the end of the
\* second.
LEMMA TransformsJoin ==
  ASSUME NEW e, NEW s \in Seq(Edits), NEW t \in Seq(Edits),
         NEW a \in Points, NEW b \in Points, NEW c \in Points,
         Transforms(e, s, a, b), Transforms(e, t, b, c)
  PROVE  Transforms(e, s \o t, a, c)
<1> DEFINE M == Len(s)
           N == Len(t)
           u == s \o t
<1>1. /\ M \in Nat /\ N \in Nat /\ u \in Seq(Edits) /\ Len(u) = M + N
      /\ \A i \in 1 .. M + N : u[i] = IF i <= M THEN s[i] ELSE t[i - M]
      /\ \A i \in 1 .. M : s[i] \in Edits
      /\ \A i \in 1 .. N : t[i] \in Edits
  <2>1. u \in Seq(Edits)
    BY ConcatProperties
  <2>2. Len(u) = Len(s) + Len(t) /\ \A i \in 1 .. Len(s) + Len(t) :
          u[i] = IF i <= Len(s) THEN s[i] ELSE t[i - Len(s)]
    BY ConcatProperties
  <2> QED BY <2>1, <2>2
<1>s. /\ \A i \in 0 .. M : Common(e, Leaving(s, i, a), Arriving(s, i + 1, b))
      /\ \A i \in 0 .. N : Common(e, Leaving(t, i, b), Arriving(t, i + 1, c))
  BY DEF Transforms
<1>l. \A i \in 0 .. M : Leaving(s, i, a) \in Points
  BY <1>1, EditPoints DEF Leaving
<1>r. \A i \in 1 .. N + 1 : Arriving(t, i, c) \in Points
  BY <1>1, EditPoints DEF Arriving
<1>2. \A i \in 0 .. M : Leaving(u, i, a) = Leaving(s, i, a)
  <2> TAKE i \in 0 .. M
  <2>1. i # 0 => i \in 1 .. M + N /\ i <= M
    BY <1>1
  <2> HIDE DEF u, M, N
  <2> QED BY <2>1, <1>1 DEF Leaving
<1>3. \A i \in 1 .. M : Arriving(u, i, c) = Arriving(s, i, b)
  <2> TAKE i \in 1 .. M
  <2>1. i \in 1 .. M + N /\ i <= M /\ i # M + 1 /\ i # M + N + 1
    BY <1>1
  <2>2. u[i] = s[i]
    <3> HIDE DEF u, M, N
    <3> QED BY <2>1, <1>1
  <2>3. Arriving(s, i, b) = Before(s[i])
    BY <2>1 DEF Arriving
  <2>4. Arriving(u, i, c) = Before(u[i])
    <3> HIDE DEF u, M, N
    <3> QED BY <2>1, <1>1 DEF Arriving
  <2> QED BY <2>2, <2>3, <2>4
<1>4. \A i \in 1 .. N : u[M + i] = t[i]
  <2> SUFFICES ASSUME NEW i \in 1 .. N, NEW j \in 1 .. M + N, j = M + i PROVE u[j] = t[i]
    BY <1>1
  <2>1. ~ (j <= M) /\ j - M = i
    BY <1>1
  <2> HIDE DEF u, M, N
  <2> QED BY <2>1, <1>1
<1>5. \A i \in 1 .. N : Leaving(u, M + i, a) = Leaving(t, i, b)
  <2> TAKE i \in 1 .. N
  <2>1. M + i # 0 /\ i # 0
    BY <1>1
  <2> HIDE DEF u, M, N
  <2> QED BY <2>1, <1>4 DEF Leaving
<1>6. \A i \in 1 .. N + 1 : Arriving(u, M + i, c) = Arriving(t, i, c)
  <2> TAKE i \in 1 .. N + 1
  <2>1. M + i = M + N + 1 <=> i = N + 1
    <3>1. M \in Int /\ N \in Int /\ i \in Int
      BY <1>1
    <3> HIDE DEF u, M, N
    <3> QED BY <3>1
  <2>2. i # N + 1 => i \in 1 .. N
    BY <1>1
  <2>3. Arriving(t, i, c) = IF i = N + 1 THEN c ELSE Before(t[i])
    BY DEF Arriving
  <2>4. Arriving(u, M + i, c) = IF M + i = M + N + 1 THEN c ELSE Before(u[M + i])
    <3> HIDE DEF u, M, N
    <3> QED BY <1>1 DEF Arriving
  <2> HIDE DEF u, M, N
  <2> QED BY <2>1, <2>2, <2>3, <2>4, <1>4
<1> HIDE DEF u, M, N
<1> SUFFICES ASSUME NEW i \in 0 .. M + N
             PROVE  Common(e, Leaving(u, i, a), Arriving(u, i + 1, c))
  BY <1>1 DEF Transforms, u
<1>7. CASE i < M
  <2>1. i \in 0 .. M /\ i + 1 \in 1 .. M
    BY <1>1, <1>7
  <2>2. Arriving(u, i + 1, c) = Arriving(s, i + 1, b)
    BY <2>1, <1>3
  <2> QED BY <2>1, <2>2, <1>s, <1>2
<1>8. CASE i = M
  <2>1. M \in 0 .. M /\ 0 \in 0 .. N /\ 1 \in 1 .. N + 1 /\ 0 + 1 = 1
    BY <1>1
  <2>2. Common(e, Leaving(s, M, a), Arriving(s, M + 1, b)) /\ Arriving(s, M + 1, b) = b
    BY <2>1, <1>s DEF Arriving, M
  <2>3. Common(e, Leaving(t, 0, b), Arriving(t, 1, c)) /\ Leaving(t, 0, b) = b
    BY <2>1, <1>s DEF Leaving
  <2>4. Common(e, Leaving(s, M, a), Arriving(t, 1, c))
    BY <2>1, <2>2, <2>3, <1>l, <1>r, CommonJoins
  <2>5. Leaving(u, M, a) = Leaving(s, M, a) /\ Arriving(u, M + 1, c) = Arriving(t, 1, c)
    BY <2>1, <1>2, <1>6
  <2> QED BY <2>4, <2>5, <1>8
<1>9. CASE i > M
  <2> DEFINE j == i - M
  <2>1. j \in 1 .. N /\ j + 1 \in 1 .. N + 1 /\ i = M + j /\ i + 1 = M + (j + 1) /\ j \in 0 .. N
    BY <1>1, <1>9
  <2> HIDE DEF j
  <2>2. Common(e, Leaving(t, j, b), Arriving(t, j + 1, c))
    BY <2>1, <1>s
  <2>3. Leaving(u, i, a) = Leaving(t, j, b)
    BY <2>1, <1>5
  <2>4. Arriving(u, i + 1, c) = Arriving(t, j + 1, c)
    BY <2>1, <1>6
  <2> QED BY <2>2, <2>3, <2>4
<1> QED BY <1>1, <1>7, <1>8, <1>9
-----------------------------------------------------------------------------
(***************************************************************************)
(* What costs nothing.                                                     *)
(***************************************************************************)
\* Where nothing has to be edited there are equal elements only.
LEMMA FreeCommon ==
  ASSUME NEW e \in Relations, NEW a \in Whole, NEW c \in Whole, Ordered(a, c),
         Between(e, a, c) = 0
  PROVE  Common(e, a, c)
<1> DEFINE Bad == {s \in Nat : \E q \in Whole : /\ q.x + q.y = s /\ Ordered(a, q)
                                                /\ Between(e, a, q) = 0 /\ ~ Common(e, a, q)}
<1> SUFFICES ASSUME ~ Common(e, a, c) PROVE FALSE
  OBVIOUS
<1>1. \A p \in Whole : p \in Points /\ p.x \in Nat /\ p.y \in Nat /\ p = [x |-> p.x, y |-> p.y]
  BY WholeGrid
<1>2. PICK s \in Bad : \A t \in Bad : s <= t
  <2>1. c.x + c.y \in Bad
    BY <1>1
  <2>2. Bad \subseteq Nat /\ Bad # {}
    BY <2>1
  <2> HIDE DEF Bad
  <2> QED BY <2>2, LeastElement
<1>3. PICK q \in Whole : /\ q.x + q.y = s /\ Ordered(a, q)
                         /\ Between(e, a, q) = 0 /\ ~ Common(e, a, q)
  OBVIOUS
<1>4. q # a
  <2>1. Common(e, a, a)
    BY <1>1 DEF Common
  <2> QED BY <2>1, <1>3
<1>5. PICK p \in Whole : \E w \in {0, 1} :
        Ordered(a, p) /\ Steps(e, p, q, w) /\ Between(e, a, q) = Between(e, a, p) + w
  BY <1>3, <1>4, OnwardSteps
<1>6. Between(e, a, p) \in Nat
  BY <1>5, OnwardSteps
<1>7. Ordered(a, p) /\ Steps(e, p, q, 0) /\ Between(e, a, p) = 0
  BY <1>3, <1>5, <1>6
<1>8. q.x = p.x + 1 /\ q.y = p.y + 1 /\ <<p.x, p.y>> \in e
  BY <1>7 DEF Steps
<1>9. Common(e, a, p)
  <2>1. p.x + p.y \in Nat /\ p.x + p.y < s
    BY <1>1, <1>3, <1>8
  <2>2. ~ (p.x + p.y \in Bad)
    <3>1. s \in Nat
      OBVIOUS
    <3> HIDE DEF Bad
    <3> QED BY <1>2, <2>1, <3>1
  <2> QED BY <2>1, <2>2, <1>7
<1>10. Common(e, p, q)
  <2>1. q.x - p.x = 1 /\ q.y - p.y = 1 /\ p.x + 0 = p.x /\ p.y + 0 = p.y
    BY <1>1, <1>8
  <2>2. \A i \in 0 .. (q.x - p.x) - 1 : i = 0
    BY <2>1
  <2>3. \A i \in 0 .. (q.x - p.x) - 1 : <<p.x + i, p.y + i>> \in e
    BY <2>1, <2>2, <1>8
  <2> QED BY <2>1, <2>3, <1>1 DEF Common
<1>11. Common(e, a, q)
  BY <1>1, <1>9, <1>10, CommonJoins
<1> QED BY <1>3, <1>11

\* What two sequences begin with costs nothing.
LEMMA BeginningFree ==
  ASSUME NEW e \in Relations, NEW a \in Whole, NEW p \in Whole, NEW c \in Whole,
         Common(e, a, p), Ordered(p, c)
  PROVE  Between(e, p, c) = Between(e, a, c)
<1>1. Between(e, a, p) = 0 /\ Ordered(a, p) /\ Ordered(a, c)
  BY CommonFree, OrderedTransitive
<1>2. /\ Between(e, a, c) \in Nat /\ Between(e, p, c) \in Nat
      /\ Between(e, a, c) <= Between(e, a, p) + Between(e, p, c)
  BY <1>1, Triangle, OnwardSteps
<1>3. Between(e, p, c) <= Between(e, a, c)
  <2> DEFINE h == Backward(e, a, c)
             n == p.x - a.x
  <2>1. /\ a.x \in Nat /\ a.y \in Nat /\ p.x \in Nat /\ p.y \in Nat
        /\ c.x \in Nat /\ c.y \in Nat /\ p.x - a.x = p.y - a.y /\ p.x >= a.x
    BY WholeGrid DEF Common
  <2>2. n \in Nat /\ Turn(c, a) = Along(Turn(c, p), n)
    <3>1. c.x - a.x = (c.x - p.x) + (p.x - a.x) /\ c.y - a.y = (c.y - p.y) + (p.x - a.x)
      BY <2>1
    <3> QED BY <2>1, <3>1 DEF Turn, Along, Point
  <2>3. a \in Grid(a, c) /\ p \in Grid(a, c)
    <3>1. Ordered(a, a)
      BY <2>1 DEF Ordered
    <3> QED BY <3>1, <1>1, WholeGrid
  <2>4. /\ Problem(h) /\ GridOf(h) = Grid(Point(0, 0), Turn(c, a))
        /\ Cost(h, Turn(c, a)) = Between(e, a, c) /\ Cost(h, Turn(c, p)) = Between(e, p, c)
    BY <1>1, <2>3, BackwardProblem
  <2>5. Turn(c, a) \in GridOf(h) /\ Turn(c, p) \in GridOf(h)
    BY <1>1, <2>3, <2>4, TurnedGrid
  <2> HIDE DEF h, n
  <2>6. Cost(h, Turn(c, p)) <= Cost(h, Along(Turn(c, p), n))
    BY <2>2, <2>4, <2>5, DiagonalCost
  <2> QED BY <2>2, <2>4, <2>6
<1> QED BY <1>1, <1>2, <1>3

\* With nothing on one side all there is to do is to delete or to insert the other.
LEMMA OneSide ==
  ASSUME NEW e \in Relations, NEW a \in Whole, NEW c \in Whole, Ordered(a, c),
         c.x - a.x = 0 \/ c.y - a.y = 0
  PROVE  Between(e, a, c) = (c.x - a.x) + (c.y - a.y)
<1>1. /\ Between(e, a, c) \in Nat
      /\ Offset(a, c) <= Between(e, a, c) /\ -Offset(a, c) <= Between(e, a, c)
      /\ Between(e, a, c) <= (c.x - a.x) + (c.y - a.y)
  BY DistanceRange
<1>2. /\ a.x \in Nat /\ a.y \in Nat /\ c.x \in Nat /\ c.y \in Nat
      /\ a.x <= c.x /\ a.y <= c.y
  BY WholeGrid DEF Ordered
<1> QED BY <1>1, <1>2 DEF Offset
-----------------------------------------------------------------------------
(***************************************************************************)
(* The parts.                                                              *)
(***************************************************************************)
\* The parts in order.
LEMMA PartFacts ==
  ASSUME TypeOK, PartsOrdered
  PROVE  /\ Len(parts) \in Nat
         /\ \A i \in 1 .. Len(parts) :
              /\ parts[i] \in PartTypes
              /\ parts[i].from \in Whole /\ parts[i].to \in Whole
              /\ parts[i].from \in Points /\ parts[i].to \in Points
              /\ Ordered(parts[i].from, parts[i].to)
              /\ Between(equal, parts[i].from, parts[i].to) \in Nat
<1>1. parts \in Seq(PartTypes) /\ equal \in Relations
  BY DEF TypeOK
<1>2. \A i \in 1 .. Len(parts) : /\ parts[i] \in PartTypes
                                 /\ parts[i].from \in Whole /\ parts[i].to \in Whole
  <2>1. \A i \in 1 .. Len(parts) : parts[i] \in PartTypes
    BY <1>1
  <2> QED BY <2>1 DEF PartTypes
<1>3. \A i \in 1 .. Len(parts) : Ordered(parts[i].from, parts[i].to)
  BY DEF PartsOrdered
<1> QED BY <1>1, <1>2, <1>3, WholeGrid, OnwardSteps

\* The part at hand.
LEMMA AtHand ==
  ASSUME TypeOK, PartsOrdered, Solving
  PROVE  /\ equal \in Relations
         /\ From \in Whole /\ To \in Whole /\ Ordered(From, To)
         /\ From \in Points /\ To \in Points
         /\ From.x \in Nat /\ From.y \in Nat /\ To.x \in Nat /\ To.y \in Nat
         /\ From.x <= To.x /\ From.y <= To.y
         /\ From \in Grid(From, To) /\ To \in Grid(From, To)
         /\ Between(equal, From, To) \in Nat
         /\ Between(equal, From, To) = 0 => From = To /\ ~ parts[1].half
         /\ Delta = Offset(From, To)
<1>1. Len(parts) \in Nat /\ 1 \in 1 .. Len(parts)
  <2>1. parts \in Seq(PartTypes) /\ parts # <<>>
    BY DEF TypeOK, PartsOrdered
  <2> QED BY <2>1
<1>2. /\ parts[1].from \in Whole /\ parts[1].to \in Whole
      /\ Ordered(parts[1].from, parts[1].to)
      /\ Between(equal, parts[1].from, parts[1].to) \in Nat
      /\ Between(equal, parts[1].from, parts[1].to) = 0 =>
           parts[1].from = parts[1].to /\ ~ parts[1].half
  BY <1>1, PartFacts DEF PartsOrdered
<1>3. Ordered(From, From) /\ Ordered(To, To)
  BY <1>2, WholeGrid DEF Ordered, From, To
<1> QED BY <1>2, <1>3, WholeGrid DEF From, To, TypeOK, Delta, Offset, LengthOne, LengthTwo, Ordered

\* When the last part has yielded, the edits are those of the whole.
AllSpent ==
  phase = "merge" /\ ~ failed =>
    /\ Transforms(equal, script, Start, End)
    /\ Total(script) = Between(equal, Start, End)

\* A part that yields what it promises leaves the others as they are.
LEMMA YieldStep ==
  ASSUME TypeOK, PartsOrdered, PartsSpend, phase \in {"solve", "snake"},
         equal' = equal, failed' \in BOOLEAN, failed => failed',
         NEW es \in Seq(Edits), Yield(es),
         ~ failed' => Transforms(equal, es, From, To) /\ Total(es) = Between(equal, From, To),
         es = <<>> => failed' \/ Between(equal, From, To) = 0
  PROVE  /\ parts' \in Seq(PartTypes) /\ script' \in Seq(Edits)
         /\ phase' \in {"solve", "merge", "crashed"}
         /\ PartsOrdered' /\ PartsSpend' /\ NothingMissed' /\ AllSpent'
<1> DEFINE n == Len(parts)
<1>1. /\ script' = script \o es /\ parts' = Tail(parts)
      /\ phase' = IF parts[1].half /\ es = <<>> THEN "crashed"
                  ELSE IF n = 1 THEN "merge" ELSE "solve"
  BY DEF Yield
<1>2. Solving
  BY DEF Solving
<1>3. /\ parts \in Seq(PartTypes) /\ parts # <<>> /\ script \in Seq(Edits)
  BY <1>2 DEF TypeOK, PartsOrdered
<1>4. /\ n \in Nat /\ n >= 1
      /\ parts' \in Seq(PartTypes) /\ Len(parts') = n - 1
      /\ \A i \in 1 .. n - 1 : parts'[i] = parts[i + 1]
      /\ script' \in Seq(Edits)
  <2>1. script' \in Seq(Edits)
    BY <1>1, <1>3
  <2> QED BY <2>1, <1>1, <1>3
<1>5. phase' \in {"solve", "merge", "crashed"}
  BY <1>1
<1>6. phase' = "crashed" => failed'
  <2>1. Between(equal, From, To) = 0 => ~ parts[1].half
    BY <1>2, AtHand
  <2> QED BY <2>1, <1>1
<1>7. PartsOrdered'
  <2>1. ASSUME NEW i \in 1 .. n - 1
        PROVE  /\ Ordered(parts'[i].from, parts'[i].to)
               /\ Between(equal, parts'[i].from, parts'[i].to) = 0 =>
                    parts'[i].from = parts'[i].to /\ ~ parts'[i].half
    <3>1. i + 1 \in 1 .. n
      BY <1>4
    <3> HIDE DEF n
    <3> QED BY <3>1, <1>4 DEF PartsOrdered, n
  <2>2. ASSUME NEW i \in 1 .. n - 2 PROVE Common(equal, parts'[i].to, parts'[i + 1].from)
    <3>1. i \in 1 .. n - 1 /\ i + 1 \in 1 .. n - 1
      BY <1>4
    <3>2. Common(equal, parts[i + 1].to, parts[i + 1 + 1].from)
      BY <3>1 DEF PartsOrdered
    <3>3. parts'[i] = parts[i + 1] /\ parts'[i + 1] = parts[i + 1 + 1]
      BY <3>1, <1>4
    <3> QED BY <3>2, <3>3
  <2>3. Solving' => parts' # <<>> /\ parts'[Len(parts')].to = End
    <3> SUFFICES ASSUME Solving' PROVE parts' # <<>> /\ parts'[Len(parts')].to = End
      OBVIOUS
    <3>1. phase' = "solve" /\ n # 1
      BY <1>1, <1>5 DEF Solving
    <3>2. n - 1 \in 1 .. n - 1 /\ n - 1 + 1 = n
      BY <3>1, <1>4
    <3>3. parts'[n - 1] = parts[n]
      BY <3>2, <1>4
    <3>4. parts[n].to = End
      BY <1>2 DEF PartsOrdered
    <3> QED BY <3>1, <3>2, <3>3, <3>4, <1>4
  <2>4. Len(parts') - 1 = n - 2
    BY <1>4
  <2> QED BY <2>1, <2>2, <2>3, <2>4, <1>4 DEF PartsOrdered
<1>8. PartsSpend'
  <2> SUFFICES ASSUME Solving', ~ failed'
               PROVE  /\ Transforms(equal, script', Start, From')
                      /\ Total(script') + ToSpend(equal, parts') = Between(equal, Start, End)
    BY <1>5 DEF PartsSpend
  <2>1. n >= 2 /\ 2 \in 1 .. n /\ 1 \in 1 .. n - 1 /\ parts'[1] = parts[2]
    <3>1. n # 1
      BY <1>1, <1>5 DEF Solving
    <3> QED BY <3>1, <1>4
  <2>2. /\ Transforms(equal, script, Start, From)
        /\ Total(script) + ToSpend(equal, parts) = Between(equal, Start, End)
    BY <1>2 DEF PartsSpend
  <2>3. From \in Points /\ To \in Points /\ parts[2].from \in Points /\ Start \in Points
    BY <2>1, <1>2, AtHand, PartFacts, WholeGrid
  <2>4. Common(equal, To, parts[2].from)
    BY <2>1 DEF PartsOrdered, To
  <2>5. Transforms(equal, script', Start, To)
    BY <1>1, <1>3, <2>2, <2>3, TransformsJoin
  <2>6. Transforms(equal, script', Start, From')
    <3>1. Transforms(equal, script', Start, parts[2].from)
      BY <1>4, <2>3, <2>4, <2>5, TransformsGoesOn
    <3> QED BY <3>1, <2>1 DEF From
  <2>7. Total(script') = Total(script) + Between(equal, From, To)
    BY <1>1, <1>3, TotalConcat
  <2>8. /\ ToSpend(equal, parts') \in Nat
        /\ ToSpend(equal, parts) = Between(equal, From, To) + ToSpend(equal, parts')
    <3>1. /\ Len(parts') \in Nat /\ Len(parts) = Len(parts') + 1
          /\ \A i \in 1 .. Len(parts') : parts[i + 1] = parts'[i]
      BY <1>4
    <3>2. \A i \in 1 .. Len(parts) : Between(equal, parts[i].from, parts[i].to) \in Nat
      BY PartFacts
    <3> QED BY <3>1, <3>2, SpendMore DEF From, To
  <2>9. Total(script) \in Nat /\ Between(equal, From, To) \in Nat
    BY <1>2, <1>3, AtHand, TotalNat
  <2> QED BY <2>2, <2>6, <2>7, <2>8, <2>9
<1>9. NothingMissed'
  BY <1>5, <1>6 DEF NothingMissed
<1>10. AllSpent'
  <2> SUFFICES ASSUME phase' = "merge", ~ failed'
               PROVE  /\ Transforms(equal, script', Start, End)
                      /\ Total(script') = Between(equal, Start, End)
    BY DEF AllSpent
  <2>1. n = 1 /\ To = End /\ parts' = <<>>
    <3>1. n = 1
      BY <1>1
    <3>2. parts[n].to = End
      BY <1>2 DEF PartsOrdered
    <3>3. parts' = <<>>
      BY <3>1, <1>4
    <3> QED BY <3>1, <3>2, <3>3 DEF To
  <2>2. /\ Transforms(equal, script, Start, From)
        /\ Total(script) + ToSpend(equal, parts) = Between(equal, Start, End)
    BY <1>2 DEF PartsSpend
  <2>3. From \in Points /\ To \in Points /\ Start \in Points
    BY <1>2, AtHand, WholeGrid
  <2>4. Transforms(equal, script', Start, To)
    BY <1>1, <1>3, <2>2, <2>3, TransformsJoin
  <2>5. Total(script') = Total(script) + Between(equal, From, To)
    BY <1>1, <1>3, TotalConcat
  <2>6. ToSpend(equal, parts) = Between(equal, From, To) + ToSpend(equal, parts')
    <3>1. /\ Len(parts') \in Nat /\ Len(parts) = Len(parts') + 1
          /\ \A i \in 1 .. Len(parts') : parts[i + 1] = parts'[i]
      BY <1>4
    <3>2. \A i \in 1 .. Len(parts) : Between(equal, parts[i].from, parts[i].to) \in Nat
      BY PartFacts
    <3> QED BY <3>1, <3>2, SpendMore DEF From, To
  <2>7. ToSpend(equal, parts') = 0
    BY <2>1, SpendNone
  <2>8. Total(script) \in Nat /\ Between(equal, From, To) \in Nat
    BY <1>2, <1>3, AtHand, TotalNat
  <2> QED BY <2>1, <2>2, <2>4, <2>5, <2>6, <2>7, <2>8
<1> QED BY <1>4, <1>5, <1>7, <1>8, <1>9, <1>10

\* shortest_edit_script_hybrid_inner puts the two halves, around the middle snake, in the
\* place of their part; they cost together what it did.
LEMMA SplitStep ==
  ASSUME TypeOK, PartsOrdered, PartsSpend, SnakeFound, Split
  PROVE  parts' \in Seq(PartTypes) /\ PartsOrdered' /\ PartsSpend'
<1> DEFINE n == Len(parts)
           by == IF edit_distance < threshold THEN "quadratic" ELSE "halves"
           a == Part(From, points[1], by, TRUE)
           b == Part(points[2], To, by, TRUE)
           rest == Tail(parts)
           half == <<b>> \o rest
<1>1. /\ phase = "snake" /\ edit_distance > 1 /\ phase' = "solve"
      /\ parts' = <<a, b>> \o rest
      /\ equal' = equal /\ script' = script /\ failed' = failed
  BY DEF Split, input
<1>2. Solving /\ by \in {"quadratic", "halves"}
  BY <1>1 DEF Solving
<1>3. parts \in Seq(PartTypes) /\ parts # <<>> /\ edit_distance \in Nat
  BY <1>2 DEF TypeOK, PartsOrdered
<1>4. /\ From \in Whole /\ To \in Whole /\ equal \in Relations
      /\ points[1] \in Whole /\ Ordered(From, points[1]) /\ Ordered(points[1], To)
      /\ points[2] \in Whole /\ Ordered(From, points[2]) /\ Ordered(points[2], To)
  <2>1. From \in Whole /\ To \in Whole /\ equal \in Relations
    BY <1>2, AtHand
  <2>2. points[1] \in Grid(From, To) /\ points[2] \in Grid(From, To)
    BY <1>1 DEF SnakeFound
  <2> QED BY <2>1, <2>2, WholeGrid
<1>5. /\ Between(equal, From, points[1]) \in Nat /\ Between(equal, From, points[1]) >= 1
      /\ Between(equal, points[2], To) \in Nat /\ Between(equal, points[2], To) >= 1
      /\ Between(equal, From, points[1]) + Between(equal, points[2], To) = Between(equal, From, To)
  <2>1. /\ Between(equal, From, points[1]) + Between(equal, points[2], To) = edit_distance
        /\ Between(equal, From, points[1]) - Between(equal, points[2], To) \in {0, 1}
        /\ edit_distance = Between(equal, From, To)
    BY <1>1 DEF SnakeFound
  <2>2. Between(equal, From, points[1]) \in Nat /\ Between(equal, points[2], To) \in Nat
    BY <1>4, OnwardSteps
  <2> QED BY <2>1, <2>2, <1>1, <1>3
<1>6. /\ a \in PartTypes /\ b \in PartTypes
      /\ a.from = From /\ a.to = points[1] /\ a.half
      /\ b.from = points[2] /\ b.to = To /\ b.half
  <2> HIDE DEF by
  <2> QED BY <1>2, <1>4 DEF Part, PartTypes
<1> HIDE DEF a, b
<1>7. /\ n \in Nat /\ n >= 1 /\ rest \in Seq(PartTypes) /\ Len(rest) = n - 1
      /\ \A i \in 1 .. n - 1 : rest[i] = parts[i + 1]
  BY <1>3
<1>8. /\ half \in Seq(PartTypes) /\ Len(half) = n /\ half[1] = b
      /\ \A i \in 1 .. n - 1 : half[i + 1] = rest[i]
      /\ \A i \in 2 .. n : half[i] = parts[i]
  <2> HIDE DEF rest
  <2>1. /\ half \in Seq(PartTypes) /\ Len(half) = n /\ half[1] = b
        /\ \A i \in 1 .. n - 1 : half[i + 1] = rest[i]
    BY <1>6, <1>7
  <2>2. \A i \in 2 .. n : half[i] = parts[i]
    <3> TAKE i \in 2 .. n
    <3> DEFINE j == i - 1
    <3>1. j \in 1 .. n - 1 /\ i = j + 1
      BY <1>7
    <3> HIDE DEF j, half
    <3> QED BY <3>1, <2>1, <1>7
  <2> QED BY <2>1, <2>2
<1>9. /\ parts' \in Seq(PartTypes) /\ Len(parts') = n + 1
      /\ parts'[1] = a /\ \A i \in 1 .. n : parts'[i + 1] = half[i]
  <2> HIDE DEF rest
  <2>1. parts' = <<a>> \o half
    <3>1. <<a>> \in Seq(PartTypes) /\ <<b>> \in Seq(PartTypes)
      BY <1>6
    <3>2. (<<a>> \o <<b>>) \o rest = <<a>> \o (<<b>> \o rest)
      BY <3>1, <1>7, Associates DEF Associative
    <3>3. <<a>> \o <<b>> = <<a, b>>
      <4> DEFINE u == <<a>> \o <<b>>
                 v == <<a, b>>
      <4>1. u \in Seq(PartTypes) /\ Len(u) = 2 /\ u[1] = a /\ u[2] = b
        BY <1>6
      <4>2. v \in Seq(PartTypes) /\ Len(v) = 2 /\ v[1] = a /\ v[2] = b
        BY <1>6
      <4> HIDE DEF u, v
      <4>3. \A i \in 1 .. Len(u) : u[i] = v[i]
        BY <4>1, <4>2
      <4>4. u = v
        BY <4>1, <4>2, <4>3, SeqEqual
      <4> QED BY <4>4 DEF u, v
    <3> QED BY <3>2, <3>3, <1>1
  <2> HIDE DEF half
  <2> QED BY <2>1, <1>6, <1>7, <1>8
<1>10. parts'[2] = b /\ \A i \in 2 .. n : parts'[i + 1] = parts[i]
  <2>1. 1 \in 1 .. n /\ parts'[1 + 1] = half[1]
    BY <1>7, <1>9
  <2> HIDE DEF half
  <2> QED BY <2>1, <1>8, <1>9
<1> HIDE DEF half, rest
<1>11. PartsOrdered'
  <2>1. ASSUME NEW i \in 1 .. n + 1
        PROVE  /\ Ordered(parts'[i].from, parts'[i].to)
               /\ Between(equal, parts'[i].from, parts'[i].to) = 0 =>
                    parts'[i].from = parts'[i].to /\ ~ parts'[i].half
    <3>1. CASE i = 1
      BY <3>1, <1>4, <1>5, <1>6, <1>9
    <3>2. CASE i = 2
      BY <3>2, <1>4, <1>5, <1>6, <1>10
    <3>3. CASE i > 2
      <4> DEFINE j == i - 1
      <4>1. j \in 2 .. n /\ j \in 1 .. n /\ i = j + 1
        BY <3>3, <1>7
      <4> HIDE DEF j
      <4>2. parts'[i] = parts[j]
        BY <4>1, <1>10
      <4> QED BY <4>1, <4>2 DEF PartsOrdered
    <3> QED BY <3>1, <3>2, <3>3
  <2>2. ASSUME NEW i \in 1 .. n PROVE Common(equal, parts'[i].to, parts'[i + 1].from)
    <3>1. CASE i = 1
      <4>1. Common(equal, points[1], points[2])
        BY <1>1 DEF SnakeFound
      <4> QED BY <3>1, <4>1, <1>6, <1>9, <1>10
    <3>2. CASE i = 2
      <4>1. 1 \in 1 .. n - 1 /\ 2 \in 2 .. n
        BY <3>2, <1>7
      <4>2. Common(equal, parts[1].to, parts[1 + 1].from)
        BY <4>1 DEF PartsOrdered
      <4>3. parts'[2 + 1] = parts[2] /\ parts'[2].to = parts[1].to
        BY <4>1, <1>6, <1>10 DEF To
      <4> QED BY <3>2, <4>2, <4>3
    <3>3. CASE i > 2
      <4> DEFINE j == i - 1
      <4>1. j \in 2 .. n /\ j \in 1 .. n - 1 /\ i = j + 1 /\ j + 1 \in 2 .. n
        BY <3>3, <1>7
      <4> HIDE DEF j
      <4>2. parts'[i] = parts[j] /\ parts'[i + 1] = parts[j + 1]
        BY <4>1, <1>10
      <4> QED BY <4>1, <4>2 DEF PartsOrdered
    <3> QED BY <3>1, <3>2, <3>3
  <2>3. parts' # <<>> /\ parts'[Len(parts')].to = End
    <3>1. parts[n].to = End
      BY <1>2 DEF PartsOrdered
    <3>2. parts' # <<>>
      BY <1>7, <1>9
    <3>3. CASE n = 1
      BY <3>1, <3>2, <3>3, <1>6, <1>9, <1>10 DEF To
    <3>4. CASE n # 1
      <4>1. n \in 2 .. n
        BY <3>4, <1>7
      <4>2. parts'[n + 1] = parts[n]
        BY <4>1, <1>10
      <4> QED BY <3>1, <3>2, <4>2, <1>9
    <3> QED BY <3>3, <3>4
  <2>4. Len(parts') - 1 = n
    BY <1>7, <1>9
  <2> QED BY <2>1, <2>2, <2>3, <2>4, <1>1, <1>9 DEF PartsOrdered
<1>12. PartsSpend'
  <2> SUFFICES ASSUME ~ failed
               PROVE  /\ Transforms(equal, script, Start, From')
                      /\ Total(script) + ToSpend(equal, parts') = Between(equal, Start, End)
    BY <1>1 DEF PartsSpend
  <2>1. /\ Transforms(equal, script, Start, From)
        /\ Total(script) + ToSpend(equal, parts) = Between(equal, Start, End)
    BY <1>2 DEF PartsSpend
  <2>2. From' = From
    BY <1>6, <1>9 DEF From
  <2>p. \A i \in 1 .. n : Between(equal, parts[i].from, parts[i].to) \in Nat
    BY PartFacts
  <2>3. /\ ToSpend(equal, rest) \in Nat
        /\ ToSpend(equal, parts) = Between(equal, From, To) + ToSpend(equal, rest)
    <3>1. Len(rest) \in Nat /\ Len(parts) = Len(rest) + 1
          /\ \A i \in 1 .. Len(rest) : parts[i + 1] = rest[i]
      BY <1>7
    <3> QED BY <3>1, <2>p, SpendMore DEF From, To
  <2>h. \A i \in 1 .. n : Between(equal, half[i].from, half[i].to) \in Nat
    BY <2>p, <1>5, <1>6, <1>8
  <2>4. ToSpend(equal, half) = Between(equal, points[2], To) + ToSpend(equal, rest)
    <3>1. Len(rest) \in Nat /\ Len(half) = Len(rest) + 1
          /\ \A i \in 1 .. Len(rest) : half[i + 1] = rest[i]
      BY <1>7, <1>8
    <3>2. \A i \in 1 .. Len(half) : Between(equal, half[i].from, half[i].to) \in Nat
      BY <2>h, <1>8
    <3>3. ToSpend(equal, half) = Between(equal, half[1].from, half[1].to) + ToSpend(equal, rest)
      BY <3>1, <3>2, SpendMore
    <3> QED BY <3>3, <1>6, <1>8
  <2>5. ToSpend(equal, parts') = Between(equal, From, points[1]) + ToSpend(equal, half)
    <3>1. Len(half) \in Nat /\ Len(parts') = Len(half) + 1
          /\ \A i \in 1 .. Len(half) : parts'[i + 1] = half[i]
      BY <1>7, <1>8, <1>9
    <3>2. ASSUME NEW i \in 1 .. n + 1
          PROVE  Between(equal, parts'[i].from, parts'[i].to) \in Nat
      <4>1. CASE i = 1
        BY <4>1, <1>5, <1>6, <1>9
      <4>2. CASE i # 1
        <5> DEFINE j == i - 1
        <5>1. j \in 1 .. n /\ i = j + 1
          BY <4>2, <1>7
        <5> HIDE DEF j
        <5>2. parts'[i] = half[j]
          BY <5>1, <1>9
        <5> QED BY <5>1, <5>2, <2>h
      <4> QED BY <4>1, <4>2
    <3>3. ToSpend(equal, parts') = Between(equal, parts'[1].from, parts'[1].to)
                                     + ToSpend(equal, half)
      BY <3>1, <3>2, <1>9, SpendMore
    <3> QED BY <3>3, <1>6, <1>9
  <2>6. Total(script) \in Nat
    BY TotalNat DEF TypeOK
  <2>7. Between(equal, From, To) \in Nat
    BY <1>2, AtHand
  <2> QED BY <2>1, <2>2, <2>3, <2>4, <2>5, <2>6, <2>7, <1>5
<1> QED BY <1>9, <1>11, <1>12

(***************************************************************************)
(* Parts that are solved.                                                  *)
(***************************************************************************)
\* A script of a single edit.
LEMMA OneEdit ==
  ASSUME NEW e, NEW a \in Points, NEW c \in Points, NEW u \in Edits,
         Common(e, a, Before(u)), Common(e, After(u), c)
  PROVE  <<u>> \in Seq(Edits) /\ <<u>> # <<>> /\ Transforms(e, <<u>>, a, c)
<1>1. <<>> \in Seq(Edits) /\ Append(<<>>, u) = <<u>>
  OBVIOUS
<1>2. Transforms(e, <<>>, a, Before(u))
  BY TransformsNothing
<1>3. Transforms(e, Append(<<>>, u), a, c)
  BY <1>1, <1>2, TransformsAppend
<1> QED BY <1>1, <1>3

\* No elements are equal ones.
LEMMA CommonSelf ==
  ASSUME NEW e, NEW p \in Points
  PROVE  Common(e, p, p)
  BY DEF Common, Points

\* A part within the threshold is solved by the quadratic search, which spends what
\* the part costs.
LEMMA SolveAtOnceStep ==
  ASSUME TypeOK, PartsOrdered, PartsSpend, SolveAtOnce
  PROVE  /\ parts' \in Seq(PartTypes) /\ script' \in Seq(Edits)
         /\ phase' \in {"solve", "merge", "crashed"}
         /\ PartsOrdered' /\ PartsSpend' /\ NothingMissed' /\ AllSpent'
<1>1. phase = "solve" /\ equal' = equal /\ failed' = failed
  BY DEF SolveAtOnce, input
<1>2. PICK es \in ShortestScripts(equal, From)[To] : Yield(es)
  BY DEF SolveAtOnce
<1>3. /\ equal \in Relations /\ From \in Whole /\ To \in Whole /\ Ordered(From, To)
      /\ Between(equal, From, To) \in Nat
  BY <1>1, AtHand DEF Solving
<1>4. To \in Grid(From, End)
  <2>1. End \in Whole /\ Ordered(To, End)
    <3>1. End = Point(SizeOne, SizeTwo) /\ SizeOne \in Nat /\ SizeTwo \in Nat
      BY WholeGrid DEF End
    <3>2. End \in Whole
      BY <3>1, WholeGrid
    <3> QED BY <3>2, <1>3, WholeGrid DEF Ordered
  <2> QED BY <2>1, <1>3, WholeGrid
<1>5. /\ es \in Seq(Edits)
      /\ Transforms(equal, es, From, To)
      /\ Total(es) = Between(equal, From, To)
  BY <1>3, <1>4, ShortestScriptsAssumption DEF Relations, Whole, Between
<1>6. es = <<>> => Between(equal, From, To) = 0
  BY <1>5, TotalNone
<1>7. failed' \in BOOLEAN /\ (failed => failed')
  BY <1>1 DEF TypeOK
<1> QED BY <1>1, <1>2, <1>5, <1>6, <1>7, YieldStep

\* The quadratic search of a part is given up, and the whole with it.
LEMMA SolveFailsStep ==
  ASSUME TypeOK, PartsOrdered, PartsSpend, SolveFails
  PROVE  /\ parts' \in Seq(PartTypes) /\ script' \in Seq(Edits)
         /\ phase' \in {"solve", "merge", "crashed"}
         /\ PartsOrdered' /\ PartsSpend' /\ NothingMissed' /\ AllSpent'
<1>1. phase = "solve" /\ equal' = equal /\ failed' = TRUE /\ Yield(<<>>)
  BY DEF SolveFails, input
<1>2. <<>> \in Seq(Edits)
  OBVIOUS
<1> QED BY <1>1, <1>2, YieldStep

\* A part that is empty on one side is a single edit, or none.
LEMMA OneSidedStep ==
  ASSUME TypeOK, PartsOrdered, PartsSpend, OneSided
  PROVE  /\ parts' \in Seq(PartTypes) /\ script' \in Seq(Edits)
         /\ phase' \in {"solve", "merge", "crashed"}
         /\ PartsOrdered' /\ PartsSpend' /\ NothingMissed' /\ AllSpent'
<1> DEFINE Rest(operation, n) ==
             IF n = 0 THEN <<>>
             ELSE <<[operation |-> operation, one |-> From.x, two |-> From.y, length |-> n]>>
           es == Rest("SES_DELETE", LengthOne) \o Rest("SES_INSERT", LengthTwo)
<1>1. /\ phase = "solve" /\ equal' = equal /\ failed' = failed
      /\ LengthOne = 0 \/ LengthTwo = 0
      /\ Yield(es)
  BY DEF OneSided, input
<1>2. /\ equal \in Relations /\ From \in Whole /\ To \in Whole /\ Ordered(From, To)
      /\ From \in Points /\ To \in Points
      /\ From.x \in Nat /\ From.y \in Nat /\ To.x \in Nat /\ To.y \in Nat
      /\ From.x <= To.x /\ From.y <= To.y
  BY <1>1, AtHand DEF Solving
<1>3. LengthOne = To.x - From.x /\ LengthTwo = To.y - From.y /\ LengthOne \in Nat /\ LengthTwo \in Nat
  BY <1>2 DEF LengthOne, LengthTwo
<1>4. Between(equal, From, To) = LengthOne + LengthTwo
  BY <1>1, <1>2, <1>3, OneSide
<1>5. From = Point(From.x, From.y) /\ To = Point(To.x, To.y)
  BY <1>2 DEF Points, Point
<1>6. /\ es \in Seq(Edits)
      /\ Transforms(equal, es, From, To)
      /\ Total(es) = Between(equal, From, To)
      /\ es = <<>> => Between(equal, From, To) = 0
  <2>1. CASE LengthOne = 0 /\ LengthTwo = 0
    <3>1. es = <<>>
      BY <2>1
    <3>2. From = To
      BY <2>1, <1>2, <1>3, <1>5
    <3>3. Transforms(equal, <<>>, From, To)
      BY <3>2, <1>2, CommonSelf, TransformsNothing
    <3> QED BY <3>1, <3>3, <2>1, <1>4, TotalNone
  <2>2. CASE LengthOne # 0 /\ LengthTwo = 0
    <3> DEFINE u == [operation |-> "SES_DELETE", one |-> From.x, two |-> From.y,
                     length |-> LengthOne]
    <3>1. es = <<u>>
      BY <2>2
    <3>2. u \in Edits /\ u.length = LengthOne
      BY <2>2, <1>2, <1>3 DEF Edits, Operations
    <3>3. Before(u) = From /\ After(u) = To
      <4>1. Before(u) = Point(From.x, From.y) /\ After(u) = Point(From.x + LengthOne, From.y)
        BY DEF Before, After
      <4>2. From.x + LengthOne = To.x /\ From.y = To.y
        BY <2>2, <1>2, <1>3
      <4> QED BY <4>1, <4>2, <1>5
    <3> HIDE DEF u, es
    <3>4. <<u>> \in Seq(Edits) /\ <<u>> # <<>> /\ Transforms(equal, <<u>>, From, To)
      BY <3>2, <3>3, <1>2, CommonSelf, OneEdit
    <3> QED BY <3>1, <3>2, <3>4, <2>2, <1>3, <1>4, TotalOne
  <2>3. CASE LengthOne = 0 /\ LengthTwo # 0
    <3> DEFINE u == [operation |-> "SES_INSERT", one |-> From.x, two |-> From.y,
                     length |-> LengthTwo]
    <3>1. es = <<u>>
      BY <2>3
    <3>2. u \in Edits /\ u.length = LengthTwo
      BY <2>3, <1>2, <1>3 DEF Edits, Operations
    <3>3. Before(u) = From /\ After(u) = To
      <4>1. Before(u) = Point(From.x, From.y) /\ After(u) = Point(From.x, From.y + LengthTwo)
        BY DEF Before, After
      <4>2. From.y + LengthTwo = To.y /\ From.x = To.x
        BY <2>3, <1>2, <1>3
      <4> QED BY <4>1, <4>2, <1>5
    <3> HIDE DEF u, es
    <3>4. <<u>> \in Seq(Edits) /\ <<u>> # <<>> /\ Transforms(equal, <<u>>, From, To)
      BY <3>2, <3>3, <1>2, CommonSelf, OneEdit
    <3> QED BY <3>1, <3>2, <3>4, <2>3, <1>3, <1>4, TotalOne
  <2> QED BY <2>1, <2>2, <2>3, <1>1
<1>7. failed' \in BOOLEAN /\ (failed => failed')
  BY <1>1 DEF TypeOK
<1> HIDE DEF es
<1> QED BY <1>1, <1>6, <1>7, YieldStep

\* A half without its own snake leaves the edit next to it, or none.
LEMMA LeaveSingleStep ==
  ASSUME TypeOK, PartsOrdered, PartsSpend, Searches, SnakeFound, LeaveSingle
  PROVE  /\ parts' \in Seq(PartTypes) /\ script' \in Seq(Edits)
         /\ phase' \in {"solve", "merge", "crashed"}
         /\ PartsOrdered' /\ PartsSpend' /\ NothingMissed' /\ AllSpent'
<1>1. /\ phase = "snake" /\ edit_distance <= 1 /\ equal' = equal /\ failed' = failed
      /\ Yield(<<SingleEdit>>)
  BY DEF LeaveSingle, input
<1>2. /\ equal \in Relations /\ From \in Points /\ To \in Points
      /\ From.x \in Nat /\ To.x \in Nat
      /\ Between(equal, From, To) \in Nat
      /\ Between(equal, From, To) = 0 => From = To
  BY <1>1, AtHand DEF Solving
<1>3. /\ SingleEdit \in Edits
      /\ Common(equal, From, Before(SingleEdit))
      /\ Common(equal, After(SingleEdit), To)
      /\ edit_distance = Between(equal, From, To)
  BY <1>1 DEF SnakeFound
<1>4. Between(equal, From, To) = 1
  <2> DEFINE b == Between(equal, From, To)
  <2>1. LengthOne > 0
    BY <1>1 DEF Searches
  <2>2. From # To
    BY <2>1, <1>2 DEF LengthOne
  <2>3. b # 0
    BY <2>2, <1>2
  <2>4. b \in Nat /\ edit_distance = b
    BY <1>2, <1>3
  <2>6. edit_distance <= 1
    BY <1>1
  <2> HIDE DEF b
  <2>5. b = 1
    BY <2>3, <2>4, <2>6
  <2> QED BY <2>5 DEF b
<1>5. SingleEdit.length = 1
  <2> DEFINE Edit(operation, at) ==
               [operation |-> operation, one |-> at.x, two |-> at.y, length |-> 1]
  <2>1. \A o, p : Edit(o, p).length = 1
    OBVIOUS
  <2>2. \E o, p : SingleEdit = Edit(o, p)
    BY DEF SingleEdit
  <2> HIDE DEF Edit
  <2> QED BY <2>1, <2>2
<1>6. <<SingleEdit>> \in Seq(Edits) /\ <<SingleEdit>> # <<>>
      /\ Transforms(equal, <<SingleEdit>>, From, To)
  BY <1>2, <1>3, OneEdit
<1>7. Total(<<SingleEdit>>) = Between(equal, From, To)
  BY <1>3, <1>4, <1>5, TotalOne
<1>8. failed' \in BOOLEAN /\ (failed => failed')
  BY <1>1 DEF TypeOK
<1> QED BY <1>1, <1>6, <1>7, <1>8, YieldStep

\* Where the equal elements end.
LEMMA SlideDownEnd ==
  ASSUME equal \in Relations, NEW a, NEW c \in Whole, NEW p \in Points
  PROVE  LET q == SlideDown(p, c)
         IN  /\ q \in Points /\ Common(equal, p, q)
             /\ ~ (q.x < c.x /\ q.y < c.y /\ <<q.x, q.y>> \in equal)
             /\ \E n \in Nat : q = Along(p, n) /\ Slides(Onward(equal, a, c), p, n)
             /\ p.x <= c.x /\ p.y <= c.y => q.x <= c.x /\ q.y <= c.y
<1>1. PICK n \in Nat : /\ SlideDown(p, c) = Along(p, n)
                       /\ Slides(Onward(equal, a, c), p, n)
  BY SlidesDown
<1> DEFINE q == Along(p, n)
<1>2. /\ p.x \in Nat /\ p.y \in Nat /\ c.x \in Nat /\ c.y \in Nat
      /\ \A i \in Nat : Along(p, i).x = p.x + i /\ Along(p, i).y = p.y + i
  BY WholeGrid DEF Points, Along, Point
<1>3. q \in Points /\ q.x = p.x + n /\ q.y = p.y + n
  BY <1>2 DEF Points, Along, Point
<1>4. \A i \in 0 .. n - 1 : /\ p.x + i < c.x /\ p.y + i < c.y
                            /\ <<p.x + i, p.y + i>> \in equal
  <2> TAKE i \in 0 .. n - 1
  <2>1. Matches(Onward(equal, a, c), Along(p, i))
    BY <1>1 DEF Slides
  <2> QED BY <2>1, <1>2, OnwardFields
<1>5. ~ (q.x < c.x /\ q.y < c.y /\ <<q.x, q.y>> \in equal)
  <2>1. ~ Matches(Onward(equal, a, c), q)
    BY <1>1 DEF Slides
  <2> QED BY <2>1, OnwardFields
<1>6. Common(equal, p, q)
  <2>1. q.x - p.x = n /\ q.y - p.y = n /\ q.x >= p.x
    BY <1>2, <1>3
  <2> HIDE DEF q
  <2> QED BY <2>1, <1>4 DEF Common
<1>7. p.x <= c.x /\ p.y <= c.y => q.x <= c.x /\ q.y <= c.y
  <2>1. CASE n = 0
    BY <2>1, <1>2, <1>3
  <2>2. CASE n # 0
    <3>1. n - 1 \in 0 .. n - 1
      BY <2>2
    <3>2. p.x + (n - 1) < c.x /\ p.y + (n - 1) < c.y
      BY <3>1, <1>4
    <3> QED BY <3>2, <1>2, <1>3
  <2> QED BY <2>1, <2>2
<1> HIDE DEF q
<1>8. SlideDown(p, c) = q /\ \E m \in Nat : q = Along(p, m) /\ Slides(Onward(equal, a, c), p, m)
  BY <1>1 DEF q
<1> QED BY <1>3, <1>5, <1>6, <1>7, <1>8

\* compute begins with the whole as its one part.
LEMMA BeginStep ==
  ASSUME TypeOK, PartsSpend, Begin
  PROVE  parts' \in Seq(PartTypes) /\ PartsOrdered' /\ PartsSpend'
<1> DEFINE rest == SlideDown(Start, End)
           max_distance == HalfUp(SizeOne - rest.x + SizeTwo - rest.y) * 2
           by == IF max_distance < threshold THEN "quadratic" ELSE "halves"
           p == Part(rest, End, by, FALSE)
<1>1. /\ phase = "start" /\ phase' = "solve" /\ equal' = equal /\ script' = script
      /\ failed' = failed /\ parts' = <<p>> /\ equal \in Relations /\ script = <<>>
  BY DEF Begin, TypeOK, PartsSpend, input
<1>2. /\ Start \in Whole /\ End \in Whole /\ Start \in Points /\ End \in Points
      /\ Start.x = 0 /\ Start.y = 0 /\ End.x = SizeOne /\ End.y = SizeTwo
      /\ SizeOne \in Nat /\ SizeTwo \in Nat
  BY WholeGrid DEF Start, End
<1>3. /\ rest \in Points /\ Common(equal, Start, rest) /\ rest.x <= SizeOne /\ rest.y <= SizeTwo
      /\ ~ (rest.x < SizeOne /\ rest.y < SizeTwo /\ <<rest.x, rest.y>> \in equal)
  <2>1. LET q == SlideDown(Start, End)
        IN  /\ q \in Points /\ Common(equal, Start, q)
            /\ ~ (q.x < End.x /\ q.y < End.y /\ <<q.x, q.y>> \in equal)
            /\ \E n \in Nat : q = Along(Start, n) /\ Slides(Onward(equal, Start, End), Start, n)
            /\ Start.x <= End.x /\ Start.y <= End.y => q.x <= End.x /\ q.y <= End.y
    BY <1>1, <1>2, SlideDownEnd
  <2>2. Start.x <= End.x /\ Start.y <= End.y
    BY <1>2
  <2> QED BY <2>1, <2>2, <1>2
<1> HIDE DEF rest
<1>4. rest.x \in Nat /\ rest.y \in Nat /\ rest = Point(rest.x, rest.y) /\ rest \in Whole
      /\ Ordered(rest, End)
  <2>1. rest.x \in Nat /\ rest.y \in Nat /\ rest = Point(rest.x, rest.y)
    BY <1>3 DEF Points, Point
  <2> QED BY <2>1, <1>2, <1>3, WholeGrid DEF Ordered
<1>5. Between(equal, rest, End) = Between(equal, Start, End)
  BY <1>1, <1>2, <1>3, <1>4, BeginningFree
<1>6. Between(equal, rest, End) = 0 => rest = End
  <2> SUFFICES ASSUME Between(equal, rest, End) = 0, rest # End PROVE FALSE
    OBVIOUS
  <2>1. Common(equal, rest, End)
    BY <1>1, <1>2, <1>4, FreeCommon
  <2>2. End.x - rest.x = End.y - rest.y /\ End.x >= rest.x
    BY <2>1 DEF Common
  <2>3. rest.x < SizeOne /\ rest.y < SizeTwo
    <3>1. rest.x = SizeOne => rest.y = SizeTwo
      BY <2>2, <1>2, <1>4
    <3>2. End = Point(SizeOne, SizeTwo)
      BY DEF End
    <3>3. rest.x # SizeOne
      BY <3>1, <3>2, <1>4
    <3> QED BY <3>3, <2>2, <1>2, <1>3, <1>4
  <2>4. 0 \in 0 .. (End.x - rest.x) - 1 /\ rest.x + 0 = rest.x /\ rest.y + 0 = rest.y
    BY <2>3, <1>2, <1>4
  <2>5. <<rest.x, rest.y>> \in equal
    BY <2>1, <2>4 DEF Common
  <2> QED BY <2>3, <2>5, <1>3
<1>7. p \in PartTypes /\ p.from = rest /\ p.to = End /\ ~ p.half
  <2>1. by \in {"quadratic", "halves"}
    OBVIOUS
  <2> HIDE DEF by
  <2> QED BY <2>1, <1>2, <1>4 DEF Part, PartTypes
<1> HIDE DEF p
<1>8. parts' \in Seq(PartTypes) /\ Len(parts') = 1 /\ parts'[1] = p /\ parts' # <<>>
  BY <1>1, <1>7
<1>9. PartsOrdered'
  <2>1. \A i \in 1 .. Len(parts') : i = 1
    BY <1>8
  <2>2. Len(parts') - 1 = 0
    BY <1>8
  <2>3. \A i \in 1 .. 0 : FALSE
    OBVIOUS
  <2>4. \A i \in 1 .. Len(parts') :
          /\ Ordered(parts'[i].from, parts'[i].to)
          /\ Between(equal', parts'[i].from, parts'[i].to) = 0 =>
               parts'[i].from = parts'[i].to /\ ~ parts'[i].half
    BY <2>1, <1>1, <1>4, <1>6, <1>7, <1>8
  <2>5. parts'[Len(parts')].to = End
    BY <1>7, <1>8
  <2> QED BY <2>2, <2>3, <2>4, <2>5, <1>8 DEF PartsOrdered
<1>10. PartsSpend'
  <2>1. From' = rest
    BY <1>7, <1>8 DEF From
  <2>2. Transforms(equal, <<>>, Start, rest)
    BY <1>3, TransformsNothing
  <2>3. Between(equal, rest, End) \in Nat
    BY <1>1, <1>2, <1>4, OnwardSteps
  <2>4. ToSpend(equal, parts') = Between(equal, rest, End)
    <3>1. Len(<<>>) \in Nat /\ Len(parts') = Len(<<>>) + 1
          /\ (\A i \in 1 .. Len(<<>>) : parts'[i + 1] = <<>>[i])
      BY <1>8
    <3>2. \A i \in 1 .. Len(parts') : Between(equal, parts'[i].from, parts'[i].to) \in Nat
      <4>1. \A i \in 1 .. Len(parts') : i = 1
        BY <1>8
      <4> QED BY <4>1, <2>3, <1>7, <1>8
    <3>3. ToSpend(equal, parts') = Between(equal, parts'[1].from, parts'[1].to)
                                     + ToSpend(equal, <<>>)
      BY <3>1, <3>2, SpendMore
    <3> QED BY <3>3, <2>3, <1>7, <1>8, SpendNone
  <2>5. Total(<<>>) + ToSpend(equal, parts') = Between(equal, Start, End)
    BY <2>3, <2>4, <1>5, TotalNone
  <2> QED BY <2>1, <2>2, <2>5, <1>1 DEF PartsSpend
<1> QED BY <1>8, <1>9, <1>10
-----------------------------------------------------------------------------
(***************************************************************************)
(* The rounds of the search.                                               *)
(***************************************************************************)
\* The diagonals of a round lie between those of the round before.
LEMMA RoundFacts ==
  ASSUME NEW d \in Int, NEW k \in Round(d)
  PROVE  /\ k \in Int /\ -d <= k /\ k <= d /\ k \in -d .. d /\ (d - k) % 2 = 0
         /\ k # -d => k - 1 \in Round(d - 1)
         /\ k # d => k + 1 \in Round(d - 1)
         /\ k \notin Round(d - 1)
         /\ k - 2 >= -d => k - 2 \in Round(d)
         /\ \A j \in Round(d) : j > k - 2 <=> j > k \/ j = k
         /\ ~ (k - 2 >= -d) => \A j \in Round(d) : j > k \/ j = k
<1>1. k \in Int /\ -d <= k /\ k <= d /\ k \in -d .. d /\ (d - k) % 2 = 0
  BY DEF Round
<1>2. k # -d => k - 1 \in Round(d - 1)
  BY <1>1 DEF Round
<1>3. k # d => k + 1 \in Round(d - 1)
  BY <1>1 DEF Round
<1>4. k \notin Round(d - 1)
  BY <1>1 DEF Round
<1>5. k - 2 >= -d => k - 2 \in Round(d)
  BY <1>1 DEF Round
<1>6. ASSUME NEW j \in Round(d)
      PROVE  /\ j > k - 2 <=> j > k \/ j = k
             /\ ~ (k - 2 >= -d) => j > k \/ j = k
  BY <1>1 DEF Round
<1> QED BY <1>1, <1>2, <1>3, <1>4, <1>5, <1>6

\* There is no round before the first, which is the one diagonal 0; each ends on
\* the diagonal of its number.
LEMMA FirstRounds ==
  /\ \A d \in Int : d < 0 => Round(d) = {}
  /\ Round(0) = {0}
  /\ \A d \in Nat : d \in Round(d)
<1>1. ASSUME NEW d \in Int, d < 0
      PROVE  Round(d) = {}
  <2>1. \A k : k \in Round(d) => k \in Int /\ -d <= k /\ k <= d
    BY DEF Round
  <2> QED BY <2>1, <1>1
<1>2. Round(0) = {0}
  <2>1. \A k : k \in Round(0) => k \in Int /\ 0 <= k /\ k <= 0
    BY DEF Round
  <2>2. 0 \in Round(0)
    BY DEF Round
  <2>3. \A k : k \in Round(0) => k = 0
    BY <2>1
  <2> QED BY <2>2, <2>3
<1>3. ASSUME NEW d \in Nat
      PROVE  d \in Round(d)
  <2>1. d \in -d .. d /\ (d - d) % 2 = 0
    OBVIOUS
  <2> QED BY <2>1 DEF Round
<1> QED BY <1>1, <1>2, <1>3

\* The diagonals of a round are those of its parity.
LEMMA RoundWith ==
  ASSUME NEW d \in Int, NEW k \in -d .. d, (d - k) % 2 = 0
  PROVE  k \in Round(d)
  BY DEF Round

\* What a step leaves alone that leaves the parts alone.
LEMMA SameParts ==
  ASSUME parts' = parts
  PROVE  /\ From' = From /\ To' = To
         /\ LengthOne' = LengthOne /\ LengthTwo' = LengthTwo
         /\ Delta' = Delta /\ IsEven' = IsEven /\ Diagonals' = Diagonals
         /\ MaxDistance' = MaxDistance
  BY DEF From, To, LengthOne, LengthTwo, Delta, IsEven, Diagonals, Center, MaxDistance

\* The searches are as far as they say, on the diagonal they say.
LEMMA OneDiagonal ==
  ASSUME NEW e \in Relations, NEW a \in Whole, NEW c \in Whole, Ordered(a, c),
         NEW i, NEW j, NEW k \in Int,
         NEW f, Forwards(e, a, c, f, k, i), NEW q, Backwards(e, a, c, q, k, j)
  PROVE  /\ f \in Points /\ q \in IntPoints
         /\ f.x - f.y = q.x - q.y
         /\ q.x <= f.x => Meet(f, q)
<1>1. f \in Points /\ (f.x - a.x) - (f.y - a.y) = k
  BY OnwardFields DEF Forwards, Furthest
<1>2. q \in IntPoints /\ q.x <= c.x /\ q.y <= c.y
      /\ OnDiagonal(Backward(e, a, c), Turn(c, q), Offset(a, c) - k)
  BY DEF Backwards
<1>3. 0 \in Nat
  OBVIOUS
<1>4. Turn(c, q).x = c.x - q.x /\ Turn(c, q).y = c.y - q.y
  BY <1>2, <1>3, TurnedMatches
<1>5. (Turn(c, q).x - 0) - (Turn(c, q).y - 0) = Offset(a, c) - k
  BY <1>2, OnwardFields
<1>6. /\ a.x \in Nat /\ a.y \in Nat /\ c.x \in Nat /\ c.y \in Nat
      /\ q.x \in Int /\ q.y \in Int /\ f.x \in Nat /\ f.y \in Nat
  BY <1>1, <1>2, WholeGrid DEF Points, IntPoints
<1>7. f.x - f.y = q.x - q.y
  <2> DEFINE fx == f.x
             fy == f.y
             qx == q.x
             qy == q.y
             ax == a.x
             ay == a.y
             cx == c.x
             cy == c.y
  <2>1. /\ ax \in Nat /\ ay \in Nat /\ cx \in Nat /\ cy \in Nat
        /\ qx \in Int /\ qy \in Int /\ fx \in Nat /\ fy \in Nat
    BY <1>6
  <2>2. (fx - ax) - (fy - ay) = k
    BY <1>1
  <2>3. ((cx - qx) - 0) - ((cy - qy) - 0) = ((cx - ax) - (cy - ay)) - k
    BY <1>4, <1>5 DEF Offset
  <2> HIDE DEF fx, fy, qx, qy, ax, ay, cx, cy
  <2>4. fx - fy = qx - qy
    BY <2>1, <2>2, <2>3
  <2> QED BY <2>4 DEF fx, fy, qx, qy
<1>8. q.x <= f.x => f.x >= q.x
  BY <1>6
<1> QED BY <1>1, <1>2, <1>7, <1>8 DEF Meet

\* Equal elements end at one place.
LEMMA SlidesOnce ==
  ASSUME NEW g, NEW m, NEW n \in Nat, NEW o \in Nat, Slides(g, m, n), Slides(g, m, o)
  PROVE  n = o
<1>1. CASE n < o
  <2>1. n \in 0 .. o - 1
    BY <1>1
  <2> QED BY <2>1 DEF Slides
<1>2. CASE o < n
  <2>1. o \in 0 .. n - 1
    BY <1>2
  <2> QED BY <2>1 DEF Slides
<1> QED BY <1>1, <1>2
-----------------------------------------------------------------------------
(***************************************************************************)
(* One step of the search from the start of a part.                        *)
(***************************************************************************)
\* compute_middle_snake, going on: the point the search reaches on the diagonal is the
\* furthest it can after so many edits.
LEMMA ForwardStep ==
  ASSUME TypeOK, PartsOrdered, Searches, phase = "forward"
  PROVE  LET end == SlideDown(StartSnake, To)
         IN  /\ StartSnake \in Points /\ StartSnake.x >= From.x /\ StartSnake.y >= From.y
             /\ end \in Points
             /\ Common(equal, StartSnake, end)
             /\ Forwards(equal, From, To, end, diagonal, distance)
             /\ distance = 0 => StartSnake = From
<1> DEFINE g == Onward(equal, From, To)
           d == distance
           k == diagonal
           L == forward_paths[k - 1]
           R == forward_paths[k + 1]
           s == StartSnake
<1>1. /\ equal \in Relations /\ From \in Whole /\ To \in Whole /\ Ordered(From, To)
      /\ From \in Points
      /\ From.x \in Nat /\ From.y \in Nat /\ To.x \in Nat /\ To.y \in Nat
      /\ From.x <= To.x /\ From.y <= To.y
  BY AtHand DEF Solving
<1>2. d \in Nat /\ k \in Int /\ k \in Round(d)
  BY DEF TypeOK, Searches, Searching
<1>3. Problem(g) /\ g.from = From
  BY <1>1, OnwardProblem, OnwardFields
<1>4. -d <= k /\ k <= d /\ k \in -d .. d
  BY <1>2, RoundFacts
<1>5. CASE d = 0
  <2>1. k = 0
    BY <1>2, <1>4, <1>5
  <2>2. 1 \in Diagonals
    BY <1>1 DEF Diagonals, Center, LengthOne, LengthTwo
  <2>3. forward_paths = [i \in Diagonals |-> From]
    BY <1>5 DEF Searches, SearchesForward
  <2>4. R = From
    BY <2>1, <2>2, <2>3
  <2>5. s = Point(From.x, From.y)
    <3>1. diagonal = -distance
      <4>1. \A m, n \in Int : n <= m /\ -m <= n /\ m = 0 => n = -m
        OBVIOUS
      <4>2. distance \in Int /\ diagonal \in Int
        BY <1>2
      <4> QED BY <4>1, <4>2, <1>4, <1>5
    <3>2. s = Point(forward_paths[diagonal + 1].x,
                    IF distance # 0 THEN forward_paths[diagonal + 1].y + 1
                    ELSE forward_paths[diagonal + 1].y)
      BY <3>1 DEF StartSnake
    <3>3. forward_paths[diagonal + 1] = From
      BY <2>4
    <3> QED BY <3>2, <3>3, <1>5
  <2>6. s = From
    BY <2>5, <1>1 DEF Point, Points
  <2> HIDE DEF s
  <2>7. PICK n \in Nat : SlideDown(From, To) = Along(From, n) /\ Slides(g, From, n)
    BY <1>1, SlidesDown
  <2>8. Furthest(g, Along(From, n), 0, 0)
    BY <2>7, <1>3, FurthestFirst
  <2>9. Forwards(equal, From, To, SlideDown(From, To), 0, 0)
    BY <2>7, <2>8 DEF Forwards, Slides
  <2>10. SlideDown(From, To) \in Points /\ Common(equal, From, SlideDown(From, To))
    BY <1>1, SlideDownEnd
  <2>11. From.x >= From.x /\ From.y >= From.y
    BY <1>1
  <2> QED BY <2>1, <2>6, <2>9, <2>10, <2>11, <1>1, <1>5 DEF s
<1>6. CASE d # 0
  <2>1. d >= 1
    BY <1>2, <1>6
  <2>2. ForwardsOn(Round(d - 1), d - 1)
    BY DEF Searches, SearchesForward
  <2>3. k # -d => Furthest(g, L, k - 1, d - 1)
    BY <1>2, <2>2, RoundFacts DEF ForwardsOn, Forwards
  <2>4. k # d => Furthest(g, R, k + 1, d - 1)
    BY <1>2, <2>2, RoundFacts DEF ForwardsOn, Forwards
  <2>5. Neighbours(g, L, R, k, d)
    BY <2>3, <2>4 DEF Neighbours
  <2>6. s = Target(L, R, k, d)
    BY <1>6 DEF StartSnake, Target, MovesDown
  <2> HIDE DEF s, L, R
  <2>7. Beyond(g, s)
    BY <1>2, <1>3, <1>4, <2>1, <2>5, <2>6, MoveAffordable
  <2>8. s \in Points /\ s.x >= From.x /\ s.y >= From.y
    BY <2>7, OnwardFields
  <2>9. PICK n \in Nat : SlideDown(s, To) = Along(s, n) /\ Slides(g, s, n)
    BY <1>1, <2>8, SlidesDown
  <2>10. Furthest(g, Along(s, n), k, d)
    BY <2>9, <1>2, <1>3, <1>4, <2>1, <2>5, <2>6, FurthestNext
  <2>11. Forwards(equal, From, To, SlideDown(s, To), k, d)
    BY <2>9, <2>10 DEF Forwards, Slides
  <2>12. SlideDown(s, To) \in Points /\ Common(equal, s, SlideDown(s, To))
    BY <1>1, <2>8, SlideDownEnd
  <2> QED BY <2>8, <2>11, <2>12, <1>6 DEF s
<1> QED BY <1>5, <1>6

(***************************************************************************)
(* One step of the search from the end of a part.                          *)
(***************************************************************************)
\* Where the equal elements before q begin.
LEMMA SlideUpEnd ==
  ASSUME equal \in Relations, NEW a \in Whole, NEW c \in Whole, Ordered(a, c),
         NEW q \in IntPoints, q.x <= c.x, q.y <= c.y
  PROVE  LET s == SlideUp(q, a)
         IN  /\ s \in IntPoints /\ s.x <= q.x /\ s.y <= q.y
             /\ Turn(c, s).x = c.x - s.x /\ Turn(c, s).y = c.y - s.y
             /\ q \in Grid(a, c) => s \in Grid(a, c) /\ Common(equal, s, q)
<1>1. PICK n \in Nat : /\ SlideUp(q, a) = Along(q, -n)
                       /\ Turn(c, Along(q, -n)) = Along(Turn(c, q), n)
                       /\ Slides(Backward(equal, a, c), Turn(c, q), n)
  BY SlidesUp
<1> DEFINE s == Along(q, -n)
<1>2. /\ q.x \in Int /\ q.y \in Int /\ c.x \in Nat /\ c.y \in Nat /\ a.x \in Nat /\ a.y \in Nat
      /\ q = [x |-> q.x, y |-> q.y]
  BY WholeGrid DEF IntPoints
<1>3. s \in IntPoints /\ s.x = q.x - n /\ s.y = q.y - n
  BY <1>2 DEF IntPoints, Along, Point
<1>4. s.x <= q.x /\ s.y <= q.y /\ Turn(c, s).x = c.x - s.x /\ Turn(c, s).y = c.y - s.y
  BY <1>2, <1>3 DEF Turn, Point
<1>5. \A i \in 0 .. n - 1 : /\ q.x - i > a.x /\ q.y - i > a.y
                            /\ <<q.x - i - 1, q.y - i - 1>> \in equal
  <2> TAKE i \in 0 .. n - 1
  <2>1. Matches(Backward(equal, a, c), Along(Turn(c, q), i))
    BY <1>1 DEF Slides
  <2>2. i \in Nat
    OBVIOUS
  <2> QED BY <2>1, <2>2, TurnedMatches
<1>6. ASSUME q \in Grid(a, c)
      PROVE  s \in Grid(a, c) /\ Common(equal, s, q)
  <2>1. a.x <= q.x /\ a.y <= q.y
    BY <1>6, <1>2 DEF Grid
  <2>2. a.x <= s.x /\ a.y <= s.y
    <3>1. CASE n = 0
      BY <3>1, <2>1, <1>2, <1>3
    <3>2. CASE n # 0
      <4>1. n - 1 \in 0 .. n - 1
        BY <3>2
      <4>2. q.x - (n - 1) > a.x /\ q.y - (n - 1) > a.y
        BY <4>1, <1>5
      <4> QED BY <4>2, <1>2, <1>3
    <3> QED BY <3>1, <3>2
  <2>3. s = [x |-> s.x, y |-> s.y] /\ s.x \in Int /\ s.y \in Int
    BY <1>3 DEF IntPoints
  <2>4. s \in Grid(a, c)
    <3> HIDE DEF s
    <3> QED BY <2>2, <2>3, <1>2, <1>4 DEF Grid
  <2>5. ASSUME NEW i \in 0 .. (q.x - s.x) - 1
        PROVE  <<s.x + i, s.y + i>> \in equal
    <3>1. q.x - s.x = n
      BY <1>2, <1>3
    <3> DEFINE h == (n - 1) - i
    <3>2. h \in 0 .. n - 1
      BY <3>1
    <3>3. s.x + i = q.x - h - 1 /\ s.y + i = q.y - h - 1
      BY <3>1, <1>2, <1>3
    <3> HIDE DEF h, s
    <3>4. <<q.x - h - 1, q.y - h - 1>> \in equal
      BY <3>2, <1>5
    <3> QED BY <3>3, <3>4
  <2>6. q.x - s.x = q.y - s.y /\ q.x >= s.x
    BY <1>2, <1>3
  <2> HIDE DEF s
  <2> QED BY <2>4, <2>5, <2>6 DEF Common
<1> HIDE DEF s
<1> QED BY <1>1, <1>3, <1>4, <1>6 DEF s

\* Where the search goes on from, on the problem turned around.
LEMMA SlidBack ==
  ASSUME TypeOK, PartsOrdered, Solving, NEW k \in Int, NEW j \in Int, NEW q,
         Backwards(equal, From, To, q, k, j)
  PROVE  LET s == SlideUp(q, From)
         IN  /\ s \in IntPoints /\ s.x <= To.x /\ s.y <= To.y
             /\ Turn(To, s).x = To.x - s.x /\ Turn(To, s).y = To.y - s.y
             /\ Furthest(Backward(equal, From, To), Turn(To, s), Offset(From, To) - k, j)
<1>1. /\ equal \in Relations /\ From \in Whole /\ To \in Whole /\ Ordered(From, To)
      /\ To.x \in Nat /\ To.y \in Nat
  BY AtHand
<1>2. q \in IntPoints /\ q.x <= To.x /\ q.y <= To.y
  BY DEF Backwards
<1>3. PICK n \in Nat : /\ SlideUp(q, From) = Along(q, -n)
                       /\ Turn(To, Along(q, -n)) = Along(Turn(To, q), n)
                       /\ Slides(Backward(equal, From, To), Turn(To, q), n)
  BY <1>1, <1>2, SlidesUp
<1>4. PICK o \in Nat : /\ Slides(Backward(equal, From, To), Turn(To, q), o)
                       /\ Furthest(Backward(equal, From, To), Along(Turn(To, q), o),
                                   Offset(From, To) - k, j)
  BY DEF Backwards
<1>5. n = o
  BY <1>3, <1>4, SlidesOnce
<1>6. LET s == SlideUp(q, From)
      IN  /\ s \in IntPoints /\ s.x <= q.x /\ s.y <= q.y
          /\ Turn(To, s).x = To.x - s.x /\ Turn(To, s).y = To.y - s.y
          /\ q \in Grid(From, To) => s \in Grid(From, To) /\ Common(equal, s, q)
  BY <1>1, <1>2, SlideUpEnd
<1> DEFINE s == SlideUp(q, From)
<1>7. s.x <= To.x /\ s.y <= To.y
  <2>1. /\ s.x \in Int /\ s.y \in Int /\ q.x \in Int /\ q.y \in Int
        /\ s.x <= q.x /\ s.y <= q.y
    BY <1>2, <1>6 DEF IntPoints
  <2> HIDE DEF s
  <2> QED BY <2>1, <1>1, <1>2
<1> QED BY <1>3, <1>4, <1>5, <1>6, <1>7

\* Where equal elements have ended, none follow.
LEMMA SlidesAlong ==
  ASSUME NEW g, NEW m \in Points, NEW n \in Nat, Slides(g, m, n)
  PROVE  Slides(g, Along(m, n), 0) /\ Along(Along(m, n), 0) = Along(m, n)
<1>1. m.x \in Nat /\ m.y \in Nat
  BY DEF Points
<1>2. Along(Along(m, n), 0) = Along(m, n)
  BY <1>1 DEF Along, Point
<1>3. ~ Matches(g, Along(m, n))
  BY DEF Slides
<1>4. \A i \in 0 .. 0 - 1 : FALSE
  OBVIOUS
<1> QED BY <1>2, <1>3, <1>4 DEF Slides

\* compute_middle_snake, going back: the point the search reaches on the diagonal is
\* the furthest it can after so many edits.
LEMMA BackwardStep ==
  ASSUME TypeOK, PartsOrdered, Searches, phase = "reverse"
  PROVE  /\ EndSnake \in IntPoints /\ EndSnake.x <= To.x /\ EndSnake.y <= To.y
         /\ Backwards(equal, From, To, EndSnake, diagonal + Delta, distance)
<1> DEFINE g == Backward(equal, From, To)
           d == distance
           j == diagonal
           k == diagonal + Delta
           l == SlideUp(reverse_paths[k - 1], From)
           r == SlideUp(reverse_paths[k + 1], From)
           s == EndSnake
<1>1. /\ equal \in Relations /\ From \in Whole /\ To \in Whole /\ Ordered(From, To)
      /\ To \in Points /\ Delta = Offset(From, To)
      /\ From.x \in Nat /\ From.y \in Nat /\ To.x \in Nat /\ To.y \in Nat
      /\ From.x <= To.x /\ From.y <= To.y
  BY AtHand DEF Solving
<1>2. d \in Nat /\ j \in Int /\ j \in Round(d)
  BY DEF TypeOK, Searches, Searching
<1>3. Problem(g) /\ g.from = Point(0, 0) /\ Point(0, 0) \in Points
  BY <1>1, BackwardProblem, OnwardFields, TurnedGrid
<1>4. -d <= j /\ j <= d /\ j \in -d .. d
  BY <1>2, RoundFacts
<1>5. Delta \in Int /\ k \in Int /\ Offset(From, To) - k = -j
  <2>1. Delta \in Int
    BY <1>1 DEF Offset
  <2> HIDE DEF d
  <2> QED BY <2>1, <1>1, <1>2
<1>6. CASE d = 0
  <2>1. j = 0 /\ k = Delta
    <3>1. j = 0
      BY <1>2, <1>4, <1>6
    <3> QED BY <3>1, <1>5
  <2>2. k - 1 \in Diagonals
    BY <2>1, <1>1 DEF Diagonals, Center, LengthOne, LengthTwo, Delta
  <2>3. reverse_paths = [i \in Diagonals |-> To]
    BY <1>6 DEF Searches, SearchesBack
  <2>4. reverse_paths[k - 1] = To
    BY <2>2, <2>3
  <2>5. s = l
    BY <1>6 DEF EndSnake
  <2>6. s = SlideUp(To, From)
    BY <2>4, <2>5
  <2>7. To \in IntPoints /\ To.x <= To.x /\ To.y <= To.y
    BY <1>1 DEF Points, IntPoints
  <2> HIDE DEF s
  <2>8. PICK n \in Nat : /\ SlideUp(To, From) = Along(To, -n)
                         /\ Turn(To, Along(To, -n)) = Along(Turn(To, To), n)
                         /\ Slides(g, Turn(To, To), n)
    BY <1>1, <2>7, SlidesUp
  <2>9. Turn(To, To) = Point(0, 0)
    BY <1>1 DEF Turn, Point
  <2> DEFINE t == Along(Point(0, 0), n)
  <2>10. Turn(To, s) = t
    BY <2>6, <2>8, <2>9
  <2>11. Slides(g, Point(0, 0), n)
    BY <2>8, <2>9
  <2>12. Slides(g, t, 0) /\ Along(t, 0) = t
    BY <2>11, <1>3, SlidesAlong
  <2>13. Furthest(g, t, 0, 0)
    BY <2>11, <1>3, FurthestFirst
  <2>14. s \in IntPoints /\ s.x <= To.x /\ s.y <= To.y
    BY <2>6, <2>7, <1>1, SlideUpEnd
  <2>15. OnDiagonal(g, t, 0) /\ Affordable(g, t, 0)
    BY <2>13 DEF Furthest
  <2>16. Offset(From, To) - k = 0
    BY <2>1, <1>1, <1>5
  <2> HIDE DEF t, k
  <2>17. Backwards(equal, From, To, s, k, 0)
    BY <2>10, <2>12, <2>13, <2>14, <2>15, <2>16 DEF Backwards
  <2> QED BY <2>14, <2>17, <1>6 DEF s, k
<1>7. CASE d # 0
  <2>1. d >= 1
    BY <1>2, <1>7
  <2>2. BackwardsOn(Round(d - 1), d - 1)
    BY DEF Searches, SearchesBack
  <2>3. Solving
    BY DEF Solving
  <2>4. j # -d => /\ l \in IntPoints /\ l.x <= To.x /\ l.y <= To.y
                  /\ Turn(To, l).x = To.x - l.x /\ Turn(To, l).y = To.y - l.y
                  /\ Furthest(g, Turn(To, l), -j + 1, d - 1)
    <3> SUFFICES ASSUME j # -d
                 PROVE  /\ l \in IntPoints /\ l.x <= To.x /\ l.y <= To.y
                        /\ Turn(To, l).x = To.x - l.x /\ Turn(To, l).y = To.y - l.y
                        /\ Furthest(g, Turn(To, l), -j + 1, d - 1)
      OBVIOUS
    <3>1. j - 1 \in Round(d - 1)
      BY <1>2, RoundFacts
    <3>2. (j - 1) + Delta = k - 1 /\ k - 1 \in Int /\ d - 1 \in Int
      BY <1>2, <1>5
    <3>3. Backwards(equal, From, To, reverse_paths[k - 1], k - 1, d - 1)
      BY <2>2, <3>1, <3>2 DEF BackwardsOn
    <3>4. Offset(From, To) - (k - 1) = -j + 1
      BY <1>1, <1>5, <1>2
    <3> QED BY <2>3, <3>2, <3>3, <3>4, SlidBack
  <2>5. j # d => /\ r \in IntPoints /\ r.x <= To.x /\ r.y <= To.y
                 /\ Turn(To, r).x = To.x - r.x /\ Turn(To, r).y = To.y - r.y
                 /\ Furthest(g, Turn(To, r), -j - 1, d - 1)
    <3> SUFFICES ASSUME j # d
                 PROVE  /\ r \in IntPoints /\ r.x <= To.x /\ r.y <= To.y
                        /\ Turn(To, r).x = To.x - r.x /\ Turn(To, r).y = To.y - r.y
                        /\ Furthest(g, Turn(To, r), -j - 1, d - 1)
      OBVIOUS
    <3>1. j + 1 \in Round(d - 1)
      BY <1>2, RoundFacts
    <3>2. (j + 1) + Delta = k + 1 /\ k + 1 \in Int /\ d - 1 \in Int
      BY <1>2, <1>5
    <3>3. Backwards(equal, From, To, reverse_paths[k + 1], k + 1, d - 1)
      BY <2>2, <3>1, <3>2 DEF BackwardsOn
    <3>4. Offset(From, To) - (k + 1) = -j - 1
      BY <1>1, <1>5, <1>2
    <3> QED BY <2>3, <3>2, <3>3, <3>4, SlidBack
  <2> DEFINE L == Turn(To, r)
             R == Turn(To, l)
             h == -j
  <2>6. h \in -d .. d /\ h \in Int /\ (h # -d <=> j # d) /\ (h # d <=> j # -d)
    BY <1>2, <1>4
  <2>7. Neighbours(g, L, R, h, d)
    BY <2>4, <2>5, <2>6 DEF Neighbours
  <2>8. s = IF j = d \/ (j # -d /\ r.x > l.x) THEN Point(l.x, l.y - 1) ELSE Point(r.x - 1, r.y)
    BY <1>7 DEF EndSnake
  <2>9. MovesDown(L, R, h, d) <=> j = d \/ (j # -d /\ r.x > l.x)
    <3>1. CASE j = d \/ j = -d
      BY <3>1, <1>2, <2>1, <2>6 DEF MovesDown
    <3>2. CASE j # d /\ j # -d
      <4>1. /\ l.x \in Int /\ r.x \in Int /\ L.x = To.x - r.x /\ R.x = To.x - l.x
        BY <3>2, <2>4, <2>5 DEF IntPoints
      <4>2. L.x < R.x <=> r.x > l.x
        <5> HIDE DEF l, r, L, R
        <5> QED BY <4>1, <1>1
      <4> QED BY <4>2, <3>2, <2>6 DEF MovesDown
    <3> QED BY <3>1, <3>2
  <2>10. /\ s \in IntPoints /\ s.x <= To.x /\ s.y <= To.y
         /\ Turn(To, s) = Target(L, R, h, d)
    <3>1. CASE j = d \/ (j # -d /\ r.x > l.x)
      <4>1. j # -d
        BY <3>1, <1>2, <2>1
      <4>2. /\ l.x \in Int /\ l.y \in Int /\ l.x <= To.x /\ l.y <= To.y
            /\ R.x = To.x - l.x /\ R.y = To.y - l.y
        BY <4>1, <2>4 DEF IntPoints
      <4>3. s = Point(l.x, l.y - 1)
        BY <3>1, <2>8
      <4>4. Target(L, R, h, d) = Point(R.x, R.y + 1)
        BY <3>1, <2>9 DEF Target
      <4> HIDE DEF l, r, L, R, s, d, j, h
      <4>5. s.x = l.x /\ s.y = l.y - 1 /\ s \in IntPoints
        BY <4>2, <4>3 DEF Point, IntPoints
      <4>6. Turn(To, s) = Point(To.x - l.x, To.y - (l.y - 1))
        BY <4>5 DEF Turn
      <4>7. To.y - (l.y - 1) = R.y + 1
        BY <4>2, <1>1
      <4>8. s.x <= To.x /\ s.y <= To.y
        BY <4>2, <4>5, <1>1
      <4> QED BY <4>2, <4>4, <4>5, <4>6, <4>7, <4>8
    <3>2. CASE ~ (j = d \/ (j # -d /\ r.x > l.x))
      <4>1. j # d
        BY <3>2
      <4>2. /\ r.x \in Int /\ r.y \in Int /\ r.x <= To.x /\ r.y <= To.y
            /\ L.x = To.x - r.x /\ L.y = To.y - r.y
        BY <4>1, <2>5 DEF IntPoints
      <4>3. s = Point(r.x - 1, r.y)
        BY <3>2, <2>8
      <4>4. Target(L, R, h, d) = Point(L.x + 1, L.y)
        BY <3>2, <2>9 DEF Target
      <4> HIDE DEF l, r, L, R, s, d, j, h
      <4>5. s.x = r.x - 1 /\ s.y = r.y /\ s \in IntPoints
        BY <4>2, <4>3 DEF Point, IntPoints
      <4>6. Turn(To, s) = Point(To.x - (r.x - 1), To.y - r.y)
        BY <4>5 DEF Turn
      <4>7. To.x - (r.x - 1) = L.x + 1
        BY <4>2, <1>1
      <4>8. s.x <= To.x /\ s.y <= To.y
        BY <4>2, <4>5, <1>1
      <4> QED BY <4>2, <4>4, <4>5, <4>6, <4>7, <4>8
    <3> QED BY <3>1, <3>2
  <2>11. Offset(From, To) - k = h
    BY <1>5
  <2> HIDE DEF s, l, r, L, R, h, k
  <2>12. PICK n \in Nat : /\ SlideUp(s, From) = Along(s, -n)
                          /\ Turn(To, Along(s, -n)) = Along(Turn(To, s), n)
                          /\ Slides(g, Turn(To, s), n)
    BY <1>1, <2>10, SlidesUp
  <2>13. OnDiagonal(g, Turn(To, s), h) /\ Affordable(g, Turn(To, s), d)
    BY <1>2, <1>3, <2>1, <2>6, <2>7, <2>10, MoveAffordable
  <2>14. Furthest(g, Along(Turn(To, s), n), h, d)
    BY <1>2, <1>3, <2>1, <2>6, <2>7, <2>10, <2>12, FurthestNext
  <2>15. Backwards(equal, From, To, s, k, d)
    BY <2>10, <2>11, <2>12, <2>13, <2>14 DEF Backwards
  <2> QED BY <2>10, <2>15 DEF s, k
<1> QED BY <1>6, <1>7

(***************************************************************************)
(* The search for the middle snake.                                        *)
(***************************************************************************)
\* A step of the search leaves the parts as they are.
LEMMA StillSearching ==
  ASSUME PartsOrdered, PartsSpend, Solving, equal' = equal, parts' = parts,
         script' = script, failed' = failed, phase' \in {"forward", "reverse", "snake"}
  PROVE  PartsOrdered' /\ PartsSpend' /\ NothingMissed'
<1>1. From' = From
  BY SameParts
<1>2. PartsOrdered'
  BY DEF PartsOrdered
<1>3. PartsSpend'
  <2>1. ~ failed => /\ Transforms(equal, script, Start, From)
                    /\ Total(script) + ToSpend(equal, parts) = Between(equal, Start, End)
    BY DEF PartsSpend
  <2> QED BY <2>1, <1>1 DEF PartsSpend
<1>4. NothingMissed'
  BY DEF NothingMissed
<1> QED BY <1>2, <1>3, <1>4

\* compute_middle_snake begins: no diagonal has been to.
LEMMA BeginMiddleSnakeStep ==
  ASSUME TypeOK, PartsOrdered, BeginMiddleSnake
  PROVE  /\ phase' = "forward"
         /\ distance' \in Nat /\ diagonal' \in Int
         /\ forward_paths' \in [Diagonals' -> Points]
         /\ reverse_paths' \in [Diagonals' -> IntPoints]
         /\ Searches'
<1>1. /\ phase = "solve" /\ phase' = "forward" /\ equal' = equal /\ parts' = parts
      /\ LengthOne > 0 /\ LengthTwo > 0
      /\ distance' = 0 /\ diagonal' = 0
      /\ forward_paths' = [k \in Diagonals |-> From]
      /\ reverse_paths' = [k \in Diagonals |-> To]
  BY DEF BeginMiddleSnake, input
<1>2. /\ From' = From /\ To' = To /\ Diagonals' = Diagonals
      /\ LengthOne' = LengthOne /\ LengthTwo' = LengthTwo
  BY <1>1, SameParts
<1>3. From \in Points /\ To \in Points /\ To \in IntPoints /\ Between(equal, From, To) \in Nat
  BY <1>1, AtHand DEF Solving, Points, IntPoints
<1>4. 0 \in Nat /\ 0 \in Int
  OBVIOUS
<1>5. Round(distance') = {0} /\ Round(distance' - 1) = {}
  <2>1. distance' - 1 \in Int /\ distance' - 1 < 0
    BY <1>1
  <2> QED BY <2>1, <1>1, FirstRounds
<1>6. Passed' = {}
  <2>1. \A k \in Round(distance') : ~ (k > diagonal')
    BY <1>1, <1>5
  <2> QED BY <2>1 DEF Passed
<1>7. 2 * distance' - 1 <= Between(equal', From', To')
  <2>1. 2 * distance' - 1 <= 0
    BY <1>1
  <2> DEFINE b == Between(equal, From, To)
  <2>2. b \in Nat
    BY <1>3
  <2> HIDE DEF b
  <2>3. 2 * distance' - 1 <= b
    BY <2>1, <2>2, <1>1
  <2> QED BY <2>3, <1>1, <1>2 DEF b
<1>8. SearchesForward'
  <2>1. \A k \in {} : FALSE
    OBVIOUS
  <2>2. /\ ForwardsOn(Passed, distance)'
        /\ ForwardsOn(Round(distance - 1), distance - 1)'
        /\ BackwardsOn(Round(distance - 1), distance - 1)'
    BY <2>1, <1>5, <1>6 DEF ForwardsOn, BackwardsOn
  <2>3. (~ IsEven => \A k \in Passed :
           k - Delta \in -(distance - 1) .. distance - 1 =>
             ~ Meet(forward_paths[k], reverse_paths[k]))'
    BY <2>1, <1>6
  <2>4. /\ forward_paths' = [k \in Diagonals' |-> From']
        /\ reverse_paths' = [k \in Diagonals' |-> To']
    BY <1>1, <1>2
  <2>5. distance' # 1
    BY <1>1
  <2> QED BY <1>7, <2>2, <2>3, <2>4, <2>5 DEF SearchesForward
<1>9. SearchesBack'
  BY <1>1 DEF SearchesBack
<1>10. Searches'
  BY <1>1, <1>2, <1>5, <1>8, <1>9 DEF Searches
<1> QED BY <1>1, <1>2, <1>3, <1>4, <1>10

\* What the searches know of the edit distance before and after a round.
LEMMA RoundBounds ==
  ASSUME TypeOK, PartsOrdered, Searches, Searching
  PROVE  /\ distance \in Nat /\ diagonal \in Int /\ diagonal \in Round(distance)
         /\ diagonal \in Diagonals /\ diagonal + Delta \in Diagonals
         /\ equal \in Relations /\ From \in Whole /\ To \in Whole /\ Ordered(From, To)
         /\ Delta \in Int /\ Delta = Offset(From, To)
         /\ Between(equal, From, To) \in Nat /\ Between(equal, From, To) > 0
         /\ Between(equal, From, To) <= LengthOne + LengthTwo
         /\ (Between(equal, From, To) - Delta) % 2 = 0
         /\ forward_paths \in [Diagonals -> Points]
         /\ reverse_paths \in [Diagonals -> IntPoints]
         /\ LengthOne \in Nat /\ LengthTwo \in Nat /\ LengthOne > 0 /\ LengthTwo > 0
         /\ 2 * distance - 1 <= Between(equal, From, To)
         /\ \A i \in -distance .. distance : i \in Diagonals /\ i + Delta \in Diagonals
<1>1. /\ equal \in Relations /\ From \in Whole /\ To \in Whole /\ Ordered(From, To)
      /\ From.x \in Nat /\ From.y \in Nat /\ To.x \in Nat /\ To.y \in Nat
      /\ From.x <= To.x /\ From.y <= To.y
      /\ Delta = Offset(From, To)
      /\ Between(equal, From, To) = 0 => From = To /\ ~ parts[1].half
  BY AtHand DEF Solving, Searching
<1> DEFINE b == Between(equal, From, To)
<1>2. /\ distance \in Nat /\ diagonal \in Int /\ diagonal \in Round(distance)
      /\ LengthOne > 0 /\ LengthTwo > 0
      /\ forward_paths \in [Diagonals -> Points]
      /\ reverse_paths \in [Diagonals -> IntPoints]
  BY DEF TypeOK, Searches, Searching
<1>3. LengthOne = To.x - From.x /\ LengthTwo = To.y - From.y /\ LengthOne \in Nat /\ LengthTwo \in Nat
  BY <1>1 DEF LengthOne, LengthTwo
<1>4. /\ b \in Nat /\ Offset(From, To) \in Int
      /\ b <= (To.x - From.x) + (To.y - From.y)
      /\ (b - Offset(From, To)) % 2 = 0
  BY <1>1, DistanceRange
<1>5. b # 0
  BY <1>1, <1>2, <1>3
<1>6. 2 * distance - 1 <= b
  <2>1. CASE phase = "forward"
    BY <2>1 DEF Searches, SearchesForward
  <2>2. CASE phase = "reverse"
    <3>1. 2 * distance <= b
      BY <2>2 DEF Searches, SearchesBack
    <3> HIDE DEF b
    <3> QED BY <3>1, <1>2, <1>4
  <2> QED BY <2>1, <2>2 DEF Searching
<1>7. -distance <= diagonal /\ diagonal <= distance
  BY <1>2, RoundFacts
<1> HIDE DEF b
<1>8. b > 0 /\ b <= LengthOne + LengthTwo
  BY <1>3, <1>4, <1>5
<1>9. Delta = LengthOne - LengthTwo
  BY DEF Delta
<1>10. ASSUME NEW k \in -distance .. distance
       PROVE  k \in Diagonals /\ k + Delta \in Diagonals
  <2> DEFINE m == LengthOne
             n == LengthTwo
             d == distance
             r == Center
  <2>1. m \in Nat /\ n \in Nat /\ d \in Nat /\ r = (m + n) * 2 + 1
    BY <1>2, <1>3 DEF Center
  <2>2. b \in Nat /\ 2 * d - 1 <= b /\ b <= m + n
    BY <1>4, <1>6, <1>8
  <2>3. k \in Int /\ -d <= k /\ k <= d
    BY <1>2
  <2>4. Delta = m - n /\ Diagonals = -r .. r
    BY <1>9 DEF Diagonals
  <2> HIDE DEF m, n, d, r
  <2>5. r \in Int /\ 2 * d - 1 <= m + n
    BY <2>1, <2>2
  <2>6. k >= -r /\ k <= r /\ k + (m - n) >= -r /\ k + (m - n) <= r
    BY <2>1, <2>3, <2>5
  <2>7. k \in -r .. r /\ k + (m - n) \in -r .. r
    BY <2>1, <2>5, <2>6
  <2> QED BY <2>4, <2>7
<1>11. diagonal \in -distance .. distance
  BY <1>2, <1>7
<1> QED BY <1>1, <1>2, <1>3, <1>4, <1>6, <1>8, <1>10, <1>11 DEF b

\* The only edit of a part is found next to the snake it leads to.
LEMMA SingleFound ==
  ASSUME equal' = equal, parts' = parts, equal \in Relations,
         From \in Whole, To \in Whole, Ordered(From, To),
         NEW s \in Grid(From, To), NEW t, points' = <<s, t>>,
         NEW f \in Points, ~ Matches(Onward(equal, From, To), f),
         Common(equal, From, f), Between(equal, s, To) = 0,
         \/ LengthTwo < LengthOne /\ s = Point(f.x + 1, f.y)
         \/ ~ (LengthTwo < LengthOne) /\ s = Point(f.x, f.y + 1)
  PROVE  /\ SingleEdit' \in Edits
         /\ Common(equal', From', Before(SingleEdit'))
         /\ Common(equal', After(SingleEdit'), To')
<1>1. /\ From' = From /\ To' = To /\ LengthOne' = LengthOne /\ LengthTwo' = LengthTwo
  BY SameParts
<1>2. /\ From.x \in Nat /\ From.y \in Nat /\ To.x \in Nat /\ To.y \in Nat
      /\ f.x \in Nat /\ f.y \in Nat /\ f = Point(f.x, f.y)
      /\ s.x \in Int /\ s.y \in Int /\ s.x <= To.x /\ s.y <= To.y
      /\ s \in Whole /\ Ordered(s, To)
  <2>1. From.x \in Nat /\ From.y \in Nat /\ To.x \in Nat /\ To.y \in Nat
    BY WholeGrid
  <2>2. s \in Whole /\ Ordered(s, To)
    BY WholeGrid
  <2>3. f.x \in Nat /\ f.y \in Nat /\ f = Point(f.x, f.y)
    BY DEF Points, Point
  <2>4. s.x \in Nat /\ s.y \in Nat
    BY <2>2, WholeGrid
  <2> QED BY <2>1, <2>2, <2>3, <2>4 DEF Ordered
<1>3. f.x >= From.x /\ f.y >= From.y
  <2>1. f.x - From.x = f.y - From.y /\ f.x >= From.x
    BY DEF Common
  <2> QED BY <2>1, <1>2
<1>4. Common(equal, s, To)
  BY <1>2, FreeCommon
<1>5. To.x - s.x = To.y - s.y
  BY <1>4 DEF Common
<1>6. s.x < To.x => ~ (f.x < To.x /\ f.y < To.y /\ <<f.x, f.y>> \in equal)
  BY OnwardFields
<1> DEFINE Edit(operation, at) ==
             [operation |-> operation, one |-> at.x, two |-> at.y, length |-> 1]
           u == SingleEdit'
<1>7. points[1]' = s
  OBVIOUS
<1>8. CASE LengthTwo < LengthOne /\ s = Point(f.x + 1, f.y)
  <2>1. s.x = f.x + 1 /\ s.y = f.y
    BY <1>8 DEF Point
  <2>2. s.x >= To.x \/ (s.x > From.x /\ s.y >= From.y /\ <<s.x - 1, s.y>> \notin equal)
    <3>1. CASE s.x >= To.x
      BY <3>1
    <3>2. CASE ~ (s.x >= To.x)
      <4>1. s.x < To.x /\ s.y < To.y
        BY <3>2, <1>2, <1>5
      <4>2. f.x < To.x /\ f.y < To.y
        BY <4>1, <2>1, <1>2
      <4>3. <<f.x, f.y>> \notin equal
        BY <4>1, <4>2, <1>6
      <4>4. s.x - 1 = f.x
        BY <2>1, <1>2
      <4> QED BY <4>3, <4>4, <2>1, <1>2, <1>3
    <3> QED BY <3>1, <3>2
  <2>3. u = Edit("SES_DELETE", Left(s))
    BY <2>2, <1>1, <1>7, <1>8 DEF SingleEdit
  <2>4. Left(s).x = f.x /\ Left(s).y = f.y
    BY <2>1, <1>2 DEF Left, Point
  <2>5. u = [operation |-> "SES_DELETE", one |-> f.x, two |-> f.y, length |-> 1]
    BY <2>3, <2>4
  <2> HIDE DEF u
  <2>6. u \in Edits
    BY <2>5, <1>2 DEF Edits, Operations
  <2>7. Before(u) = f /\ After(u) = s
    BY <2>5, <1>2, <1>8 DEF Before, After
  <2>8. Common(equal', From', Before(u)) /\ Common(equal', After(u), To')
    BY <2>7, <1>1, <1>4
  <2> QED BY <2>6, <2>8 DEF u
<1>9. CASE ~ (LengthTwo < LengthOne) /\ s = Point(f.x, f.y + 1)
  <2>1. s.x = f.x /\ s.y = f.y + 1
    BY <1>9 DEF Point
  <2>2. s.y >= To.y \/ (s.x >= From.x /\ s.y > From.y /\ <<s.x, s.y - 1>> \notin equal)
    <3>1. CASE s.y >= To.y
      BY <3>1
    <3>2. CASE ~ (s.y >= To.y)
      <4>1. s.x < To.x /\ s.y < To.y
        BY <3>2, <1>2, <1>5
      <4>2. f.x < To.x /\ f.y < To.y
        BY <4>1, <2>1, <1>2
      <4>3. <<f.x, f.y>> \notin equal
        BY <4>1, <4>2, <1>6
      <4>4. s.y - 1 = f.y
        BY <2>1, <1>2
      <4> QED BY <4>3, <4>4, <2>1, <1>2, <1>3
    <3> QED BY <3>1, <3>2
  <2>3. u = Edit("SES_INSERT", Above(s))
    BY <2>2, <1>1, <1>7, <1>9 DEF SingleEdit
  <2>4. Above(s).x = f.x /\ Above(s).y = f.y
    BY <2>1, <1>2 DEF Above, Point
  <2>5. u = [operation |-> "SES_INSERT", one |-> f.x, two |-> f.y, length |-> 1]
    BY <2>3, <2>4
  <2> HIDE DEF u
  <2>6. u \in Edits
    BY <2>5, <1>2 DEF Edits, Operations
  <2>7. Before(u) = f /\ After(u) = s
    BY <2>5, <1>2, <1>9 DEF Before, After
  <2>8. Common(equal', From', Before(u)) /\ Common(equal', After(u), To')
    BY <2>7, <1>1, <1>4
  <2> QED BY <2>6, <2>8 DEF u
<1> QED BY <1>8, <1>9

\* The search from the start meets the one from the end.
LEMMA ForwardMeets ==
  ASSUME TypeOK, PartsOrdered, Searches, phase = "forward", equal' = equal, parts' = parts,
         NEW end, end = SlideDown(StartSnake, To), ~ IsEven,
         diagonal \in Delta - (distance - 1) .. Delta + (distance - 1),
         Meet(end, reverse_paths[diagonal]),
         Found(StartSnake, end, 2 * distance - 1)
  PROVE  /\ phase' = "snake" /\ points' \in Whole \X Whole /\ edit_distance' \in Nat
         /\ SnakeFound'
<1> DEFINE d == distance
           k == diagonal
           s == StartSnake
           q == reverse_paths[k]
           b == Between(equal, From, To)
<1>1. /\ d \in Nat /\ k \in Int /\ k \in Round(d)
      /\ equal \in Relations /\ From \in Whole /\ To \in Whole /\ Ordered(From, To)
      /\ Delta \in Int /\ Delta = Offset(From, To)
      /\ b \in Nat /\ b > 0
      /\ 2 * d - 1 <= b
  BY RoundBounds DEF Searching
<1>2. /\ s \in Points /\ s.x >= From.x /\ s.y >= From.y
      /\ end \in Points
      /\ Common(equal, s, end)
      /\ Forwards(equal, From, To, end, k, d)
  BY ForwardStep
<1>3. /\ phase' = "snake" /\ points' = <<s, end>> /\ edit_distance' = 2 * d - 1
  BY DEF Found
<1>4. From' = From /\ To' = To
  BY SameParts
<1>5. /\ -(d - 1) <= k - Delta /\ k - Delta <= d - 1
      /\ d - 1 \in Nat
  BY <1>1
<1>6. -d <= k /\ k <= d /\ k \in -d .. d /\ (d - k) % 2 = 0
  BY <1>1, RoundFacts
<1>7. k - Delta \in Round(d - 1)
  <2>1. ((d - 1) - (k - Delta)) % 2 = 0
    <3>1. Delta % 2 # 0
      BY DEF IsEven
    <3> HIDE DEF d, k
    <3> QED BY <3>1, <1>1, <1>6
  <2>2. k - Delta \in -(d - 1) .. d - 1 /\ d - 1 \in Int
    BY <1>1, <1>5
  <2> QED BY <2>1, <2>2, RoundWith
<1>8. Backwards(equal, From, To, q, k, d - 1)
  <2>1. (k - Delta) + Delta = k
    BY <1>1
  <2>2. BackwardsOn(Round(d - 1), d - 1)
    BY DEF Searches, SearchesForward
  <2> QED BY <2>1, <2>2, <1>7 DEF BackwardsOn
<1>9. q.x <= end.x
  <2>1. end.x >= q.x
    BY DEF Meet
  <2>2. end.x \in Int /\ q.x \in Int
    BY <1>2, <1>8 DEF Points, Backwards, IntPoints
  <2> HIDE DEF q
  <2> QED BY <2>1, <2>2
<1>10. Furthest(Onward(equal, From, To), end, k, d)
  BY <1>2 DEF Forwards
<1>11. b >= d + (d - 1)
  <2> HIDE DEF b, d
  <2> QED BY <1>1
<1> HIDE DEF b, d, k, s, q
<1>12. /\ end \in Grid(From, To)
       /\ b = d + (d - 1)
       /\ Between(equal, From, end) = d /\ Between(equal, end, To) = d - 1
  BY <1>1, <1>5, <1>6, <1>8, <1>9, <1>10, <1>11, TheyMeet DEF b
<1>13. /\ From.x \in Nat /\ From.y \in Nat /\ To.x \in Nat /\ To.y \in Nat
       /\ s.x \in Nat /\ s.y \in Nat /\ s = [x |-> s.x, y |-> s.y]
       /\ end.x \in Nat /\ end.y \in Nat /\ end.x <= To.x /\ end.y <= To.y
  <2>1. From.x \in Nat /\ From.y \in Nat /\ To.x \in Nat /\ To.y \in Nat
    BY <1>1, WholeGrid
  <2>2. end.x <= To.x /\ end.y <= To.y
    BY <1>12, <2>1 DEF Grid
  <2> QED BY <2>1, <2>2, <1>2 DEF Points
<1>14. s \in Grid(From, To) /\ s.x <= end.x /\ s.y <= end.y
  <2>1. end.x - s.x = end.y - s.y /\ end.x >= s.x
    BY <1>2 DEF Common
  <2>2. s.x <= end.x /\ s.y <= end.y
    BY <2>1, <1>13
  <2>3. s.x <= To.x /\ s.y <= To.y
    BY <2>2, <1>13
  <2> QED BY <2>2, <2>3, <1>2, <1>13 DEF Grid
<1>15. Between(equal, From, s) = d /\ Between(equal, s, To) = d - 1
  BY <1>1, <1>2, <1>5, <1>12, <1>14, SnakeEnds DEF b
<1>16. s \in Whole /\ end \in Whole
  BY <1>1, <1>12, <1>14, WholeGrid
<1>17. points' \in Whole \X Whole /\ edit_distance' \in Nat /\ edit_distance' = b
  <2>1. edit_distance' = b
    BY <1>1, <1>3, <1>12 DEF d
  <2> QED BY <2>1, <1>1, <1>3, <1>16
<1>18. ASSUME edit_distance' <= 1
       PROVE  /\ SingleEdit' \in Edits
              /\ Common(equal', From', Before(SingleEdit'))
              /\ Common(equal', After(SingleEdit'), To')
  <2>1. d = 1 /\ b = 1
    BY <1>18, <1>1, <1>5, <1>12, <1>17
  <2>2. k = Delta
    BY <2>1, <1>1, <1>5
  <2> DEFINE f == forward_paths[0]
  <2>3. Common(equal, From, f) /\ ForwardsOn(Round(d - 1), d - 1)
    BY <2>1 DEF Searches, SearchesForward, d
  <2>4. Round(d - 1) = {0}
    <3>1. d - 1 = 0
      BY <2>1
    <3> QED BY <3>1, FirstRounds
  <2>5. Forwards(equal, From, To, f, 0, d - 1)
    BY <2>3, <2>4 DEF ForwardsOn
  <2>6. f \in Points /\ ~ Matches(Onward(equal, From, To), f)
    BY <2>5 DEF Forwards, Furthest, Beyond
  <2>7. Between(equal, s, To) = 0
    BY <2>1, <1>15
  <2>8. Delta = LengthOne - LengthTwo /\ LengthOne \in Int /\ LengthTwo \in Int
    BY <1>13 DEF Delta, LengthOne, LengthTwo
  <2>9. k = 1 \/ k = -1
    <3>1. k # 0
      BY <2>1, <1>1, <1>6
    <3> QED BY <3>1, <2>1, <1>1, <1>6
  <2>10. \/ LengthTwo < LengthOne /\ s = Point(f.x + 1, f.y)
         \/ ~ (LengthTwo < LengthOne) /\ s = Point(f.x, f.y + 1)
    <3>1. CASE k = 1
      <4>1. LengthTwo < LengthOne
        BY <3>1, <2>2, <2>8
      <4>2. k = d /\ k # -d
        BY <3>1, <2>1
      <4>3. k - 1 = 0
        BY <3>1
      <4>4. s = Point(forward_paths[k - 1].x + 1, forward_paths[k - 1].y)
        BY <4>2 DEF StartSnake, s, k, d
      <4> QED BY <4>1, <4>3, <4>4
    <3>2. CASE k = -1
      <4>1. ~ (LengthTwo < LengthOne)
        BY <3>2, <2>2, <2>8
      <4>2. k = -d /\ d # 0
        BY <3>2, <2>1
      <4>3. k + 1 = 0
        BY <3>2
      <4>4. s = Point(forward_paths[k + 1].x, forward_paths[k + 1].y + 1)
        BY <4>2 DEF StartSnake, s, k, d
      <4> QED BY <4>1, <4>3, <4>4
    <3> QED BY <3>1, <3>2, <2>9
  <2> HIDE DEF f
  <2> QED BY <2>3, <2>6, <2>7, <2>10, <1>1, <1>3, <1>14, SingleFound
<1>19. SnakeFound'
  <2>1. points[1]' = s /\ points[2]' = end
    BY <1>3
  <2>2. /\ Between(equal, From, s) + Between(equal, end, To) = b
        /\ Between(equal, From, s) - Between(equal, end, To) \in {0, 1}
    BY <1>1, <1>12, <1>15
  <2>3. edit_distance' = Between(equal', From', To')
    BY <1>4, <1>17 DEF b
  <2>4. /\ s \in Grid(From', To') /\ end \in Grid(From', To')
        /\ Common(equal', s, end)
        /\ Between(equal', From', s) + Between(equal', end, To') = edit_distance'
        /\ Between(equal', From', s) - Between(equal', end, To') \in {0, 1}
    BY <1>2, <1>4, <1>12, <1>14, <1>17, <2>2
  <2> QED BY <2>1, <2>3, <2>4, <1>18 DEF SnakeFound
<1> QED BY <1>3, <1>17, <1>19

\* It does not, and goes on with the next diagonal, or with the other search.
LEMMA ForwardGoesOn ==
  ASSUME TypeOK, PartsOrdered, Searches, phase = "forward", equal' = equal, parts' = parts,
         NEW end, end = SlideDown(StartSnake, To),
         ~ /\ ~ IsEven
           /\ diagonal \in Delta - (distance - 1) .. Delta + (distance - 1)
           /\ Meet(end, reverse_paths[diagonal]),
         forward_paths' = [forward_paths EXCEPT ![diagonal] = end],
         reverse_paths' = reverse_paths,
         NextDiagonal("reverse", distance)
  PROVE  /\ phase' \in {"forward", "reverse"} /\ distance' \in Nat /\ diagonal' \in Int
         /\ Searches'
<1> DEFINE d == distance
           k == diagonal
           f == forward_paths
           g == forward_paths'
           q == reverse_paths
           b == Between(equal, From, To)
           On(h, i, j) == Forwards(equal, From, To, h, i, j)
           Back(h, i, j) == Backwards(equal, From, To, h, i, j)
           Crossed(i) == i - Delta \in -(d - 1) .. d - 1 /\ Meet(g[i], q[i])
<1>1. /\ d \in Nat /\ k \in Int /\ k \in Round(d) /\ k \in Diagonals
      /\ equal \in Relations /\ From \in Whole /\ To \in Whole /\ Ordered(From, To)
      /\ Delta \in Int /\ Delta = Offset(From, To)
      /\ b \in Nat /\ b > 0
      /\ (b - Delta) % 2 = 0
      /\ f \in [Diagonals -> Points]
      /\ LengthOne > 0 /\ LengthTwo > 0
      /\ 2 * d - 1 <= b
      /\ \A i \in -d .. d : i \in Diagonals
  BY RoundBounds DEF Searching
<1>2. Common(equal, StartSnake, end) /\ On(end, k, d) /\ (d = 0 => StartSnake = From)
  BY ForwardStep
<1>3. /\ From' = From /\ To' = To /\ Diagonals' = Diagonals /\ Delta' = Delta
      /\ LengthOne' = LengthOne /\ LengthTwo' = LengthTwo /\ IsEven' = IsEven
  BY SameParts
<1>4. /\ \A i \in Passed : On(f[i], i, d)
      /\ \A i \in Round(d - 1) : On(f[i], i, d - 1)
      /\ \A i \in Round(d - 1) : Back(q[i + Delta], i + Delta, d - 1)
      /\ ~ IsEven => \A i \in Passed : i - Delta \in -(d - 1) .. d - 1 => ~ Meet(f[i], q[i])
      /\ d = 0 => q = [i \in Diagonals |-> To]
      /\ d = 1 => Common(equal, From, f[0])
  BY DEF Searches, SearchesForward, ForwardsOn, BackwardsOn
<1>5. -d <= k /\ k <= d /\ k \in -d .. d /\ (d - k) % 2 = 0
  BY <1>1, RoundFacts
<1>6. g[k] = end /\ \A i \in Diagonals : i # k => g[i] = f[i]
  BY <1>1
<1>r. /\ \A i \in Passed : i \in Diagonals /\ i # k
      /\ \A i \in Round(d - 1) : i \in Diagonals /\ i # k
  <2>1. \A i \in Round(d) : i \in -d .. d
    BY <1>1, RoundFacts
  <2>2. \A i \in Round(d - 1) : i \in -d .. d
    BY <1>1 DEF Round
  <2>3. \A i \in Round(d - 1) : i # k
    BY <1>1, RoundFacts
  <2>4. \A i \in Passed : i \in Round(d) /\ i # k
    BY <1>1 DEF Passed, Round
  <2> QED BY <2>1, <2>2, <2>3, <2>4, <1>1
<1>7. \A i \in Passed \cup {k} : On(g[i], i, d)
  <2> HIDE DEF On, f, g
  <2> QED BY <1>r, <1>2, <1>4, <1>6
<1>8. \A i \in Round(d - 1) : On(g[i], i, d - 1)
  <2> HIDE DEF On, f, g
  <2> QED BY <1>r, <1>4, <1>6
<1>9. ~ IsEven => \A i \in Passed \cup {k} : ~ Crossed(i)
  <2>2. k - Delta \in -(d - 1) .. d - 1 => k \in Delta - (d - 1) .. Delta + (d - 1)
    BY <1>1
  <2> HIDE DEF f, g, q, k, d
  <2>3. ~ IsEven => \A i \in Passed : i - Delta \in -(d - 1) .. d - 1 => ~ Meet(g[i], q[i])
    BY <1>r, <1>4, <1>6
  <2>4. ~ IsEven /\ k - Delta \in -(d - 1) .. d - 1 => ~ Meet(g[k], q[k])
    BY <2>2, <1>6 DEF k, d, q
  <2> QED BY <2>3, <2>4
<1>10. CASE k - 2 >= -d
  <2>1. diagonal' = k - 2 /\ phase' = "forward" /\ distance' = d
    BY <1>10 DEF NextDiagonal
  <2>2. k - 2 \in Round(d) /\ k - 2 \in Int
    BY <1>1, <1>10, RoundFacts
  <2>3. \A i \in Round(d) : i > k - 2 <=> i > k \/ i = k
    BY <1>1, RoundFacts
  <2>4. Passed' = Passed \cup {k}
    <3>1. Passed' = {i \in Round(d) : i > k - 2}
      BY <2>1 DEF Passed
    <3>2. Passed = {i \in Round(d) : i > k}
      BY DEF Passed
    <3> HIDE DEF d, k
    <3> QED BY <3>1, <3>2, <2>3, <1>1
  <2>5. d # 0
    BY <1>1, <1>5, <1>10
  <2>6. d = 1 => Common(equal, From, g[0])
    <3>1. d = 1 => k # 0 /\ 0 \in -d .. d
      BY <1>1, <1>5
    <3> HIDE DEF f, g, k, d
    <3> QED BY <3>1, <1>1, <1>4, <1>6
  <2> HIDE DEF g, q, b, k, d
  <2>7. SearchesForward'
    <3>1. 2 * distance' - 1 <= Between(equal', From', To')
      BY <2>1, <1>1, <1>3 DEF b
    <3>2. ForwardsOn(Passed, distance)'
      BY <2>1, <2>4, <1>3, <1>7 DEF ForwardsOn, g
    <3>3. ForwardsOn(Round(distance - 1), distance - 1)'
      BY <2>1, <1>3, <1>8 DEF ForwardsOn, g
    <3>4. BackwardsOn(Round(distance - 1), distance - 1)'
      BY <2>1, <1>3, <1>4 DEF BackwardsOn, q
    <3>5. (~ IsEven => \A i \in Passed :
             i - Delta \in -(distance - 1) .. distance - 1 =>
               ~ Meet(forward_paths[i], reverse_paths[i]))'
      BY <2>1, <2>4, <1>3, <1>9 DEF g, q
    <3>6. distance' # 0
      BY <2>1, <2>5
    <3>7. distance' = 1 => Common(equal', From', forward_paths'[0])
      BY <2>1, <2>6, <1>3 DEF g
    <3> QED BY <3>1, <3>2, <3>3, <3>4, <3>5, <3>6, <3>7 DEF SearchesForward
  <2>8. SearchesBack'
    BY <2>1 DEF SearchesBack
  <2>9. Searches'
    BY <2>1, <2>2, <2>7, <2>8, <1>1, <1>3 DEF Searches
  <2> QED BY <2>1, <2>2, <2>9, <1>1
<1>11. CASE ~ (k - 2 >= -d)
  <2>1. diagonal' = d /\ phase' = "reverse" /\ distance' = d
    BY <1>11 DEF NextDiagonal
  <2>2. d \in Round(d)
    BY <1>1, FirstRounds
  <2>3. \A i \in Round(d) : i \in Passed \cup {k}
    BY <1>1, <1>11, RoundFacts DEF Passed
  <2>4. Passed' = {}
    <3>1. Passed' = {i \in Round(d) : i > d}
      BY <2>1 DEF Passed
    <3>2. \A i \in Round(d) : ~ (i > d)
      BY <1>1, RoundFacts
    <3> QED BY <3>1, <3>2
  <2>5. 2 * d <= b
    <3> SUFFICES ASSUME ~ (2 * d <= b) PROVE FALSE
      OBVIOUS
    <3>1. b = d + (d - 1) /\ d - 1 \in Nat
      <4> HIDE DEF b, d
      <4> QED BY <1>1
    <3>2. ~ IsEven
      <4>1. Delta % 2 # 0
        <5> HIDE DEF b, d
        <5> QED BY <3>1, <1>1
      <4> QED BY <4>1 DEF IsEven
    <3> HIDE DEF f, g, q, b
    <3>3. PICK m \in Grid(From, To), i \in -d .. d :
             /\ (m.x - From.x) - (m.y - From.y) = i
             /\ Between(equal, From, m) = d /\ Between(equal, m, To) = d - 1
             /\ (d - i) % 2 = 0
             /\ -(d - 1) <= i - Offset(From, To) /\ i - Offset(From, To) <= d - 1
      <4>1. Between(equal, From, To) = d + (d - 1)
        BY <3>1 DEF b
      <4>2. \E m \in Grid(From, To) : \E i \in -d .. d :
             /\ (m.x - From.x) - (m.y - From.y) = i
             /\ Between(equal, From, m) = d /\ Between(equal, m, To) = d - 1
             /\ (d - i) % 2 = 0
             /\ -(d - 1) <= i - Offset(From, To) /\ i - Offset(From, To) <= d - 1
        BY <4>1, <3>1, <1>1, MiddlePoint
      <4> QED BY <4>2
    <3>4. i \in Round(d) /\ i \in Int
      BY <3>3, <1>1, RoundWith
    <3>5. On(g[i], i, d)
      BY <3>4, <2>3, <1>7
    <3>6. i - Delta \in -(d - 1) .. d - 1
      BY <3>1, <3>3, <3>4, <1>1
    <3>7. i - Delta \in Round(d - 1)
      <4>1. ((d - 1) - (i - Delta)) % 2 = 0
        <5>1. Delta % 2 # 0
          BY <3>2 DEF IsEven
        <5> HIDE DEF d, k
        <5> QED BY <5>1, <3>3, <3>4, <1>1
      <4>2. d - 1 \in Int
        BY <1>1
      <4> QED BY <4>1, <4>2, <3>6, RoundWith
    <3>8. Back(q[i], i, d - 1)
      <4>1. (i - Delta) + Delta = i
        BY <3>4, <1>1
      <4>2. Back(q[(i - Delta) + Delta], (i - Delta) + Delta, d - 1)
        BY <3>7, <1>4
      <4> QED BY <4>1, <4>2
    <3>9. q[i].x <= g[i].x
      <4>1. Between(equal, From, m) <= d /\ Between(equal, m, To) <= d - 1
        BY <3>3, <1>1
      <4> QED BY <4>1, <3>1, <3>3, <3>4, <3>5, <3>8, <1>1, NotMissed
    <3>10. Meet(g[i], q[i])
      BY <3>4, <3>5, <3>8, <3>9, <1>1, OneDiagonal
    <3>11. ~ Crossed(i)
      BY <3>2, <3>4, <2>3, <1>9
    <3> QED BY <3>6, <3>10, <3>11
  <2>6. d = 0 => Common(equal, From, g[0])
    <3>1. d = 0 => k = 0
      BY <1>1, <1>5
    <3> QED BY <3>1, <1>2, <1>6
  <2> HIDE DEF g, q, b, k, d
  <2>7. SearchesBack'
    <3>1. 2 * distance' <= Between(equal', From', To')
      BY <2>1, <2>5, <1>3 DEF b
    <3>2. ForwardsOn(Round(distance), distance)'
      BY <2>1, <2>3, <1>3, <1>7 DEF ForwardsOn, g
    <3>3. BackwardsOn(Passed, distance)'
      <4>1. \A i \in {} : FALSE
        OBVIOUS
      <4> QED BY <4>1, <2>4 DEF BackwardsOn
    <3>4. BackwardsOn(Round(distance - 1), distance - 1)'
      BY <2>1, <1>3, <1>4 DEF BackwardsOn, q
    <3>5. (IsEven => \A i \in Passed :
             i + Delta \in -distance .. distance =>
               ~ Meet(forward_paths[i + Delta], reverse_paths[i + Delta]))'
      <4>1. \A i \in {} : FALSE
        OBVIOUS
      <4> QED BY <4>1, <2>4
    <3>6. distance' = 0 => /\ reverse_paths' = [i \in Diagonals' |-> To']
                           /\ Common(equal', From', forward_paths'[0])
      BY <2>1, <2>6, <1>3, <1>4 DEF g, q
    <3> QED BY <3>1, <3>2, <3>3, <3>4, <3>5, <3>6 DEF SearchesBack
  <2>8. SearchesForward'
    BY <2>1 DEF SearchesForward
  <2>9. Searches'
    BY <2>1, <2>2, <2>7, <2>8, <1>1, <1>3 DEF Searches
  <2> QED BY <2>1, <2>9, <1>1
<1> QED BY <1>10, <1>11

\* The search from the end meets the one from the start.
LEMMA ReverseMeets ==
  ASSUME TypeOK, PartsOrdered, Searches, phase = "reverse", equal' = equal, parts' = parts,
         IsEven, diagonal + Delta \in -distance .. distance,
         Meet(forward_paths[diagonal + Delta], EndSnake),
         Found(SlideUp(EndSnake, From), EndSnake, 2 * distance)
  PROVE  /\ phase' = "snake" /\ points' \in Whole \X Whole /\ edit_distance' \in Nat
         /\ SnakeFound'
<1> DEFINE d == distance
           j == diagonal
           k == diagonal + Delta
           t == EndSnake
           s == SlideUp(EndSnake, From)
           f == forward_paths[k]
           b == Between(equal, From, To)
<1>1. /\ d \in Nat /\ j \in Int /\ j \in Round(d)
      /\ equal \in Relations /\ From \in Whole /\ To \in Whole /\ Ordered(From, To)
      /\ Delta \in Int /\ Delta = Offset(From, To)
      /\ b \in Nat /\ b > 0
  BY RoundBounds DEF Searching
<1>2. /\ t \in IntPoints /\ t.x <= To.x /\ t.y <= To.y
      /\ Backwards(equal, From, To, t, k, d)
  BY BackwardStep
<1>3. /\ phase' = "snake" /\ points' = <<s, t>> /\ edit_distance' = 2 * d
  BY DEF Found
<1>4. From' = From /\ To' = To
  BY SameParts
<1>5. -d <= j /\ j <= d /\ j \in -d .. d /\ (d - j) % 2 = 0
  BY <1>1, RoundFacts
<1>6. k \in -d .. d /\ k \in Int /\ k - Delta = j
  BY <1>1
<1>7. k \in Round(d)
  <2>1. (d - k) % 2 = 0
    <3>1. Delta % 2 = 0
      BY DEF IsEven
    <3> HIDE DEF d, j, k
    <3> QED BY <3>1, <1>1, <1>5, <1>6
  <2> QED BY <2>1, <1>1, <1>6, RoundWith
<1>8. Forwards(equal, From, To, f, k, d)
  BY <1>7 DEF Searches, SearchesBack, ForwardsOn
<1>9. t.x <= f.x
  <2>1. f.x >= t.x
    BY DEF Meet
  <2>2. f \in Points
    BY <1>8 DEF Forwards, Furthest, Beyond
  <2>3. f.x \in Int /\ t.x \in Int
    BY <2>2, <1>2 DEF Points, IntPoints
  <2> HIDE DEF f, t
  <2> QED BY <2>1, <2>3
<1>10. Furthest(Onward(equal, From, To), f, k, d)
  BY <1>8 DEF Forwards
<1>11. b >= d + d
  <2>1. 2 * d <= b
    BY DEF Searches, SearchesBack
  <2> HIDE DEF b, d
  <2> QED BY <2>1, <1>1
<1>12. -d <= k - Offset(From, To) /\ k - Offset(From, To) <= d
  BY <1>1, <1>5, <1>6
<1> HIDE DEF b, d, j, k, s, t, f
<1>13. /\ t \in Grid(From, To)
       /\ b = d + d
       /\ Between(equal, From, t) = d /\ Between(equal, t, To) = d
  BY <1>1, <1>2, <1>6, <1>9, <1>10, <1>11, <1>12, TheyMeet DEF b
<1>14. s \in Grid(From, To) /\ Common(equal, s, t)
  BY <1>1, <1>2, <1>13, SlideUpEnd DEF s, t
<1>15. Between(equal, From, s) = d
  BY <1>1, <1>13, <1>14, SnakeEnds DEF b
<1>16. s \in Whole /\ t \in Whole
  BY <1>1, <1>13, <1>14, WholeGrid
<1>17. points' \in Whole \X Whole /\ edit_distance' \in Nat /\ edit_distance' = b
  <2>1. edit_distance' = b
    BY <1>1, <1>3, <1>13 DEF d
  <2> QED BY <2>1, <1>1, <1>3, <1>16
<1>18. ~ (edit_distance' <= 1)
  BY <1>1, <1>13, <1>17
<1>19. SnakeFound'
  <2>1. points[1]' = s /\ points[2]' = t
    BY <1>3
  <2>2. /\ Between(equal, From, s) + Between(equal, t, To) = b
        /\ Between(equal, From, s) - Between(equal, t, To) \in {0, 1}
    BY <1>1, <1>13, <1>15
  <2>3. edit_distance' = Between(equal', From', To')
    BY <1>4, <1>17 DEF b
  <2>4. /\ s \in Grid(From', To') /\ t \in Grid(From', To')
        /\ Common(equal', s, t)
        /\ Between(equal', From', s) + Between(equal', t, To') = edit_distance'
        /\ Between(equal', From', s) - Between(equal', t, To') \in {0, 1}
    BY <1>4, <1>13, <1>14, <1>17, <2>2
  <2> QED BY <2>1, <2>3, <2>4, <1>18 DEF SnakeFound
<1> QED BY <1>3, <1>17, <1>19

\* It does not, and goes on with the next diagonal, or the next round begins.
LEMMA ReverseGoesOn ==
  ASSUME TypeOK, PartsOrdered, Searches, phase = "reverse", equal' = equal, parts' = parts,
         ~ /\ IsEven
           /\ diagonal + Delta \in -distance .. distance
           /\ Meet(forward_paths[diagonal + Delta], EndSnake),
         reverse_paths' = [reverse_paths EXCEPT ![diagonal + Delta] = EndSnake],
         forward_paths' = forward_paths,
         NextDiagonal(IF distance < MaxDistance THEN "forward" ELSE "exited", distance + 1)
  PROVE  /\ phase' \in {"forward", "reverse"} /\ distance' \in Nat /\ diagonal' \in Int
         /\ Searches'
<1> DEFINE d == distance
           j == diagonal
           k == diagonal + Delta
           t == EndSnake
           f == forward_paths
           q == reverse_paths
           g == reverse_paths'
           b == Between(equal, From, To)
           On(h, i, n) == Forwards(equal, From, To, h, i, n)
           Back(h, i, n) == Backwards(equal, From, To, h, i, n)
           Crossed(i) == i + Delta \in -d .. d /\ Meet(f[i + Delta], g[i + Delta])
<1>1. /\ d \in Nat /\ j \in Int /\ j \in Round(d) /\ k \in Diagonals
      /\ equal \in Relations /\ From \in Whole /\ To \in Whole /\ Ordered(From, To)
      /\ Delta \in Int /\ Delta = Offset(From, To)
      /\ b \in Nat /\ b > 0
      /\ (b - Delta) % 2 = 0
      /\ q \in [Diagonals -> IntPoints]
      /\ LengthOne \in Nat /\ LengthTwo \in Nat
      /\ LengthOne > 0 /\ LengthTwo > 0
      /\ b <= LengthOne + LengthTwo
      /\ \A i \in -d .. d : i + Delta \in Diagonals
  BY RoundBounds DEF Searching
<1>2. Back(t, k, d)
  BY BackwardStep
<1>3. /\ From' = From /\ To' = To /\ Diagonals' = Diagonals /\ Delta' = Delta
      /\ LengthOne' = LengthOne /\ LengthTwo' = LengthTwo /\ IsEven' = IsEven
  BY SameParts
<1>4. /\ 2 * d <= b
      /\ \A i \in Round(d) : On(f[i], i, d)
      /\ \A i \in Passed : Back(q[i + Delta], i + Delta, d)
      /\ \A i \in Round(d - 1) : Back(q[i + Delta], i + Delta, d - 1)
      /\ IsEven => \A i \in Passed : i + Delta \in -d .. d => ~ Meet(f[i + Delta], q[i + Delta])
      /\ d = 0 => Common(equal, From, f[0])
  BY DEF Searches, SearchesBack, ForwardsOn, BackwardsOn
<1>5. -d <= j /\ j <= d /\ j \in -d .. d /\ (d - j) % 2 = 0
  BY <1>1, RoundFacts
<1>6. g[k] = t /\ \A i \in Diagonals : i # k => g[i] = q[i]
  BY <1>1
<1>r. /\ \A i \in Passed : i + Delta \in Diagonals /\ i + Delta # k
      /\ \A i \in Round(d - 1) : i + Delta \in Diagonals /\ i + Delta # k
  <2>1. \A i \in Round(d) : i \in -d .. d
    BY <1>1, RoundFacts
  <2>2. \A i \in Round(d - 1) : i \in -d .. d /\ i \in Int
    BY <1>1 DEF Round
  <2>3. \A i \in Round(d - 1) : i # j
    BY <1>1, RoundFacts
  <2>4. \A i \in Passed : i \in Round(d) /\ i # j /\ i \in Int
    BY <1>1 DEF Passed, Round
  <2>5. \A i \in Int : i # j => i + Delta # k
    BY <1>1
  <2> HIDE DEF k, j, d
  <2> QED BY <2>1, <2>2, <2>3, <2>4, <2>5, <1>1
<1>7. \A i \in Passed \cup {j} : Back(g[i + Delta], i + Delta, d)
  <2>1. j + Delta = k
    OBVIOUS
  <2> HIDE DEF Back, q, g, t, k, j
  <2>2. \A i \in Passed : Back(g[i + Delta], i + Delta, d)
    BY <1>r, <1>4, <1>6
  <2>3. Back(g[j + Delta], j + Delta, d)
    BY <2>1, <1>2, <1>6
  <2> QED BY <2>2, <2>3
<1>8. \A i \in Round(d - 1) : Back(g[i + Delta], i + Delta, d - 1)
  <2> HIDE DEF Back, q, g, k
  <2> QED BY <1>r, <1>4, <1>6
<1>9. IsEven => \A i \in Passed \cup {j} : ~ Crossed(i)
  <2>1. j + Delta = k
    OBVIOUS
  <2>2. IsEven /\ k \in -d .. d => ~ Meet(f[k], t)
    OBVIOUS
  <2> HIDE DEF f, g, q, k, d, j, t
  <2>3. IsEven => \A i \in Passed :
          i + Delta \in -d .. d => ~ Meet(f[i + Delta], g[i + Delta])
    BY <1>r, <1>4, <1>6
  <2>4. IsEven /\ j + Delta \in -d .. d => ~ Meet(f[j + Delta], g[j + Delta])
    BY <2>1, <2>2, <1>6
  <2> QED BY <2>3, <2>4
<1>10. CASE j - 2 >= -d
  <2>1. diagonal' = j - 2 /\ phase' = "reverse" /\ distance' = d
    BY <1>10 DEF NextDiagonal
  <2>2. j - 2 \in Round(d) /\ j - 2 \in Int
    BY <1>1, <1>10, RoundFacts
  <2>3. \A i \in Round(d) : i > j - 2 <=> i > j \/ i = j
    <3>1. d \in Int
      BY <1>1
    <3> HIDE DEF d, j
    <3> QED BY <3>1, <1>1, RoundFacts
  <2>4. Passed' = Passed \cup {j}
    <3>1. Passed' = {i \in Round(d) : i > j - 2}
      BY <2>1 DEF Passed
    <3>2. Passed = {i \in Round(d) : i > j}
      BY DEF Passed
    <3> HIDE DEF d, j
    <3> QED BY <3>1, <3>2, <2>3, <1>1
  <2>5. d # 0
    BY <1>1, <1>5, <1>10
  <2> HIDE DEF f, g, q, b, k, d, j
  <2>6. SearchesBack'
    <3>1. 2 * distance' <= Between(equal', From', To')
      BY <2>1, <1>3, <1>4 DEF b
    <3>2. ForwardsOn(Round(distance), distance)'
      BY <2>1, <1>3, <1>4 DEF ForwardsOn, f
    <3>3. BackwardsOn(Passed, distance)'
      BY <2>1, <2>4, <1>3, <1>7 DEF BackwardsOn, g
    <3>4. BackwardsOn(Round(distance - 1), distance - 1)'
      BY <2>1, <1>3, <1>8 DEF BackwardsOn, g
    <3>5. (IsEven => \A i \in Passed :
             i + Delta \in -distance .. distance =>
               ~ Meet(forward_paths[i + Delta], reverse_paths[i + Delta]))'
      BY <2>1, <2>4, <1>3, <1>9 DEF f, g
    <3>6. distance' # 0
      BY <2>1, <2>5
    <3> QED BY <3>1, <3>2, <3>3, <3>4, <3>5, <3>6 DEF SearchesBack
  <2>7. SearchesForward'
    BY <2>1 DEF SearchesForward
  <2>8. Searches'
    BY <2>1, <2>2, <2>6, <2>7, <1>1, <1>3 DEF Searches
  <2> QED BY <2>1, <2>2, <2>8, <1>1
<1>11. CASE ~ (j - 2 >= -d)
  <2>1. /\ diagonal' = d + 1 /\ distance' = d + 1
        /\ phase' = IF d < MaxDistance THEN "forward" ELSE "exited"
    BY <1>11 DEF NextDiagonal
  <2>2. d + 1 \in Nat /\ d + 1 \in Int /\ (d + 1) - 1 = d
    BY <1>1
  <2>3. d + 1 \in Round(d + 1)
    BY <2>2, FirstRounds
  <2>4. \A i \in Round(d) : i \in Passed \cup {j}
    BY <1>1, <1>11, RoundFacts DEF Passed
  <2>5. Passed' = {}
    <3>1. Passed' = {i \in Round(d + 1) : i > d + 1}
      BY <2>1 DEF Passed
    <3> DEFINE n == d + 1
    <3>3. n \in Int
      BY <2>2
    <3> HIDE DEF n
    <3>4. \A i \in Round(n) : i \in Int /\ i <= n
      BY <3>3, RoundFacts
    <3>5. \A i \in Round(n) : ~ (i > n)
      BY <3>3, <3>4
    <3>2. \A i \in Round(d + 1) : ~ (i > d + 1)
      BY <3>5 DEF n
    <3> QED BY <3>1, <3>2
  <2>6. 2 * d + 1 <= b
    <3> SUFFICES ASSUME ~ (2 * d + 1 <= b) PROVE FALSE
      OBVIOUS
    <3>1. b = d + d
      <4> HIDE DEF b, d
      <4> QED BY <1>1, <1>4
    <3>2. IsEven
      <4>1. Delta % 2 = 0
        <5> HIDE DEF b, d
        <5> QED BY <3>1, <1>1
      <4> QED BY <4>1 DEF IsEven
    <3> HIDE DEF f, g, q, b
    <3>3. PICK m \in Grid(From, To), i \in -d .. d :
             /\ (m.x - From.x) - (m.y - From.y) = i
             /\ Between(equal, From, m) = d /\ Between(equal, m, To) = d
             /\ (d - i) % 2 = 0
             /\ -d <= i - Offset(From, To) /\ i - Offset(From, To) <= d
      <4>1. Between(equal, From, To) = d + d
        BY <3>1 DEF b
      <4>2. \E m \in Grid(From, To) : \E i \in -d .. d :
             /\ (m.x - From.x) - (m.y - From.y) = i
             /\ Between(equal, From, m) = d /\ Between(equal, m, To) = d
             /\ (d - i) % 2 = 0
             /\ -d <= i - Offset(From, To) /\ i - Offset(From, To) <= d
        BY <4>1, <1>1, MiddlePoint
      <4> QED BY <4>2
    <3>4. i \in Round(d) /\ i \in Int
      BY <3>3, <1>1, RoundWith
    <3>5. On(f[i], i, d)
      BY <3>4, <1>4
    <3>6. i - Delta \in -d .. d /\ (i - Delta) + Delta = i
      BY <3>3, <3>4, <1>1
    <3>7. i - Delta \in Round(d)
      <4>1. (d - (i - Delta)) % 2 = 0
        <5>1. Delta % 2 = 0
          BY <3>2 DEF IsEven
        <5> HIDE DEF d, j
        <5> QED BY <5>1, <3>3, <3>4, <1>1
      <4>2. d \in Int
        BY <1>1
      <4> QED BY <4>1, <4>2, <3>6, RoundWith
    <3>8. Back(g[i], i, d)
      <4>1. Back(g[(i - Delta) + Delta], (i - Delta) + Delta, d)
        BY <3>7, <2>4, <1>7
      <4> QED BY <4>1, <3>6
    <3>9. g[i].x <= f[i].x
      <4>1. Between(equal, From, m) <= d /\ Between(equal, m, To) <= d
        BY <3>3, <1>1
      <4> QED BY <4>1, <3>3, <3>4, <3>5, <3>8, <1>1, NotMissed
    <3>10. Meet(f[i], g[i])
      BY <3>4, <3>5, <3>8, <3>9, <1>1, OneDiagonal
    <3>11. ~ Crossed(i - Delta)
      BY <3>2, <3>7, <2>4, <1>9
    <3> QED BY <3>3, <3>6, <3>10, <3>11
  <2>7. phase' = "forward"
    <3>1. d < MaxDistance
      <4> DEFINE m == LengthOne
                 n == LengthTwo
      <4>1. MaxDistance = (m + n + 1) \div 2 + 1
        BY DEF MaxDistance, HalfUp
      <4>2. m \in Nat /\ n \in Nat /\ d \in Nat /\ b \in Nat /\ b <= m + n /\ 2 * d + 1 <= b
        BY <2>6, <1>1
      <4> HIDE DEF m, n, d, b
      <4>3. d < (m + n + 1) \div 2 + 1
        BY <4>2
      <4> QED BY <4>1, <4>3
    <3> QED BY <3>1, <2>1
  <2>8. d + 1 = 1 => d = 0
    BY <1>1
  <2>9. 2 * (d + 1) - 1 <= b
    <3> HIDE DEF d, b
    <3> QED BY <2>6, <1>1
  <2>10. d + 1 # 0
    BY <1>1
  <2> HIDE DEF f, g, q, b, k, d, j
  <2>11. SearchesForward'
    <3>1. 2 * distance' - 1 <= Between(equal', From', To')
      BY <2>1, <2>9, <1>3 DEF b
    <3>2. ForwardsOn(Passed, distance)'
      <4>1. \A i \in {} : FALSE
        OBVIOUS
      <4> QED BY <4>1, <2>5 DEF ForwardsOn
    <3>3. ForwardsOn(Round(distance - 1), distance - 1)'
      BY <2>1, <2>2, <1>3, <1>4 DEF ForwardsOn, f
    <3>4. BackwardsOn(Round(distance - 1), distance - 1)'
      BY <2>1, <2>2, <2>4, <1>3, <1>7 DEF BackwardsOn, g
    <3>5. (~ IsEven => \A i \in Passed :
             i - Delta \in -(distance - 1) .. distance - 1 =>
               ~ Meet(forward_paths[i], reverse_paths[i]))'
      <4>1. \A i \in {} : FALSE
        OBVIOUS
      <4> QED BY <4>1, <2>5
    <3>6. distance' # 0
      BY <2>1, <2>10
    <3>7. distance' = 1 => Common(equal', From', forward_paths'[0])
      BY <2>1, <2>8, <1>3, <1>4 DEF f
    <3> QED BY <3>1, <3>2, <3>3, <3>4, <3>5, <3>6, <3>7 DEF SearchesForward
  <2>12. SearchesBack'
    BY <2>7 DEF SearchesBack
  <2>13. Searches'
    BY <2>1, <2>3, <2>7, <2>11, <2>12, <1>1, <1>3 DEF Searches
  <2> QED BY <2>1, <2>2, <2>7, <2>13, <1>1
<1> QED BY <1>10, <1>11
-----------------------------------------------------------------------------
\* compute_middle_snake, a diagonal of the search that goes on.
LEMMA ExtendForwardStep ==
  ASSUME IInv, ExtendForward
  PROVE  IInv'
<1> DEFINE end == SlideDown(StartSnake, To)
           met == /\ ~ IsEven
                  /\ diagonal \in Delta - (distance - 1) .. Delta + (distance - 1)
                  /\ Meet(end, reverse_paths[diagonal])
<1>1. TypeOK /\ PartsOrdered /\ PartsSpend /\ Searches /\ SnakeFound /\ NothingMissed
  BY DEF IInv
<1>2. /\ phase = "forward" /\ equal' = equal /\ threshold' = threshold /\ parts' = parts
      /\ reverse_paths' = reverse_paths
      /\ script' = script /\ merged' = merged /\ edits' = edits /\ failed' = failed
      /\ forward_paths' = [forward_paths EXCEPT ![diagonal] = end]
  BY DEF ExtendForward, input, lists
<1>3. \/ met /\ Found(StartSnake, end, 2 * distance - 1)
      \/ ~ met /\ NextDiagonal("reverse", distance) /\ UNCHANGED snake
  BY DEF ExtendForward
<1>4. end \in Points
  BY <1>1, <1>2, ForwardStep
<1>5. /\ forward_paths \in [Diagonals -> Points]
      /\ reverse_paths \in [Diagonals -> IntPoints]
      /\ points \in Whole \X Whole /\ edit_distance \in Nat
      /\ distance \in Nat /\ diagonal \in Int
  BY <1>1, <1>2 DEF TypeOK, Searching
<1>6. Diagonals' = Diagonals
  BY <1>2, SameParts
<1>7. /\ forward_paths' \in [Diagonals' -> Points]
      /\ reverse_paths' \in [Diagonals' -> IntPoints]
  <2> HIDE DEF end
  <2> QED BY <1>2, <1>4, <1>5, <1>6
<1> HIDE DEF end
<1>8. /\ phase' \in {"forward", "reverse", "snake"}
      /\ distance' \in Nat /\ diagonal' \in Int
      /\ points' \in Whole \X Whole /\ edit_distance' \in Nat
      /\ Searches' /\ SnakeFound'
  <2>1. CASE met /\ Found(StartSnake, end, 2 * distance - 1)
    <3>1. /\ phase' = "snake" /\ points' \in Whole \X Whole /\ edit_distance' \in Nat
          /\ SnakeFound'
      BY <2>1, <1>1, <1>2, ForwardMeets DEF end
    <3>2. distance' = distance /\ diagonal' = diagonal
      BY <2>1 DEF Found
    <3>3. LengthOne' > 0 /\ LengthTwo' > 0
      <4>1. LengthOne > 0 /\ LengthTwo > 0
        BY <1>1, <1>2 DEF Searches
      <4> QED BY <4>1, <1>2, SameParts
    <3>4. Searches'
      BY <3>1, <3>3 DEF Searches, Searching, SearchesForward, SearchesBack
    <3> QED BY <3>1, <3>2, <3>4, <1>5
  <2>2. CASE ~ met /\ NextDiagonal("reverse", distance) /\ UNCHANGED snake
    <3>1. /\ phase' \in {"forward", "reverse"} /\ distance' \in Nat /\ diagonal' \in Int
          /\ Searches'
      BY <2>2, <1>1, <1>2, ForwardGoesOn DEF end
    <3>2. points' = points /\ edit_distance' = edit_distance
      BY <2>2 DEF snake
    <3>3. SnakeFound'
      BY <3>1 DEF SnakeFound
    <3> QED BY <3>1, <3>2, <3>3, <1>5
  <2> QED BY <1>3, <2>1, <2>2
<1>9. TypeOK'
  BY <1>1, <1>2, <1>7, <1>8 DEF TypeOK
<1>10. PartsOrdered' /\ PartsSpend' /\ NothingMissed'
  BY <1>1, <1>2, <1>8, StillSearching DEF Solving
<1>11. Paired'
  BY <1>2, <1>8 DEF IInv, Paired
<1> QED BY <1>8, <1>9, <1>10, <1>11 DEF IInv

\* compute_middle_snake, a diagonal of the search that goes back.
LEMMA ExtendReverseStep ==
  ASSUME IInv, ExtendReverse
  PROVE  IInv'
<1> DEFINE k == diagonal + Delta
           next == IF distance < MaxDistance THEN "forward" ELSE "exited"
           met == /\ IsEven
                  /\ k \in -distance .. distance
                  /\ Meet(forward_paths[k], EndSnake)
<1>1. TypeOK /\ PartsOrdered /\ PartsSpend /\ Searches /\ SnakeFound /\ NothingMissed
  BY DEF IInv
<1>2. /\ phase = "reverse" /\ equal' = equal /\ threshold' = threshold /\ parts' = parts
      /\ forward_paths' = forward_paths
      /\ script' = script /\ merged' = merged /\ edits' = edits /\ failed' = failed
      /\ reverse_paths' = [reverse_paths EXCEPT ![k] = EndSnake]
  BY DEF ExtendReverse, input, lists
<1>3. \/ met /\ Found(SlideUp(EndSnake, From), EndSnake, 2 * distance)
      \/ ~ met /\ NextDiagonal(next, distance + 1) /\ UNCHANGED snake
  BY DEF ExtendReverse
<1>4. EndSnake \in IntPoints
  BY <1>1, <1>2, BackwardStep
<1>5. /\ forward_paths \in [Diagonals -> Points]
      /\ reverse_paths \in [Diagonals -> IntPoints]
      /\ points \in Whole \X Whole /\ edit_distance \in Nat
      /\ distance \in Nat /\ diagonal \in Int
  BY <1>1, <1>2 DEF TypeOK, Searching
<1>6. Diagonals' = Diagonals
  BY <1>2, SameParts
<1>7. /\ forward_paths' \in [Diagonals' -> Points]
      /\ reverse_paths' \in [Diagonals' -> IntPoints]
  <2> HIDE DEF k
  <2> QED BY <1>2, <1>4, <1>5, <1>6
<1>8. /\ phase' \in {"forward", "reverse", "snake"}
      /\ distance' \in Nat /\ diagonal' \in Int
      /\ points' \in Whole \X Whole /\ edit_distance' \in Nat
      /\ Searches' /\ SnakeFound'
  <2>1. CASE met /\ Found(SlideUp(EndSnake, From), EndSnake, 2 * distance)
    <3>1. /\ phase' = "snake" /\ points' \in Whole \X Whole /\ edit_distance' \in Nat
          /\ SnakeFound'
      BY <2>1, <1>1, <1>2, ReverseMeets
    <3>2. distance' = distance /\ diagonal' = diagonal
      BY <2>1 DEF Found
    <3>3. LengthOne' > 0 /\ LengthTwo' > 0
      <4>1. LengthOne > 0 /\ LengthTwo > 0
        BY <1>1, <1>2 DEF Searches
      <4> QED BY <4>1, <1>2, SameParts
    <3>4. Searches'
      BY <3>1, <3>3 DEF Searches, Searching, SearchesForward, SearchesBack
    <3> QED BY <3>1, <3>2, <3>4, <1>5
  <2>2. CASE ~ met /\ NextDiagonal(next, distance + 1) /\ UNCHANGED snake
    <3>1. /\ phase' \in {"forward", "reverse"} /\ distance' \in Nat /\ diagonal' \in Int
          /\ Searches'
      BY <2>2, <1>1, <1>2, ReverseGoesOn
    <3>2. points' = points /\ edit_distance' = edit_distance
      BY <2>2 DEF snake
    <3>3. SnakeFound'
      BY <3>1 DEF SnakeFound
    <3> QED BY <3>1, <3>2, <3>3, <1>5
  <2> QED BY <1>3, <2>1, <2>2
<1>9. TypeOK'
  BY <1>1, <1>2, <1>7, <1>8 DEF TypeOK
<1>10. PartsOrdered' /\ PartsSpend' /\ NothingMissed'
  BY <1>1, <1>2, <1>8, StillSearching DEF Solving
<1>11. Paired'
  BY <1>2, <1>8 DEF IInv, Paired
<1> QED BY <1>8, <1>9, <1>10, <1>11 DEF IInv

\* compute_middle_snake, before its first round.
LEMMA BeginMiddleSnakeKeeps ==
  ASSUME IInv, BeginMiddleSnake
  PROVE  IInv'
<1>1. TypeOK /\ PartsOrdered /\ PartsSpend
  BY DEF IInv
<1>2. /\ phase = "solve" /\ equal' = equal /\ threshold' = threshold /\ parts' = parts
      /\ points' = points /\ edit_distance' = edit_distance
      /\ script' = script /\ merged' = merged /\ edits' = edits /\ failed' = failed
  BY DEF BeginMiddleSnake, input, lists, snake
<1>3. /\ phase' = "forward"
      /\ distance' \in Nat /\ diagonal' \in Int
      /\ forward_paths' \in [Diagonals' -> Points]
      /\ reverse_paths' \in [Diagonals' -> IntPoints]
      /\ Searches'
  BY <1>1, BeginMiddleSnakeStep
<1>4. TypeOK'
  BY <1>1, <1>2, <1>3 DEF TypeOK
<1>5. PartsOrdered' /\ PartsSpend' /\ NothingMissed'
  BY <1>1, <1>2, <1>3, StillSearching DEF Solving
<1>6. SnakeFound'
  BY <1>3 DEF SnakeFound
<1>7. Paired'
  BY <1>2, <1>3 DEF IInv, Paired
<1> QED BY <1>3, <1>4, <1>5, <1>6, <1>7 DEF IInv

\* A step that leaves the search and takes parts off.
LEMMA OffSearch ==
  ASSUME TypeOK, Paired, equal' = equal, threshold' = threshold,
         distance' = distance, diagonal' = diagonal,
         points' = points, edit_distance' = edit_distance,
         merged' = merged, edits' = edits, failed' \in BOOLEAN,
         parts' \in Seq(PartTypes), script' \in Seq(Edits),
         phase \notin {"collect", "done"},
         phase' \in {"solve", "merge", "crashed"}
  PROVE  TypeOK' /\ Searches' /\ SnakeFound' /\ Paired'
<1>1. TypeOK'
  BY DEF TypeOK, Searching
<1>2. Searches'
  BY DEF Searches, Searching, SearchesForward, SearchesBack
<1>3. SnakeFound'
  BY DEF SnakeFound
<1>4. Paired'
  BY DEF Paired
<1> QED BY <1>1, <1>2, <1>3, <1>4

\* A part within the threshold is solved.
LEMMA SolveAtOnceKeeps ==
  ASSUME IInv, SolveAtOnce
  PROVE  IInv'
<1>1. TypeOK /\ PartsOrdered /\ PartsSpend /\ Paired
  BY DEF IInv
<1>2. /\ phase = "solve" /\ equal' = equal /\ threshold' = threshold
      /\ distance' = distance /\ diagonal' = diagonal
      /\ points' = points /\ edit_distance' = edit_distance
      /\ merged' = merged /\ edits' = edits /\ failed' = failed
  BY DEF SolveAtOnce, input, lists, snake, paths
<1>3. failed' \in BOOLEAN
  BY <1>1, <1>2 DEF TypeOK
<1>4. /\ parts' \in Seq(PartTypes) /\ script' \in Seq(Edits)
      /\ phase' \in {"solve", "merge", "crashed"}
      /\ PartsOrdered' /\ PartsSpend' /\ NothingMissed'
  BY <1>1, SolveAtOnceStep
<1> QED BY <1>1, <1>2, <1>3, <1>4, OffSearch DEF IInv

\* The search within a part fails.
LEMMA SolveFailsKeeps ==
  ASSUME IInv, SolveFails
  PROVE  IInv'
<1>1. TypeOK /\ PartsOrdered /\ PartsSpend /\ Paired
  BY DEF IInv
<1>2. /\ phase = "solve" /\ equal' = equal /\ threshold' = threshold
      /\ distance' = distance /\ diagonal' = diagonal
      /\ points' = points /\ edit_distance' = edit_distance
      /\ merged' = merged /\ edits' = edits /\ failed' \in BOOLEAN
  BY DEF SolveFails, input, lists, snake, paths
<1>3. /\ parts' \in Seq(PartTypes) /\ script' \in Seq(Edits)
      /\ phase' \in {"solve", "merge", "crashed"}
      /\ PartsOrdered' /\ PartsSpend' /\ NothingMissed'
  BY <1>1, SolveFailsStep
<1> QED BY <1>1, <1>2, <1>3, OffSearch DEF IInv

\* A part that is empty on one side is solved.
LEMMA OneSidedKeeps ==
  ASSUME IInv, OneSided
  PROVE  IInv'
<1>1. TypeOK /\ PartsOrdered /\ PartsSpend /\ Paired
  BY DEF IInv
<1>2. /\ phase = "solve" /\ equal' = equal /\ threshold' = threshold
      /\ distance' = distance /\ diagonal' = diagonal
      /\ points' = points /\ edit_distance' = edit_distance
      /\ merged' = merged /\ edits' = edits /\ failed' = failed
  BY DEF OneSided, input, lists, snake, paths
<1>3. failed' \in BOOLEAN
  BY <1>1, <1>2 DEF TypeOK
<1>4. /\ parts' \in Seq(PartTypes) /\ script' \in Seq(Edits)
      /\ phase' \in {"solve", "merge", "crashed"}
      /\ PartsOrdered' /\ PartsSpend' /\ NothingMissed'
  BY <1>1, OneSidedStep
<1> QED BY <1>1, <1>2, <1>3, <1>4, OffSearch DEF IInv

\* A part with a single edit is solved.
LEMMA LeaveSingleKeeps ==
  ASSUME IInv, LeaveSingle
  PROVE  IInv'
<1>1. TypeOK /\ PartsOrdered /\ PartsSpend /\ Searches /\ SnakeFound /\ Paired
  BY DEF IInv
<1>2. /\ phase = "snake" /\ equal' = equal /\ threshold' = threshold
      /\ distance' = distance /\ diagonal' = diagonal
      /\ points' = points /\ edit_distance' = edit_distance
      /\ merged' = merged /\ edits' = edits /\ failed' = failed
  BY DEF LeaveSingle, input, lists, snake, paths
<1>3. failed' \in BOOLEAN
  BY <1>1, <1>2 DEF TypeOK
<1>4. /\ parts' \in Seq(PartTypes) /\ script' \in Seq(Edits)
      /\ phase' \in {"solve", "merge", "crashed"}
      /\ PartsOrdered' /\ PartsSpend' /\ NothingMissed'
  BY <1>1, LeaveSingleStep
<1> QED BY <1>1, <1>2, <1>3, <1>4, OffSearch DEF IInv

\* A part is split at its middle snake.
LEMMA SplitKeeps ==
  ASSUME IInv, Split
  PROVE  IInv'
<1>1. TypeOK /\ PartsOrdered /\ PartsSpend /\ SnakeFound /\ Paired
  BY DEF IInv
<1>2. /\ phase = "snake" /\ phase' = "solve" /\ equal' = equal /\ threshold' = threshold
      /\ distance' = distance /\ diagonal' = diagonal
      /\ points' = points /\ edit_distance' = edit_distance
      /\ script' = script /\ merged' = merged /\ edits' = edits /\ failed' = failed
  BY DEF Split, input, lists, snake, paths
<1>3. failed' \in BOOLEAN /\ script' \in Seq(Edits)
  BY <1>1, <1>2 DEF TypeOK
<1>4. parts' \in Seq(PartTypes) /\ PartsOrdered' /\ PartsSpend'
  BY <1>1, SplitStep
<1>5. NothingMissed'
  BY <1>2 DEF NothingMissed
<1> QED BY <1>1, <1>2, <1>3, <1>4, <1>5, OffSearch DEF IInv

\* compute begins.
LEMMA BeginKeeps ==
  ASSUME IInv, Begin
  PROVE  IInv'
<1>1. TypeOK /\ PartsSpend /\ Paired
  BY DEF IInv
<1>2. /\ phase = "start" /\ phase' = "solve" /\ equal' = equal /\ threshold' = threshold
      /\ distance' = distance /\ diagonal' = diagonal
      /\ points' = points /\ edit_distance' = edit_distance
      /\ script' = script /\ merged' = merged /\ edits' = edits /\ failed' = failed
  BY DEF Begin, input, lists, snake, paths
<1>3. failed' \in BOOLEAN /\ script' \in Seq(Edits)
  BY <1>1, <1>2 DEF TypeOK
<1>4. parts' \in Seq(PartTypes) /\ PartsOrdered' /\ PartsSpend'
  BY <1>1, BeginStep
<1>5. NothingMissed'
  BY <1>2 DEF NothingMissed
<1> QED BY <1>1, <1>2, <1>3, <1>4, <1>5, OffSearch DEF IInv
-----------------------------------------------------------------------------
(***************************************************************************)
(* The lists.                                                              *)
(***************************************************************************)
\* A script with edits has a length.
LEMMA TotalPositive ==
  ASSUME NEW es \in Seq(Edits), es # <<>>
  PROVE  Total(es) \in Nat \ {0}
<1> DEFINE a == <<es[1]>>
           t == Tail(es)
<1>1. /\ a \in Seq(Edits) /\ t \in Seq(Edits) /\ es[1] \in Edits
      /\ Len(es) \in Nat /\ Len(es) > 0 /\ Len(t) = Len(es) - 1 /\ Len(a) = 1 /\ a[1] = es[1]
      /\ \A i \in 1 .. Len(es) - 1 : t[i] = es[i + 1]
  BY EmptySeq
<1>2. a \o t = es
  <2>1. /\ a \o t \in Seq(Edits)
        /\ Len(a \o t) = Len(a) + Len(t)
        /\ \A i \in 1 .. Len(a) + Len(t) :
             (a \o t)[i] = IF i <= Len(a) THEN a[i] ELSE t[i - Len(a)]
    BY <1>1, ConcatProperties
  <2>2. ASSUME NEW i \in 1 .. Len(es) PROVE (a \o t)[i] = es[i]
    <3>1. CASE i = 1
      BY <3>1, <2>1, <1>1
    <3>2. CASE i # 1
      <4> DEFINE j == i - 1
      <4>1. j \in 1 .. Len(es) - 1 /\ j + 1 = i /\ ~ (i <= 1)
        BY <3>2
      <4> HIDE DEF j, a, t
      <4>2. t[j] = es[i]
        BY <4>1, <1>1
      <4>3. (a \o t)[i] = t[i - 1]
        BY <4>1, <2>1, <1>1
      <4> QED BY <4>2, <4>3 DEF j
    <3> QED BY <3>1, <3>2
  <2>3. Len(a \o t) = Len(es)
    BY <2>1, <1>1
  <2> HIDE DEF a, t
  <2> QED BY <2>1, <2>2, <2>3, SeqEqual
<1> HIDE DEF a, t
<1>3. Total(es) = Total(a) + Total(t)
  BY <1>1, <1>2, TotalConcat
<1>4. Total(a) = es[1].length /\ es[1].length \in Nat \ {0}
  BY <1>1, TotalOne DEF a, Edits
<1>5. Total(t) \in Nat
  BY <1>1, TotalNat
<1> QED BY <1>3, <1>4, <1>5

\* A step of merge_sequential_edits or of compute.
LEMMA AfterSearch ==
  ASSUME TypeOK, PartsOrdered, equal' = equal, threshold' = threshold, parts' = parts,
         distance' = distance, diagonal' = diagonal,
         points' = points, edit_distance' = edit_distance, failed' = failed,
         script' \in Seq(Edits), merged' \in Seq(Edits), edits' \in Seq(SesEdits),
         phase' \in {"merge", "collect", "done"}
  PROVE  TypeOK' /\ PartsOrdered' /\ PartsSpend' /\ Searches' /\ SnakeFound' /\ NothingMissed'
<1>1. TypeOK'
  BY DEF TypeOK, Searching
<1>2. PartsOrdered' /\ PartsSpend' /\ NothingMissed' /\ SnakeFound'
  BY DEF PartsOrdered, PartsSpend, NothingMissed, SnakeFound, Solving
<1>3. Searches'
  BY DEF Searches, Searching, SearchesForward, SearchesBack
<1> QED BY <1>1, <1>2, <1>3

\* merge_sequential_edits goes on to the next edit.
LEMMA MergeKeeps ==
  ASSUME IInv, Merge
  PROVE  IInv'
<1>1. TypeOK /\ PartsOrdered /\ Paired /\ script \in Seq(Edits) /\ merged \in Seq(Edits)
      /\ edits \in Seq(SesEdits)
  BY DEF IInv, TypeOK
<1>2. /\ phase = "merge" /\ phase' = "merge" /\ equal' = equal /\ threshold' = threshold
      /\ parts' = parts /\ distance' = distance /\ diagonal' = diagonal
      /\ points' = points /\ edit_distance' = edit_distance
      /\ edits' = edits /\ failed' = failed
  BY DEF Merge, input, snake, paths
<1>3. PICK n \in 1 .. Len(script) :
        /\ merged' = Append(merged, [script[1] EXCEPT !.length = Total(SubSeq(script, 1, n))])
        /\ script' = SubSeq(script, n + 1, Len(script))
  BY DEF Merge
<1> DEFINE es == SubSeq(script, 1, n)
           e == [script[1] EXCEPT !.length = Total(es)]
<1>4. /\ Len(script) \in Nat /\ n \in Nat /\ n >= 1 /\ n <= Len(script)
      /\ script[1] \in Edits
  BY <1>1
<1>5. es \in Seq(Edits) /\ Len(es) = n
  BY <1>1, <1>4, SubSeqProperties
<1>6. script' \in Seq(Edits)
  <2>1. n + 1 \in 1 .. Len(script) + 1 /\ Len(script) \in (n + 1) - 1 .. Len(script)
    BY <1>4
  <2> QED BY <2>1, <1>1, <1>3, SubSeqProperties
<1>7. e \in Edits
  <2>1. es # <<>>
    BY <1>4, <1>5
  <2>2. Total(es) \in Nat \ {0}
    BY <2>1, <1>5, TotalPositive
  <2> HIDE DEF es
  <2> QED BY <2>2, <1>4 DEF Edits
<1> HIDE DEF e
<1>8. merged' \in Seq(Edits)
  BY <1>1, <1>3, <1>7, AppendProperties DEF e
<1>9. edits' = <<>>
  BY <1>1, <1>2 DEF Paired
<1>10. Paired'
  BY <1>9 DEF Paired
<1> QED BY <1>1, <1>2, <1>6, <1>8, <1>10, AfterSearch DEF IInv

\* merge_sequential_edits has come to the end of the list.
LEMMA MergedKeeps ==
  ASSUME IInv, Merged
  PROVE  IInv'
<1>1. TypeOK /\ PartsOrdered /\ Paired /\ script \in Seq(Edits) /\ merged \in Seq(Edits)
      /\ edits \in Seq(SesEdits)
  BY DEF IInv, TypeOK
<1>2. /\ phase = "merge" /\ phase' = "collect" /\ equal' = equal /\ threshold' = threshold
      /\ parts' = parts /\ distance' = distance /\ diagonal' = diagonal
      /\ points' = points /\ edit_distance' = edit_distance
      /\ script' = script /\ merged' = merged /\ edits' = edits /\ failed' = failed
  BY DEF Merged, input, snake, paths, lists
<1>3. edits' = <<>>
  BY <1>1, <1>2 DEF Paired
<1>4. Paired'
  BY <1>3 DEF Paired
<1> QED BY <1>1, <1>2, <1>4, AfterSearch DEF IInv

\* compute returns what it has collected.
LEMMA ReturnKeeps ==
  ASSUME IInv, Return
  PROVE  IInv'
<1>1. TypeOK /\ PartsOrdered /\ Paired /\ script \in Seq(Edits) /\ merged \in Seq(Edits)
      /\ edits \in Seq(SesEdits)
  BY DEF IInv, TypeOK
<1>2. /\ phase = "collect" /\ phase' = "done" /\ equal' = equal /\ threshold' = threshold
      /\ parts' = parts /\ distance' = distance /\ diagonal' = diagonal
      /\ points' = points /\ edit_distance' = edit_distance
      /\ script' = script /\ merged' = merged /\ edits' = edits /\ failed' = failed
  BY DEF Return, input, snake, paths, lists
<1>3. Paired'
  BY <1>1, <1>2 DEF Paired
<1> QED BY <1>1, <1>2, <1>3, AfterSearch DEF IInv

\* compute collects the next edit, or the next two as one change.
LEMMA CollectKeeps ==
  ASSUME IInv, Collect
  PROVE  IInv'
<1>1. TypeOK /\ PartsOrdered /\ Paired /\ script \in Seq(Edits) /\ merged \in Seq(Edits)
      /\ edits \in Seq(SesEdits)
  BY DEF IInv, TypeOK
<1>2. /\ phase = "collect" /\ phase' = "collect" /\ equal' = equal /\ threshold' = threshold
      /\ parts' = parts /\ distance' = distance /\ diagonal' = diagonal
      /\ points' = points /\ edit_distance' = edit_distance
      /\ script' = script /\ failed' = failed /\ merged # <<>>
  BY DEF Collect, input, snake, paths
<1>3. /\ \A i \in 1 .. Len(edits) - 1 : ~ Replaced(edits[i], edits[i + 1])
      /\ edits # <<>> => ~ Unpaired(edits[Len(edits)], merged[1])
  BY <1>1, <1>2 DEF Paired
<1> DEFINE e == merged[1]
           f == merged[2]
           change == SesEdit("CHANGE", e.one, e.length, f.two, f.length)
           plain == IF e.operation = "SES_DELETE"
                    THEN SesEdit("DELETE", e.one, e.length, e.two, 0)
                    ELSE SesEdit("INSERT", e.one, 0, e.two, e.length)
<1>4. /\ Len(merged) \in Nat /\ Len(merged) > 0
      /\ e \in Edits /\ e.operation \in Operations
      /\ e.one \in Nat /\ e.two \in Nat /\ e.length \in Nat
  <2>1. Len(merged) \in Nat /\ Len(merged) > 0
    BY <1>1, <1>2
  <2>2. e \in Edits
    BY <2>1, <1>1
  <2> QED BY <2>1, <2>2 DEF Edits
<1>5. /\ Tail(merged) \in Seq(Edits) /\ Len(Tail(merged)) = Len(merged) - 1
      /\ Len(merged) > 1 => Tail(merged) # <<>> /\ Tail(merged)[1] = f
  <2> DEFINE t == Tail(merged)
  <2>1. t \in Seq(Edits) /\ Len(t) = Len(merged) - 1
        /\ \A i \in 1 .. Len(merged) - 1 : t[i] = merged[i + 1]
    BY <1>1, <1>2, <1>4
  <2> HIDE DEF t
  <2>2. Len(merged) > 1 => Len(t) > 0 /\ 1 \in 1 .. Len(merged) - 1 /\ 1 + 1 = 2
    BY <2>1, <1>4
  <2>3. Len(t) > 0 => t # <<>>
    BY <2>1
  <2>4. Len(merged) > 1 => t # <<>> /\ t[1] = merged[2]
    BY <2>1, <2>2, <2>3
  <2> QED BY <2>1, <2>4 DEF t
<1>6. PICK u \in SesEdits :
        /\ edits' = Append(edits, u)
        /\ merged' \in Seq(Edits)
        /\ u.operation = "INSERT" => e.operation = "SES_INSERT" /\ u.original_offset = e.one
        /\ merged' # <<>> => ~ Unpaired(u, merged'[1])
  <2>1. CASE IsChange(merged)
    <3>1. edits' = Append(edits, change) /\ merged' = Tail(Tail(merged))
      BY <2>1 DEF Collect
    <3>2. Len(merged) > 1
      BY <2>1 DEF IsChange
    <3>3. merged' \in Seq(Edits)
      <4> DEFINE t == Tail(merged)
      <4>1. t \in Seq(Edits) /\ t # <<>> /\ merged' = Tail(t)
        BY <3>1, <3>2, <1>5
      <4> HIDE DEF t
      <4> QED BY <4>1
    <3>4. f \in Edits
      BY <3>2, <1>1
    <3>5. /\ change.operation = "CHANGE" /\ change \in SesEdits
      BY <3>4, <1>4 DEF SesEdit, SesEdits, Edits
    <3> HIDE DEF change
    <3>6. change.operation # "INSERT" /\ change.operation # "DELETE"
      BY <3>5
    <3> QED BY <3>1, <3>3, <3>5, <3>6 DEF Unpaired
  <2>2. CASE ~ IsChange(merged)
    <3>1. edits' = Append(edits, plain) /\ merged' = Tail(merged)
      BY <2>2 DEF Collect
    <3>2. merged' \in Seq(Edits)
      BY <3>1, <1>5
    <3>3. merged' # <<>> => Len(merged) > 1 /\ merged'[1] = f
      <4>1. merged' # <<>> => Len(merged') > 0
        BY <3>2
      <4> QED BY <4>1, <3>1, <1>4, <1>5
    <3>4. CASE e.operation = "SES_DELETE"
      <4>1. plain = SesEdit("DELETE", e.one, e.length, e.two, 0)
        BY <3>4
      <4>2. /\ plain.operation = "DELETE" /\ plain \in SesEdits
            /\ plain.original_offset = e.one /\ plain.original_length = e.length
        BY <4>1, <1>4 DEF SesEdit, SesEdits
      <4>3. merged' # <<>> => ~ (/\ f.operation = "SES_INSERT"
                                 /\ e.one + e.length = f.one)
        BY <2>2, <3>3, <3>4 DEF IsChange
      <4> HIDE DEF plain
      <4>4. plain.operation # "INSERT"
        BY <4>2
      <4> QED BY <3>1, <3>2, <3>3, <4>2, <4>3, <4>4 DEF Unpaired
    <3>5. CASE e.operation = "SES_INSERT"
      <4>1. plain = SesEdit("INSERT", e.one, 0, e.two, e.length)
        BY <3>5
      <4>2. /\ plain.operation = "INSERT" /\ plain \in SesEdits
            /\ plain.original_offset = e.one
        BY <4>1, <1>4 DEF SesEdit, SesEdits
      <4> HIDE DEF plain
      <4>3. plain.operation # "DELETE"
        BY <4>2
      <4> QED BY <3>1, <3>2, <3>5, <4>2, <4>3 DEF Unpaired
    <3> QED BY <3>4, <3>5, <1>4 DEF Operations
  <2> QED BY <2>1, <2>2
<1> HIDE DEF e, f, change, plain
<1>7. /\ edits' \in Seq(SesEdits) /\ Len(edits) \in Nat /\ Len(edits') = Len(edits) + 1
      /\ \A i \in 1 .. Len(edits) : edits'[i] = edits[i]
      /\ edits'[Len(edits) + 1] = u
  BY <1>1, <1>6, AppendProperties
<1>8. ASSUME NEW i \in 1 .. Len(edits') - 1
      PROVE  ~ Replaced(edits'[i], edits'[i + 1])
  <2>1. CASE i \in 1 .. Len(edits) - 1
    <3>1. edits'[i] = edits[i] /\ edits'[i + 1] = edits[i + 1]
      BY <1>7, <2>1
    <3> QED BY <3>1, <1>3, <2>1
  <2>2. CASE i = Len(edits)
    <3>1. edits'[i] = edits[i] /\ edits'[i + 1] = u /\ edits # <<>>
      BY <1>1, <1>7, <2>2
    <3>2. ASSUME Replaced(edits[i], u) PROVE FALSE
      <4>1. u.operation = "INSERT" /\ u.original_offset = e.one /\ e.operation = "SES_INSERT"
        BY <1>6, <3>2 DEF Replaced
      <4>2. Unpaired(edits[Len(edits)], e)
        BY <4>1, <3>2, <2>2 DEF Replaced, Unpaired
      <4> QED BY <4>2, <3>1, <1>3 DEF e
    <3> QED BY <3>1, <3>2
  <2> QED BY <1>7, <2>1, <2>2
<1>9. Paired'
  <2>1. edits'[Len(edits')] = u
    BY <1>7
  <2> QED BY <2>1, <1>2, <1>6, <1>8 DEF Paired
<1> QED BY <1>1, <1>2, <1>6, <1>7, <1>9, AfterSearch DEF IInv

\* The strengthened invariant holds before compute is called.
LEMMA InitIInv ==
  ASSUME Init
  PROVE  IInv
<1>1. /\ equal \in Relations /\ threshold \in Thresholds /\ phase = "start"
      /\ parts = <<>> /\ distance = 0 /\ diagonal = 0
      /\ points = <<Start, End>> /\ edit_distance = 0
      /\ script = <<>> /\ merged = <<>> /\ edits = <<>> /\ failed = FALSE
  BY DEF Init, Relations
<1>2. Start \in Whole /\ End \in Whole
  <2>1. /\ Start.x = 0 /\ Start.y = 0 /\ End.x = SizeOne /\ End.y = SizeTwo
        /\ SizeOne \in Nat /\ SizeTwo \in Nat
    BY WholeGrid
  <2>2. Point(0, 0) \in Whole /\ Point(SizeOne, SizeTwo) \in Whole
    BY <2>1, WholeGrid
  <2> QED BY <2>2 DEF Start, End
<1>3. TypeOK
  <2>1. parts \in Seq(PartTypes) /\ script \in Seq(Edits) /\ merged \in Seq(Edits)
        /\ edits \in Seq(SesEdits)
    BY <1>1
  <2>2. points \in Whole \X Whole /\ distance \in Nat /\ diagonal \in Int /\ edit_distance \in Nat
    BY <1>1, <1>2
  <2> QED BY <2>1, <2>2, <1>1 DEF TypeOK, Searching
<1>4. \A i \in 1 .. Len(parts) : FALSE
  BY <1>1
<1>5. \A i \in 1 .. Len(parts) - 1 : FALSE
  BY <1>1
<1>6. PartsOrdered
  BY <1>1, <1>4, <1>5 DEF PartsOrdered, Solving
<1>7. PartsSpend /\ SnakeFound /\ NothingMissed
  BY <1>1 DEF PartsSpend, SnakeFound, NothingMissed, Solving
<1>8. Searches
  BY <1>1 DEF Searches, Searching, SearchesForward, SearchesBack
<1>9. Paired
  BY <1>1 DEF Paired
<1> QED BY <1>3, <1>6, <1>7, <1>8, <1>9 DEF IInv

\* It holds where nothing changes.
LEMMA StutterIInv ==
  ASSUME IInv, UNCHANGED vars
  PROVE  IInv'
<1>1. /\ equal' = equal /\ threshold' = threshold /\ phase' = phase /\ parts' = parts
      /\ distance' = distance /\ diagonal' = diagonal
      /\ forward_paths' = forward_paths /\ reverse_paths' = reverse_paths
      /\ points' = points /\ edit_distance' = edit_distance /\ script' = script
      /\ merged' = merged /\ edits' = edits /\ failed' = failed
  BY DEF vars, input, paths, snake, lists
<1>2. /\ From' = From /\ To' = To
      /\ LengthOne' = LengthOne /\ LengthTwo' = LengthTwo
      /\ Delta' = Delta /\ IsEven' = IsEven /\ Diagonals' = Diagonals
  BY <1>1, SameParts
<1>3. TypeOK'
  BY <1>1, <1>2 DEF IInv, TypeOK, Searching
<1>4. PartsOrdered'
  BY <1>1, <1>2 DEF IInv, PartsOrdered, Solving
<1>5. PartsSpend'
  BY <1>1, <1>2 DEF IInv, PartsSpend, Solving
<1>6. Searches'
  <2>1. Passed' = Passed
    BY <1>1 DEF Passed
  <2>2. SearchesForward'
    BY <2>1, <1>1, <1>2 DEF IInv, Searches, SearchesForward, ForwardsOn, BackwardsOn
  <2>3. SearchesBack'
    BY <2>1, <1>1, <1>2 DEF IInv, Searches, SearchesBack, ForwardsOn, BackwardsOn
  <2> QED BY <2>2, <2>3, <1>1, <1>2 DEF IInv, Searches, Searching
<1>7. SnakeFound'
  <2>1. SingleEdit' = SingleEdit
    BY <1>1, <1>2 DEF SingleEdit
  <2> QED BY <2>1, <1>1, <1>2 DEF IInv, SnakeFound
<1>8. NothingMissed' /\ Paired'
  BY <1>1 DEF IInv, NothingMissed, Paired
<1> QED BY <1>3, <1>4, <1>5, <1>6, <1>7, <1>8 DEF IInv

\* Every step preserves it.
LEMMA NextIInv ==
  ASSUME IInv, [Next]_vars
  PROVE  IInv'
<1>1. CASE Begin             BY <1>1, BeginKeeps
<1>2. CASE SolveAtOnce       BY <1>2, SolveAtOnceKeeps
<1>3. CASE SolveFails        BY <1>3, SolveFailsKeeps
<1>4. CASE OneSided          BY <1>4, OneSidedKeeps
<1>5. CASE BeginMiddleSnake  BY <1>5, BeginMiddleSnakeKeeps
<1>6. CASE ExtendForward     BY <1>6, ExtendForwardStep
<1>7. CASE ExtendReverse     BY <1>7, ExtendReverseStep
<1>8. CASE Split             BY <1>8, SplitKeeps
<1>9. CASE LeaveSingle       BY <1>9, LeaveSingleKeeps
<1>10. CASE Merge            BY <1>10, MergeKeeps
<1>11. CASE Merged           BY <1>11, MergedKeeps
<1>12. CASE Collect          BY <1>12, CollectKeeps
<1>13. CASE Return           BY <1>13, ReturnKeeps
<1>14. CASE UNCHANGED vars   BY <1>14, StutterIInv
<1> QED
  BY <1>1, <1>2, <1>3, <1>4, <1>5, <1>6, <1>7, <1>8, <1>9, <1>10, <1>11, <1>12, <1>13, <1>14
  DEF Next

\* Every part of the inductive invariant holds in every state: the parts in order and
\* what is left of them, the searches at their furthest points, and the snake found
\* between them (compute_middle_snake, shortest_edit_script_hybrid_inner).
THEOREM IInvHolds == Spec => []IInv
<1>1. Init => IInv
  BY InitIInv
<1>2. IInv /\ [Next]_vars => IInv'
  BY NextIInv
<1> QED BY <1>1, <1>2, PTL DEF Spec

\* Every variable has its type in every state: the points of the searches are those
\* the arrays hold, and what the functions return are lists of edits.
THEOREM TypeCorrect == Spec => []TypeOK
<1>1. IInv => TypeOK
  BY DEF IInv
<1> QED BY <1>1, IInvHolds, PTL

\* shortest_edit_script_hybrid links the lists of two halves through their ends, and
\* compute_middle_snake ends the program when no distance is left: neither is met
\* unless memory was short, since a half always has an edit to yield and the searches
\* always meet.
THEOREM CrashesNever == Spec => []NeverCrashes
<1>1. IInv => NeverCrashes
  BY DEF IInv, NothingMissed, NeverCrashes
<1> QED BY <1>1, IInvHolds, PTL

\* What compute_middle_snake returns: the snake is one of a shortest script, the
\* distance it was found at is that of the part, and half of it lies before the snake.
THEOREM SnakeAlwaysInTheMiddle == Spec => []SnakeInTheMiddle
<1>1. IInv => SnakeInTheMiddle
  BY DEF IInv, SnakeFound, SnakeInTheMiddle, Between
<1> QED BY <1>1, IInvHolds, PTL

\* shortest_edit_script_linear_space_inner: with what is found and what is left, the
\* script leads from the start to the end and has no edit more than necessary.
THEOREM PartsAlwaysTile == Spec => []PartsTile
<1>1. IInv => PartsTile
  BY DEF IInv, PartsOrdered, PartsSpend, PartsTile, Between, Solving
<1> QED BY <1>1, IInvHolds, PTL

\* compute returns no deletion next to the insertion that replaces it: such two are
\* one change.
THEOREM ChangesArePaired == Spec => []ChangesPaired
<1>1. IInv => ChangesPaired
  BY DEF IInv, Paired, Replaced, ChangesPaired
<1> QED BY <1>1, IInvHolds, PTL
-----------------------------------------------------------------------------
\* The service counts the same elements.
LEMMA SpendsAll ==
  ASSUME NEW es, NEW n, Spends(es, n)
  PROVE  Service!Total(es) = n
  BY DEF Spends, Service!Total, Touched, Cardinality, Service!Cardinality

LOCAL INSTANCE SequencesExt

(***************************************************************************)
(* The refinement: what is merged and paired is still a shortest script.   *)
(***************************************************************************)
Shortest(es) ==
  /\ es \in Seq(Edits)
  /\ Transforms(equal, es, Start, End)
  /\ Total(es) = Between(equal, Start, End)

Separate(es) == \A i \in 1 .. Len(es) - 1 : ~ Service!Mergeable(es[i], es[i + 1])

\* The length of a script, one edit at a time.
LEMMA TotalStep ==
  ASSUME NEW es \in Seq(Edits), NEW n \in 1 .. Len(es)
  PROVE  /\ SubSeq(es, 1, n - 1) \in Seq(Edits) /\ SubSeq(es, 1, n) \in Seq(Edits)
         /\ es[n] \in Edits
         /\ SubSeq(es, 1, n) = Append(SubSeq(es, 1, n - 1), es[n])
         /\ Total(SubSeq(es, 1, n)) = Total(SubSeq(es, 1, n - 1)) + es[n].length
<1> DEFINE s == SubSeq(es, 1, n - 1)
           t == SubSeq(es, 1, n)
<1>1. n \in Int /\ n - 1 \in Int /\ Len(es) \in Nat /\ \A i \in 1 .. n : es[i] \in Edits
  OBVIOUS
<1>2. \A i \in 1 .. n - 1 : es[i] \in Edits
  BY <1>1
<1>3. s \in Seq(Edits) /\ t \in Seq(Edits)
  BY <1>1, <1>2, SubSeqProperties
<1>4. es[n] \in Edits
  BY <1>1
<1>5. t = s \o <<es[n]>>
  <2>1. 1 \in 1 .. Len(es) /\ n \in 1 .. Len(es)
    BY <1>1
  <2> QED BY <2>1, SubSeqRecursiveSecond
<1> HIDE DEF s, t
<1>6. t = Append(s, es[n])
  BY <1>3, <1>4, <1>5, AppendIsConcat
<1>7. <<es[n]>> \in Seq(Edits)
  BY <1>4
<1>8. Total(t) = Total(s) + es[n].length
  BY <1>3, <1>4, <1>5, <1>7, TotalConcat, TotalOne
<1> QED BY <1>3, <1>4, <1>6, <1>8 DEF s, t

\* The length of a script is what the service counts.
LEMMA SpendsTotal ==
  ASSUME NEW es \in Seq(Edits)
  PROVE  Spends(es, Total(es))
<1> DEFINE Good(n) == Spends(SubSeq(es, 1, n), Total(SubSeq(es, 1, n)))
           Bad == {n \in Nat : n <= Len(es) /\ ~ Good(n)}
<1>1. Bad = {}
  <2> SUFFICES ASSUME Bad # {} PROVE FALSE
    OBVIOUS
  <2>1. PICK n \in Bad : \A k \in Bad : n <= k
    <3>1. Bad \subseteq Nat
      OBVIOUS
    <3> HIDE DEF Bad
    <3> QED BY <3>1, LeastElement
  <2>2. n \in Nat /\ n <= Len(es) /\ ~ Good(n)
    OBVIOUS
  <2>3. n # 0
    <3>1. SubSeq(es, 1, 0) = <<>>
      BY SubSeqEmpty
    <3>2. Good(0)
      BY <3>1, SpendsNothing, TotalNone
    <3> HIDE DEF Good
    <3> QED BY <3>2, <2>2
  <2>4. Good(n - 1)
    <3>1. n - 1 \in Nat /\ n - 1 <= Len(es) /\ ~ (n <= n - 1)
      BY <2>2, <2>3
    <3> HIDE DEF Good
    <3> QED BY <3>1, <2>1
  <2>5. n \in 1 .. Len(es)
    BY <2>2, <2>3
  <2> DEFINE s == SubSeq(es, 1, n - 1)
             t == SubSeq(es, 1, n)
  <2>6. s \in Seq(Edits) /\ es[n] \in Edits /\ t = Append(s, es[n])
        /\ Total(t) = Total(s) + es[n].length
    BY <2>5, TotalStep
  <2>7. Spends(s, Total(s))
    BY <2>4
  <2> HIDE DEF s, t
  <2>8. Total(s) \in Int
    BY <2>6, TotalNat
  <2>9. Spends(t, Total(t))
    BY <2>6, <2>7, <2>8, SpendsMore
  <2> QED BY <2>9, <2>2 DEF t
<1>2. Len(es) \in Nat
  OBVIOUS
<1>3. Good(Len(es))
  <2> HIDE DEF Good
  <2> QED BY <1>1, <1>2
<1> QED BY <1>3, SubSeqFull

\* Where an edit behind the K-th one was, when it takes the place of n edits.
LEMMA Shifted ==
  ASSUME NEW K \in Nat, NEW n \in Nat, n >= 1, NEW l \in Nat, K + n <= l,
         NEW m \in Nat, m = l - n + 1, NEW i \in 0 .. m, i > K
  PROVE  /\ i + n - 1 \in 0 .. l /\ i + n - 1 # 0 /\ i # 0
         /\ i + n - 1 \in Int /\ i \in Int
         /\ (i + 1) + n - 1 = (i + n - 1) + 1
         /\ i # m => /\ i + 1 # m + 1 /\ (i + n - 1) + 1 # l + 1
                     /\ i + 1 \in K + 2 .. m
         /\ i = m => i + n - 1 = l
         /\ i = K + 1 => i + n - 1 = K + n
         /\ i # K + 1 => i \in K + 2 .. m
  OBVIOUS

\* A script in which one edit takes the place of some that follow one another.
LEMMA Collapsed ==
  ASSUME NEW e, NEW a, NEW b, NEW s \in Seq(Edits), NEW t \in Seq(Edits),
         NEW K \in Nat, NEW n \in Nat, n >= 1, K + n <= Len(s),
         Len(t) = Len(s) - n + 1,
         \A i \in 1 .. K : t[i] = s[i],
         Before(t[K + 1]) = Before(s[K + 1]), After(t[K + 1]) = After(s[K + n]),
         \A i \in K + 2 .. Len(t) : t[i] = s[i + n - 1],
         Transforms(e, s, a, b)
  PROVE  Transforms(e, t, a, b)
<1>1. Len(s) \in Nat /\ Len(t) \in Nat
  OBVIOUS
<1>2. \A i \in 0 .. Len(s) : Common(e, Leaving(s, i, a), Arriving(s, i + 1, b))
  BY DEF Transforms
<1> SUFFICES ASSUME NEW i \in 0 .. Len(t)
             PROVE  Common(e, Leaving(t, i, a), Arriving(t, i + 1, b))
  BY DEF Transforms
<1>3. CASE i <= K
  <2>1. Leaving(t, i, a) = Leaving(s, i, a)
    BY <1>3 DEF Leaving
  <2>2. Arriving(t, i + 1, b) = Arriving(s, i + 1, b)
    <3>1. i + 1 # Len(t) + 1 /\ i + 1 # Len(s) + 1
      BY <1>1, <1>3
    <3>2. CASE i = K
      BY <3>1, <3>2 DEF Arriving
    <3>3. CASE i < K
      <4>1. t[i + 1] = s[i + 1]
        BY <3>3
      <4> QED BY <3>1, <4>1 DEF Arriving
    <3> QED BY <1>3, <3>2, <3>3
  <2>3. i \in 0 .. Len(s)
    BY <1>1, <1>3
  <2> QED BY <2>1, <2>2, <2>3, <1>2
<1>4. CASE i > K
  <2> DEFINE j == i + n - 1
  <2>1. /\ j \in 0 .. Len(s) /\ j # 0 /\ i # 0
        /\ (i + 1) + n - 1 = j + 1
        /\ i # Len(t) => /\ i + 1 # Len(t) + 1 /\ j + 1 # Len(s) + 1
                         /\ i + 1 \in K + 2 .. Len(t)
        /\ i = Len(t) => j = Len(s)
        /\ i = K + 1 => j = K + n
        /\ i # K + 1 => i \in K + 2 .. Len(t)
    <3>1. /\ K \in Nat /\ n \in Nat /\ n >= 1 /\ Len(s) \in Nat /\ K + n <= Len(s)
          /\ Len(t) \in Nat /\ Len(t) = Len(s) - n + 1 /\ i \in 0 .. Len(t) /\ i > K
      BY <1>1, <1>4
    <3> QED BY ONLY <3>1, Shifted
  <2>2. Leaving(t, i, a) = Leaving(s, j, a)
    <3>1. CASE i = K + 1
      <4>1. After(t[i]) = After(s[j])
        BY <3>1, <2>1
      <4> HIDE DEF j
      <4> QED BY <4>1, <2>1 DEF Leaving
    <3>2. CASE i # K + 1
      <4>1. t[i] = s[j]
        BY <3>2, <2>1
      <4> HIDE DEF j
      <4> QED BY <4>1, <2>1 DEF Leaving
    <3> QED BY <3>1, <3>2
  <2>3. Arriving(t, i + 1, b) = Arriving(s, j + 1, b)
    <3>1. CASE i = Len(t)
      <4>1. j = Len(s)
        BY <3>1, <2>1
      <4> HIDE DEF j
      <4> QED BY <3>1, <4>1, <1>1 DEF Arriving
    <3>2. CASE i # Len(t)
      <4>1. i + 1 # Len(t) + 1 /\ j + 1 # Len(s) + 1
        BY <3>2, <2>1
      <4>2. t[i + 1] = s[j + 1]
        <5>1. i + 1 \in K + 2 .. Len(t)
          BY <3>2, <2>1
        <5>2. t[i + 1] = s[(i + 1) + n - 1]
          BY <5>1
        <5>3. (i + 1) + n - 1 = j + 1
          BY <2>1
        <5> QED BY <5>2, <5>3
      <4> HIDE DEF j
      <4> QED BY <4>1, <4>2 DEF Arriving
    <3> QED BY <3>1, <3>2
  <2> HIDE DEF j
  <2> QED BY <2>1, <2>2, <2>3, <1>2
<1> QED BY <1>3, <1>4

\* A list with one sequence more at its end.
LEMMA FlattenAppend ==
  ASSUME NEW S, NEW ss \in Seq(Seq(S)), NEW a \in Seq(S)
  PROVE  FlattenSeq(Append(ss, a)) = FlattenSeq(ss) \o a
<1> DEFINE ts == Append(ss, a)
           N == Len(ss)
           f == CHOOSE f : Flattens(ss, f)
           g == CHOOSE g : Flattens(ts, g)
<1>1. /\ ts \in Seq(Seq(S)) /\ N \in Nat /\ Len(ts) = N + 1 /\ ts # <<>>
      /\ ts[N + 1] = a /\ \A k \in 1 .. N : ts[k] = ss[k]
  <2>1. N \in Nat /\ \A k \in 1 .. N : ss[k] \in Seq(S)
    OBVIOUS
  <2> QED BY <2>1, AppendProperties
<1>2. Flattens(ts, g) /\ (ss # <<>> => Flattens(ss, f))
  <2>1. \A l \in Nat : \E h : FlattensTo(ts, l, h)
    BY FlattenExists
  <2>2. \A l \in Nat : \E h : FlattensTo(ss, l, h)
    BY FlattenExists
  <2> HIDE DEF ts
  <2>3. Len(ts) \in Nat
    BY <1>1
  <2>4. \E h : Flattens(ts, h)
    BY <2>1, <2>3 DEF Flattens, FlattensTo
  <2>5. \E h : Flattens(ss, h)
    BY <2>2, <1>1 DEF Flattens, FlattensTo
  <2> QED BY <2>4, <2>5
<1>3. FlattenSeq(ts) = g[N + 1]
  <2>1. Len(ts) # 0
    BY <1>1
  <2>2. FlattenSeq(ts) = g[Len(ts)]
    BY <2>1 DEF FlattenSeq, Flattens
  <2> HIDE DEF g, ts
  <2> QED BY <2>2, <1>1
<1>4. ss # <<>> => FlattenSeq(ss) = f[N]
  <2>1. ss # <<>> => Len(ss) # 0
    OBVIOUS
  <2> QED BY <2>1 DEF FlattenSeq, Flattens
<1> HIDE DEF f, g
<1>5. g[N + 1] = IF ss = <<>> THEN a ELSE f[N] \o a
  BY <1>2, FlattensAppend
<1>6. CASE ss = <<>>
  <2>1. FlattenSeq(ss) = <<>>
    BY <1>6 DEF FlattenSeq
  <2>2. <<>> \o a = a
    BY ConcatEmptySeq
  <2> QED BY <2>1, <2>2, <1>3, <1>5, <1>6
<1>7. CASE ss # <<>>
  BY <1>3, <1>4, <1>5, <1>7
<1> QED BY <1>6, <1>7

(***************************************************************************)
(* While edits are merged, those passed and those to come are a shortest   *)
(* script, and no two of those passed could be one.  While they are        *)
(* collected, those collected and those to come are.                       *)
(***************************************************************************)
Conserved ==
  /\ phase \notin {"merge", "collect", "done"} => merged = <<>>
  /\ phase = "merge" /\ ~ failed =>
       /\ Shortest(merged \o script)
       /\ Separate(merged)
       /\ merged # <<>> /\ script # <<>> =>
            ~ Service!Mergeable(merged[Len(merged)], script[1])
  /\ phase \in {"collect", "done"} /\ ~ failed =>
       Shortest(Replayed \o merged) /\ Separate(Replayed \o merged)
  /\ phase = "done" => merged = <<>>

\* Edits that follow one another along equal elements.
Linked(es) ==
  \A i \in 1 .. Len(es) - 1 : Common(equal, After(es[i]), Before(es[i + 1]))

Taking(es, n) == [es[1] EXCEPT !.length = Total(SubSeq(es, 1, n))]

\* An edit with those it takes in ends where the last of them does.
LEMMA RunEnds ==
  ASSUME NEW es \in Seq(Edits), Linked(es), NEW n \in 1 .. Len(es),
         \A i \in 1 .. n - 1 : Sequential(es, i)
  PROVE  /\ Taking(es, n) \in Edits
         /\ Taking(es, n).operation = es[1].operation
         /\ Taking(es, n).length = Total(SubSeq(es, 1, n))
         /\ Before(Taking(es, n)) = Before(es[1])
         /\ After(Taking(es, n)) = After(es[n])
<1> DEFINE T(i) == Total(SubSeq(es, 1, i))
           op == es[1].operation
           Good(i) == es[i].operation = op /\ After(Taking(es, i)) = After(es[i])
           Bad == {i \in Nat : i \in 1 .. n /\ ~ Good(i)}
<1>1. /\ Len(es) \in Nat /\ n \in Nat /\ 1 <= n /\ n <= Len(es) /\ es[1] \in Edits
      /\ \A i \in 1 .. n : i \in 1 .. Len(es) /\ es[i] \in Edits
  OBVIOUS
<1>2. \A u \in Edits : /\ u.one \in Nat /\ u.two \in Nat /\ u.length \in Nat /\ u.length > 0
                       /\ u.operation \in {"SES_DELETE", "SES_INSERT"}
  BY DEF Edits, Operations
<1>3. ASSUME NEW i \in 1 .. n
      PROVE  /\ T(i) \in Nat /\ T(i) > 0 /\ T(i - 1) \in Nat
             /\ T(i) = T(i - 1) + es[i].length
  <2>1. i \in 1 .. Len(es)
    BY <1>1
  <2>2. /\ SubSeq(es, 1, i - 1) \in Seq(Edits) /\ SubSeq(es, 1, i) \in Seq(Edits)
        /\ T(i) = T(i - 1) + es[i].length
    BY <2>1, TotalStep
  <2>3. T(i) \in Nat /\ T(i - 1) \in Nat
    BY <2>2, TotalNat
  <2>4. es[i].length \in Nat /\ es[i].length > 0
    BY <1>1, <1>2
  <2> HIDE DEF T
  <2> QED BY <2>2, <2>3, <2>4
<1>4. T(0) = 0
  <2>1. SubSeq(es, 1, 0) = <<>>
    BY SubSeqEmpty
  <2> QED BY <2>1, TotalNone
<1>5. ASSUME NEW i \in 1 .. n
      PROVE  /\ Taking(es, i) \in Edits
             /\ Taking(es, i).operation = op
             /\ Taking(es, i).length = T(i)
             /\ Before(Taking(es, i)) = Before(es[1])
             /\ After(Taking(es, i)) = IF op = "SES_DELETE"
                                       THEN Point(es[1].one + T(i), es[1].two)
                                       ELSE Point(es[1].one, es[1].two + T(i))
  <2>1. T(i) \in Nat \ {0}
    BY <1>3
  <2> DEFINE m == T(i)
  <2>2. Taking(es, i) = [es[1] EXCEPT !.length = m]
    BY DEF Taking
  <2>3. m \in Nat \ {0}
    BY <2>1
  <2> HIDE DEF m
  <2>4. /\ Taking(es, i) \in Edits /\ Taking(es, i).operation = op
        /\ Taking(es, i).length = m /\ Taking(es, i).one = es[1].one
        /\ Taking(es, i).two = es[1].two
    BY <2>2, <2>3, <1>1 DEF Edits
  <2> QED BY <2>4 DEF Before, After, m
<1> HIDE DEF T
<1>6. Bad = {}
  <2> SUFFICES ASSUME Bad # {} PROVE FALSE
    OBVIOUS
  <2>1. PICK i \in Bad : \A k \in Bad : i <= k
    <3>1. Bad \subseteq Nat
      OBVIOUS
    <3> HIDE DEF Bad
    <3> QED BY <3>1, LeastElement
  <2>2. i \in Nat /\ i \in 1 .. n /\ ~ Good(i)
    OBVIOUS
  <2>3. i # 1
    <3> SUFFICES ASSUME i = 1 PROVE FALSE
      OBVIOUS
    <3>1. T(1) = es[1].length
      <4>1. T(1) = T(1 - 1) + es[1].length
        BY <1>1, <1>3
      <4>2. es[1].length \in Nat
        BY <1>1, <1>2
      <4> QED BY <4>1, <4>2, <1>4
    <3>2. After(Taking(es, 1)) = After(es[1])
      BY <3>1, <1>1, <1>5 DEF After
    <3> QED BY <3>2, <2>2
  <2>4. Good(i - 1)
    <3>1. i - 1 \in Nat /\ i - 1 \in 1 .. n /\ ~ (i <= i - 1)
      BY <2>2, <2>3, <1>1
    <3> HIDE DEF Good
    <3> QED BY <3>1, <2>1
  <2> DEFINE h == i - 1
             m == T(h)
             u == es[i]
             v == es[1]
  <2>5. /\ h \in 1 .. n /\ h \in 1 .. n - 1 /\ h + 1 = i /\ h \in Nat
        /\ h \in 1 .. Len(es) - 1
    BY <2>2, <2>3, <1>1
  <2>6. /\ u.operation = op
        /\ u.one = IF op = "SES_INSERT" THEN v.one ELSE v.one + m
    <3>1. Sequential(es, h)
      BY <2>5
    <3> QED BY <3>1, <2>5 DEF Sequential, T
  <2>7. Common(equal, After(es[h]), Before(u))
    BY <2>5 DEF Linked
  <2>8. After(es[h]) = IF op = "SES_DELETE" THEN Point(v.one + m, v.two)
                       ELSE Point(v.one, v.two + m)
    BY <2>4, <2>5, <1>5
  <2>9. /\ T(i) = m + u.length /\ m \in Nat /\ T(i) \in Nat
        /\ u.one \in Nat /\ u.two \in Nat /\ u.length \in Nat
        /\ v.one \in Nat /\ v.two \in Nat
        /\ op \in {"SES_DELETE", "SES_INSERT"}
    BY <2>2, <1>1, <1>2, <1>3
  <2>10. After(Taking(es, i)) = IF op = "SES_DELETE" THEN Point(v.one + T(i), v.two)
                                ELSE Point(v.one, v.two + T(i))
    BY <2>2, <1>5
  <2>11. ~ (After(Taking(es, i)) = After(u))
    BY <2>2, <2>6
  <2> HIDE DEF h, m, u, v, op
  <2>12. CASE op = "SES_DELETE"
    <3>1. u.one = v.one + m /\ u.two = v.two
      <4>1. u.one = v.one + m /\ After(es[h]) = Point(v.one + m, v.two)
        BY <2>6, <2>8, <2>12
      <4>2. Before(u) = Point(u.one, u.two)
        BY DEF Before
      <4>3. u.two - v.two = u.one - (v.one + m)
        BY <4>1, <4>2, <2>7 DEF Common, Point
      <4> QED BY <4>1, <4>3, <2>9
    <3>2. After(u) = Point(u.one + u.length, u.two)
      BY <2>6, <2>12 DEF After
    <3>3. u.one + u.length = v.one + T(i)
      BY <3>1, <2>9
    <3> QED BY <3>1, <3>2, <3>3, <2>10, <2>11, <2>12
  <2>13. CASE op = "SES_INSERT"
    <3>1. u.one = v.one /\ u.two = v.two + m
      <4>1. u.one = v.one /\ After(es[h]) = Point(v.one, v.two + m)
        BY <2>6, <2>8, <2>13
      <4>2. Before(u) = Point(u.one, u.two)
        BY DEF Before
      <4>3. u.two - (v.two + m) = u.one - v.one
        BY <4>1, <4>2, <2>7 DEF Common, Point
      <4>4. v.two + m \in Nat /\ u.two \in Nat /\ u.one - v.one = 0
        BY <4>1, <2>9
      <4>5. u.two - (v.two + m) = 0
        BY <4>3, <4>4
      <4>6. u.two = v.two + m
        BY <4>4, <4>5
      <4> QED BY <4>1, <4>6
    <3>2. After(u) = Point(u.one, u.two + u.length)
      BY <2>6, <2>13 DEF After
    <3>3. u.two + u.length = v.two + T(i)
      BY <3>1, <2>9
    <3> QED BY <3>1, <3>2, <3>3, <2>10, <2>11, <2>13
  <2> QED BY <2>9, <2>12, <2>13
<1>7. n \in 1 .. n /\ Good(n)
  <2> HIDE DEF Good
  <2> QED BY <1>1, <1>6
<1> QED BY <1>5, <1>7 DEF T

\* The edits of a script follow one another, and so do those of its end.
LEMMA ScriptLinked ==
  ASSUME NEW s \in Seq(Edits), NEW t \in Seq(Edits), NEW a, NEW b,
         Transforms(equal, s \o t, a, b)
  PROVE  Linked(t)
<1> DEFINE st == s \o t
<1>1. /\ st \in Seq(Edits) /\ Len(s) \in Nat /\ Len(t) \in Nat
      /\ Len(st) = Len(s) + Len(t)
      /\ \A i \in 1 .. Len(t) : st[Len(s) + i] = t[i]
  OBVIOUS
<1> HIDE DEF st
<1>2. SUFFICES ASSUME NEW i \in 1 .. Len(t) - 1
               PROVE  Common(equal, After(t[i]), Before(t[i + 1]))
  BY DEF Linked
<1> DEFINE j == Len(s) + i
<1>3. /\ j \in 0 .. Len(st) /\ j # 0 /\ j + 1 # Len(st) + 1
      /\ i \in 1 .. Len(t) /\ i + 1 \in 1 .. Len(t) /\ j + 1 = Len(s) + (i + 1)
  BY <1>1
<1>4. st[j] = t[i] /\ st[j + 1] = t[i + 1]
  BY <1>1, <1>3
<1> HIDE DEF j
<1>5. Common(equal, Leaving(st, j, a), Arriving(st, j + 1, b))
  BY <1>3 DEF Transforms, st
<1> QED BY <1>3, <1>4, <1>5 DEF Leaving, Arriving

\* One edit more at the end of a list.
LEMMA SeparateMore ==
  ASSUME NEW es \in Seq(Edits), NEW u \in Edits, Separate(es),
         es # <<>> => ~ Service!Mergeable(es[Len(es)], u)
  PROVE  Separate(Append(es, u))
<1>1. /\ Len(Append(es, u)) = Len(es) + 1 /\ Len(es) \in Nat
      /\ \A i \in 1 .. Len(es) : Append(es, u)[i] = es[i]
      /\ Append(es, u)[Len(es) + 1] = u
  OBVIOUS
<1> SUFFICES ASSUME NEW i \in 1 .. Len(es)
             PROVE  ~ Service!Mergeable(Append(es, u)[i], Append(es, u)[i + 1])
  BY <1>1 DEF Separate
<1>2. CASE i = Len(es)
  BY <1>1, <1>2
<1>3. CASE i \in 1 .. Len(es) - 1
  BY <1>1, <1>3 DEF Separate
<1> QED BY <1>1, <1>2, <1>3

\* Whether two edits can be one depends on where they are alone.
LEMMA MergeableAs ==
  ASSUME NEW u, NEW v, NEW w, u.operation = v.operation, Before(u) = Before(v)
  PROVE  Service!Mergeable(w, u) <=> Service!Mergeable(w, v)
  BY DEF Service!Mergeable, Service!Before, Service!Point, Before, Point

\* merge_sequential_edits takes in the edits that continue one: the lists are still
\* a shortest script, and the next edit could not have been taken in.
LEMMA MergeConserves ==
  ASSUME IInv, IInv', Conserved, Merge
  PROVE  Conserved'
<1>1. /\ phase = "merge" /\ phase' = "merge" /\ equal' = equal /\ failed' = failed
      /\ script \in Seq(Edits) /\ merged \in Seq(Edits)
      /\ script' \in Seq(Edits) /\ merged' \in Seq(Edits)
  BY DEF Merge, IInv, TypeOK, input
<1>2. SUFFICES ASSUME ~ failed
               PROVE  /\ Shortest(merged' \o script')
                      /\ Separate(merged')
                      /\ merged' # <<>> /\ script' # <<>> =>
                           ~ Service!Mergeable(merged'[Len(merged')], script'[1])
  BY <1>1 DEF Conserved, Shortest, Separate
<1>3. PICK n \in 1 .. Len(script) :
        /\ \A i \in 1 .. n - 1 : Sequential(script, i)
        /\ n < Len(script) => ~ Sequential(script, n)
        /\ merged' = Append(merged, Taking(script, n))
        /\ script' = SubSeq(script, n + 1, Len(script))
  BY DEF Merge, Taking
<1> DEFINE s == merged \o script
           t == merged' \o script'
           K == Len(merged)
           u == Taking(script, n)
           v == script[1]
<1>4. /\ s \in Seq(Edits) /\ Transforms(equal, s, Start, End)
      /\ Total(s) = Between(equal, Start, End)
      /\ Separate(merged)
      /\ merged # <<>> /\ script # <<>> => ~ Service!Mergeable(merged[K], v)
  BY <1>1, <1>2 DEF Conserved, Shortest
<1>5. /\ n \in Nat /\ n >= 1 /\ n <= Len(script) /\ Len(script) \in Nat /\ K \in Nat
      /\ v \in Edits /\ script # <<>>
  <2>1. n \in Nat /\ n >= 1 /\ n <= Len(script) /\ Len(script) \in Nat /\ K \in Nat
    BY <1>1
  <2> QED BY <2>1, <1>1
<1>6. Linked(script)
  BY <1>1, <1>4, ScriptLinked
<1>7. /\ u \in Edits /\ u.operation = v.operation
      /\ u.length = Total(SubSeq(script, 1, n))
      /\ Before(u) = Before(v) /\ After(u) = After(script[n])
  BY <1>1, <1>3, <1>6, RunEnds
<1> HIDE DEF u
<1>8. /\ Len(merged') = K + 1 /\ merged'[K + 1] = u
      /\ \A i \in 1 .. K : merged'[i] = merged[i]
  BY <1>1, <1>3, <1>7, AppendProperties DEF u
<1>9. /\ Len(script') = Len(script) - n
      /\ \A i \in 1 .. Len(script) - n : script'[i] = script[n + i]
  <2>1. \A i \in n + 1 .. Len(script) : script[i] \in Edits
    BY <1>1, <1>5
  <2>2. n + 1 \in Int /\ Len(script) \in Int
    BY <1>5
  <2>3. /\ Len(script') = IF n + 1 <= Len(script) THEN Len(script) - (n + 1) + 1 ELSE 0
        /\ \A i \in 1 .. Len(script) - (n + 1) + 1 : script'[i] = script[(n + 1) + i - 1]
    BY <2>1, <2>2, <1>3, SubSeqProperties
  <2>4. Len(script) - (n + 1) + 1 = Len(script) - n
    BY <1>5
  <2>5. \A i \in 1 .. Len(script) - n : (n + 1) + i - 1 = n + i
    BY <1>5
  <2>6. Len(script') = Len(script) - n
    <3>1. CASE n + 1 <= Len(script)
      BY ONLY <2>3, <2>4, <3>1
    <3>2. CASE ~ (n + 1 <= Len(script))
      <4>1. Len(script') = 0
        BY ONLY <2>3, <3>2
      <4>2. Len(script) - n = 0
        BY ONLY <1>5, <3>2
      <4> QED BY ONLY <4>1, <4>2
    <3> QED BY <3>1, <3>2
  <2> QED BY <2>3, <2>4, <2>5, <2>6
<1>10. /\ Len(s) = K + Len(script)
       /\ \A i \in 1 .. K : s[i] = merged[i]
       /\ \A i \in 1 .. Len(script) : s[K + i] = script[i]
  BY <1>1, <1>5
<1>11. /\ t \in Seq(Edits) /\ Len(t) = K + 1 + Len(script')
       /\ \A i \in 1 .. K + 1 : t[i] = merged'[i]
       /\ \A i \in 1 .. Len(script') : t[K + 1 + i] = script'[i]
  <2>1. /\ t \in Seq(Edits) /\ Len(t) = Len(merged') + Len(script')
        /\ \A i \in 1 .. Len(merged') : t[i] = merged'[i]
        /\ \A i \in 1 .. Len(script') : t[Len(merged') + i] = script'[i]
    BY <1>1
  <2> HIDE DEF t
  <2> QED BY <2>1, <1>8
<1> HIDE DEF s, t
<1>12. Transforms(equal, t, Start, End)
  <2> DEFINE ls == Len(s)
             lt == Len(t)
  <2>1. /\ ls \in Nat /\ lt \in Nat /\ K + n <= ls /\ lt = ls - n + 1
    BY <1>5, <1>9, <1>10, <1>11
  <2>2. \A i \in 1 .. K : t[i] = s[i]
    BY <1>5, <1>8, <1>10, <1>11
  <2>3. t[K + 1] = u /\ s[K + 1] = v /\ s[K + n] = script[n]
    <3>1. K + 1 \in 1 .. K + 1 /\ 1 \in 1 .. Len(script) /\ n \in 1 .. Len(script)
      BY <1>5
    <3> QED BY <3>1, <1>8, <1>10, <1>11
  <2>4. ASSUME NEW i \in K + 2 .. lt PROVE t[i] = s[i + n - 1]
    <3> DEFINE k == i - (K + 1)
    <3>1. /\ k \in 1 .. Len(script') /\ k \in 1 .. Len(script) - n
          /\ i = K + 1 + k
          /\ n + k \in 1 .. Len(script)
          /\ K + (n + k) = i + n - 1
      <4>1. lt = K + 1 + (Len(script) - n)
        BY <1>9, <1>11
      <4> HIDE DEF lt
      <4> QED BY <4>1, <1>5, <1>9
    <3> HIDE DEF k
    <3>2. t[i] = script'[k] /\ script'[k] = script[n + k]
      BY <3>1, <1>9, <1>11
    <3>3. s[K + (n + k)] = script[n + k]
      BY <3>1, <1>10
    <3> QED BY <3>1, <3>2, <3>3
  <2>5. Before(t[K + 1]) = Before(s[K + 1]) /\ After(t[K + 1]) = After(s[K + n])
    BY <2>3, <1>7
  <2> HIDE DEF K
  <2> QED BY <2>1, <2>2, <2>4, <2>5, <1>4, <1>5, <1>11, Collapsed
<1>13. Total(t) = Between(equal, Start, End)
  <2> DEFINE a == SubSeq(script, 1, n)
  <2>1. script = a \o script' /\ a \in Seq(Edits)
    <3>1. 1 \in 1 .. Len(script) + 1 /\ n \in 1 - 1 .. Len(script) /\ Len(script) \in n .. Len(script)
      BY <1>5
    <3>2. SubSeq(script, 1, n) \o SubSeq(script, n + 1, Len(script)) = SubSeq(script, 1, Len(script))
      BY <3>1, <1>1, ConcatAdjacentSubSeq
    <3>3. SubSeq(script, 1, Len(script)) = script
      BY <1>1, SubSeqFull
    <3>4. a \in Seq(Edits)
      BY <1>1, TotalStep
    <3> QED BY <3>2, <3>3, <3>4, <1>3
  <2> HIDE DEF a
  <2>2. Total(script) = Total(a) + Total(script')
    BY <2>1, <1>1, TotalConcat
  <2>3. Total(s) = Total(merged) + Total(script)
    BY <1>1, TotalConcat DEF s
  <2>4. Total(t) = Total(merged') + Total(script')
    BY <1>1, TotalConcat DEF t
  <2>5. Total(merged') = Total(merged) + u.length
    <3>1. merged' = merged \o <<u>> /\ <<u>> \in Seq(Edits)
      BY <1>1, <1>3, <1>7, AppendIsConcat DEF u
    <3> QED BY <3>1, <1>1, <1>7, TotalConcat, TotalOne
  <2>6. u.length = Total(a)
    BY <1>7 DEF a
  <2>7. /\ Total(merged) \in Nat /\ Total(a) \in Nat /\ Total(script') \in Nat
    BY <2>1, <1>1, TotalNat
  <2> QED BY <2>2, <2>3, <2>4, <2>5, <2>6, <2>7, <1>4
<1>14. Shortest(t)
  BY <1>11, <1>12, <1>13 DEF Shortest
<1>15. Separate(merged')
  <2>1. merged # <<>> => ~ Service!Mergeable(merged[Len(merged)], u)
    BY <1>4, <1>5, <1>7, MergeableAs
  <2>2. Separate(Append(merged, u))
    BY <2>1, <1>1, <1>4, <1>7, SeparateMore
  <2> QED BY <2>2, <1>3 DEF u
<1>16. ASSUME script' # <<>> PROVE ~ Service!Mergeable(merged'[Len(merged')], script'[1])
  <2>1. Len(script') > 0
    BY <1>16, <1>1
  <2>2. n < Len(script) /\ script'[1] = script[n + 1] /\ n + 1 \in 1 .. Len(script)
    BY <2>1, <1>5, <1>9
  <2> DEFINE w == script[n + 1]
  <2>3. w \in Edits
    BY <2>2, <1>1
  <2>4. ~ Sequential(script, n)
    BY <2>2, <1>3
  <2>5. w.operation = v.operation => w.one # IF v.operation = "SES_INSERT" THEN v.one ELSE v.one + u.length
    BY <2>4, <1>7 DEF Sequential
  <2>6. /\ u.one \in Nat /\ u.one = v.one /\ u.length \in Nat /\ w.one \in Nat
        /\ u.operation \in {"SES_DELETE", "SES_INSERT"}
    BY <1>7, <2>3, <1>5 DEF Edits, Operations, Before, Point
  <2> HIDE DEF w, v
  <2>7. ~ Service!Mergeable(u, w)
    <3> SUFFICES ASSUME u.operation = w.operation, Service!After(u) = Service!Before(w)
                 PROVE  FALSE
      BY DEF Service!Mergeable
    <3>1. Service!Before(w) = [x |-> w.one, y |-> w.two]
      BY DEF Service!Before, Service!Point
    <3>2. w.one # IF u.operation = "SES_INSERT" THEN u.one ELSE u.one + u.length
      BY <2>5, <2>6, <1>7
    <3>3. CASE u.operation = "SES_DELETE"
      <4>1. Service!After(u) = [x |-> u.one + u.length, y |-> u.two]
        BY <3>3 DEF Service!After, Service!Point
      <4>2. u.one + u.length = w.one
        BY <3>1, <4>1
      <4> QED BY <3>2, <3>3, <4>2
    <3>4. CASE u.operation = "SES_INSERT"
      <4>1. Service!After(u) = [x |-> u.one, y |-> u.two + u.length]
        BY <3>4 DEF Service!After, Service!Point
      <4>2. u.one = w.one
        BY <3>1, <4>1
      <4> QED BY <3>2, <3>4, <4>2
    <3> QED BY <2>6, <3>3, <3>4
  <2> QED BY <2>2, <2>7, <1>8 DEF w
<1> QED BY <1>14, <1>15, <1>16 DEF t

\* Lists end to end are one list.
LEMMA FlattenType ==
  ASSUME NEW S, NEW ss \in Seq(Seq(S))
  PROVE  FlattenSeq(ss) \in Seq(S)
<1>1. CASE ss = <<>>
  <2>1. FlattenSeq(ss) = <<>>
    BY <1>1 DEF FlattenSeq
  <2> QED BY <2>1, EmptySeq
<1>2. CASE ss # <<>>
  <2> DEFINE f == CHOOSE f : Flattens(ss, f)
  <2>1. Len(ss) \in Nat /\ Len(ss) # 0 /\ Len(ss) \in 1 .. Len(ss)
    BY <1>2
  <2>2. Flattens(ss, f)
    <3>1. \A l \in Nat : \E h : FlattensTo(ss, l, h)
      BY FlattenExists
    <3>2. \E h : Flattens(ss, h)
      BY <3>1, <2>1 DEF Flattens, FlattensTo
    <3> QED BY <3>2
  <2>3. FlattenSeq(ss) = f[Len(ss)]
    BY <2>1 DEF FlattenSeq, Flattens
  <2> HIDE DEF f
  <2>4. f \in [1 .. Len(ss) -> Seq(S)]
    BY <1>2, <2>2, FlattensType
  <2> QED BY <2>1, <2>3, <2>4
<1> QED BY <1>1, <1>2

Row(es) == [i \in DOMAIN es |-> Plain(es[i])]

\* A change as two edits, anything else as one.
LEMMA PlainType ==
  ASSUME NEW u \in SesEdits
  PROVE  Plain(u) \in Seq(Edits)
<1> DEFINE Edit(operation, one, two, n) ==
             IF n = 0 THEN <<>>
             ELSE <<[operation |-> operation, one |-> one, two |-> two, length |-> n]>>
<1>1. /\ u.original_offset \in Nat /\ u.original_length \in Nat
      /\ u.modified_offset \in Nat /\ u.modified_length \in Nat
      /\ u.original_offset + u.original_length \in Nat
  BY DEF SesEdits
<1>2. ASSUME NEW op \in Operations, NEW one \in Nat, NEW two \in Nat, NEW n \in Nat
      PROVE  Edit(op, one, two, n) \in Seq(Edits)
  <2>1. n # 0 => [operation |-> op, one |-> one, two |-> two, length |-> n] \in Edits
    BY DEF Edits
  <2> QED BY <2>1
<1> DEFINE a == Edit("SES_DELETE", u.original_offset, u.modified_offset, u.original_length)
           b == Edit("SES_INSERT", u.original_offset + u.original_length, u.modified_offset,
                     u.modified_length)
<1>3. a \in Seq(Edits) /\ b \in Seq(Edits)
  <2> HIDE DEF Edit
  <2>1. "SES_DELETE" \in Operations /\ "SES_INSERT" \in Operations
    BY DEF Operations
  <2> QED BY <2>1, <1>1, <1>2
<1>4. Plain(u) = a \o b
  BY DEF Plain
<1> HIDE DEF a, b
<1> QED BY <1>3, <1>4

\* One edit more, as the edits it was made of.
LEMMA RowAppend ==
  ASSUME NEW es \in Seq(SesEdits), NEW u \in SesEdits
  PROVE  /\ Row(es) \in Seq(Seq(Edits))
         /\ Row(Append(es, u)) = Append(Row(es), Plain(u))
<1> DEFINE fs == Append(es, u)
           N == Len(es)
<1>1. /\ fs \in Seq(SesEdits) /\ Len(fs) = N + 1 /\ N \in Nat
      /\ \A i \in 1 .. N : fs[i] = es[i] /\ es[i] \in SesEdits
      /\ fs[N + 1] = u
      /\ DOMAIN fs = 1 .. N + 1 /\ DOMAIN es = 1 .. N
  <2>1. N \in Nat /\ \A i \in 1 .. N : es[i] \in SesEdits
    OBVIOUS
  <2>2. /\ fs \in Seq(SesEdits) /\ Len(fs) = N + 1
        /\ \A i \in 1 .. N : fs[i] = es[i] /\ fs[N + 1] = u
    BY AppendProperties
  <2>3. DOMAIN fs = 1 .. N + 1 /\ DOMAIN es = 1 .. N
    BY <2>2, LenProperties
  <2>4. fs[N + 1] = u
    BY AppendProperties
  <2> QED BY <2>1, <2>2, <2>3, <2>4
<1> HIDE DEF fs
<1>2. /\ Row(es) \in Seq(Seq(Edits)) /\ Len(Row(es)) = N
      /\ \A i \in 1 .. N : Row(es)[i] = Plain(es[i])
  <2>1. \A i \in 1 .. N : Plain(es[i]) \in Seq(Edits)
    BY <1>1, PlainType
  <2>2. Row(es) = [i \in 1 .. N |-> Plain(es[i])]
    BY <1>1 DEF Row
  <2> QED BY <2>1, <2>2, <1>1
<1>3. /\ Row(fs) \in Seq(Seq(Edits)) /\ Len(Row(fs)) = N + 1
      /\ \A i \in 1 .. N + 1 : Row(fs)[i] = Plain(fs[i])
  <2>1. \A i \in 1 .. N + 1 : fs[i] \in SesEdits
    BY <1>1
  <2>2. \A i \in 1 .. N + 1 : Plain(fs[i]) \in Seq(Edits)
    BY <2>1, PlainType
  <2>3. Row(fs) = [i \in 1 .. N + 1 |-> Plain(fs[i])]
    BY <1>1 DEF Row
  <2> QED BY <2>2, <2>3, <1>1
<1> DEFINE r == Append(Row(es), Plain(u))
<1>4. /\ r \in Seq(Seq(Edits)) /\ Len(r) = N + 1
      /\ \A i \in 1 .. N : r[i] = Row(es)[i]
      /\ r[N + 1] = Plain(u)
  <2>1. Plain(u) \in Seq(Edits)
    BY PlainType
  <2> DEFINE q == Row(es)
             p == Plain(u)
  <2>2. q \in Seq(Seq(Edits)) /\ p \in Seq(Edits) /\ Len(q) = N
    BY <2>1, <1>2
  <2> HIDE DEF p, q
  <2>3. /\ Append(q, p) \in Seq(Seq(Edits)) /\ Len(Append(q, p)) = N + 1
        /\ \A i \in 1 .. N : Append(q, p)[i] = q[i]
        /\ Append(q, p)[N + 1] = p
    BY <2>2, AppendProperties
  <2> QED BY <2>3 DEF p, q
<1> HIDE DEF r
<1>5. ASSUME NEW i \in 1 .. N + 1 PROVE Row(fs)[i] = r[i]
  <2>1. CASE i \in 1 .. N
    BY <2>1, <1>1, <1>2, <1>3, <1>4
  <2>2. CASE i = N + 1
    BY <2>2, <1>1, <1>3, <1>4
  <2> QED BY <2>1, <2>2, <1>1
<1>6. Row(fs) = r
  BY <1>3, <1>4, <1>5, SeqEqual
<1> QED BY <1>2, <1>6 DEF fs, r

\* A list without what was taken off its front, and with it again.
LEMMA FrontAgain ==
  ASSUME NEW es \in Seq(Edits), es # <<>>
  PROVE  /\ Tail(es) \in Seq(Edits) /\ Len(Tail(es)) = Len(es) - 1
         /\ es[1] \in Edits
         /\ <<es[1]>> \o Tail(es) = es
         /\ Len(es) > 1 => Tail(es) # <<>> /\ Tail(es)[1] = es[2]
<1> DEFINE t == Tail(es)
<1>1. /\ t \in Seq(Edits) /\ Len(t) = Len(es) - 1
      /\ Len(es) \in Nat /\ Len(es) >= 1 /\ es[1] \in Edits
      /\ \A i \in 1 .. Len(es) - 1 : t[i] = es[i + 1]
  OBVIOUS
<1>2. <<es[1]>> \o t = es
  <2>1. 1 \in 1 .. Len(es) /\ Len(es) \in 1 .. Len(es)
    BY <1>1
  <2>2. SubSeq(es, 1, Len(es)) = <<es[1]>> \o SubSeq(es, 1 + 1, Len(es))
    BY <2>1, SubSeqRecursiveFirst
  <2>3. SubSeq(es, 1, Len(es)) = es
    BY SubSeqFull
  <2>4. t = SubSeq(es, 2, Len(es))
    BY TailIsSubSeq
  <2> QED BY <2>2, <2>3, <2>4
<1> HIDE DEF t
<1>3. Len(es) > 1 => t # <<>> /\ t[1] = es[2]
  <2> SUFFICES ASSUME Len(es) > 1 PROVE t # <<>> /\ t[1] = es[2]
    OBVIOUS
  <2>1. 1 \in 1 .. Len(es) - 1 /\ 1 + 1 = 2
    BY <1>1
  <2>2. t[1] = es[1 + 1]
    BY <2>1, <1>1
  <2>3. Len(t) > 0
    BY <1>1
  <2>4. t # <<>>
    BY <2>3, <1>1
  <2> QED BY <2>1, <2>2, <2>4
<1> QED BY <1>1, <1>2, <1>3 DEF t

\* What compute has returned so far, replayed.
LEMMA ReplayedRow ==
  ASSUME edits \in Seq(SesEdits)
  PROVE  Replayed = FlattenSeq(Row(edits)) /\ Replayed \in Seq(Edits)
<1>1. Replayed = FlattenSeq(Row(edits))
  BY DEF Replayed, Row
<1>2. Row(edits) \in Seq(Seq(Edits))
  <2>1. \A i \in 1 .. Len(edits) : Plain(edits[i]) \in Seq(Edits)
    BY PlainType
  <2>2. Row(edits) = [i \in 1 .. Len(edits) |-> Plain(edits[i])]
    BY DEF Row
  <2> QED BY <2>1, <2>2
<1> QED BY <1>1, <1>2, FlattenType

\* Nothing to replay.
LEMMA ReplayedNone ==
  ASSUME edits = <<>>
  PROVE  Replayed = <<>>
<1>1. Row(edits) = <<>>
  BY DEF Row
<1>2. FlattenSeq(<<>>) = <<>>
  BY DEF FlattenSeq
<1> QED BY <1>1, <1>2 DEF Replayed, Row

\* The last edit is merged: nothing is collected yet.
LEMMA MergedConserves ==
  ASSUME IInv, IInv', Conserved, Merged
  PROVE  Conserved'
<1>1. /\ phase = "merge" /\ phase' = "collect" /\ equal' = equal /\ failed' = failed
      /\ script = <<>> /\ merged' = merged /\ edits' = edits
      /\ merged \in Seq(Edits)
  BY DEF Merged, IInv, TypeOK, input, lists
<1>2. SUFFICES ASSUME ~ failed
               PROVE  Shortest(Replayed' \o merged) /\ Separate(Replayed' \o merged)
  BY <1>1 DEF Conserved, Shortest, Separate
<1>3. edits = <<>>
  BY <1>1 DEF IInv, Paired
<1>4. Replayed' = <<>>
  BY <1>1, <1>3, ReplayedNone DEF Replayed
<1>5. merged \o script = merged /\ Replayed' \o merged = merged
  BY <1>1, <1>4, ConcatEmptySeq
<1>6. Shortest(merged) /\ Separate(merged)
  BY <1>1, <1>2, <1>5 DEF Conserved
<1> QED BY <1>5, <1>6

\* The edit that compute makes of the first one or two, and what is left of them.
LEMMA CollectedPlain ==
  ASSUME merged \in Seq(Edits), Linked(merged), Collect
  PROVE  \E u \in SesEdits :
           /\ edits' = Append(edits, u)
           /\ merged' \in Seq(Edits)
           /\ Plain(u) \o merged' = merged
<1> DEFINE e == merged[1]
           f == merged[2]
           t == Tail(merged)
<1>1. /\ merged # <<>> /\ Len(merged) \in Nat
      /\ t \in Seq(Edits) /\ Len(t) = Len(merged) - 1
      /\ e \in Edits
      /\ <<e>> \o t = merged
      /\ Len(merged) > 1 => t # <<>> /\ t[1] = f
  BY FrontAgain DEF Collect
<1>2. /\ e.operation \in Operations /\ e.one \in Nat /\ e.two \in Nat
      /\ e.length \in Nat /\ e.length > 0
      /\ e = [operation |-> e.operation, one |-> e.one, two |-> e.two, length |-> e.length]
  BY <1>1 DEF Edits
<1>3. CASE IsChange(merged)
  <2> DEFINE u == SesEdit("CHANGE", e.one, e.length, f.two, f.length)
             r == Tail(t)
  <2>1. edits' = Append(edits, u) /\ merged' = r
    BY <1>3 DEF Collect
  <2>2. /\ e.operation = "SES_DELETE" /\ Len(merged) > 1
        /\ f.operation = "SES_INSERT" /\ e.one + e.length = f.one
    BY <1>3 DEF IsChange
  <2>3. t # <<>> /\ t[1] = f
    BY <1>1, <2>2
  <2>4. r \in Seq(Edits) /\ f \in Edits /\ <<f>> \o r = t
    <3> HIDE DEF t, f
    <3> QED BY <1>1, <2>3, FrontAgain
  <2>5. /\ f.one \in Nat /\ f.two \in Nat /\ f.length \in Nat /\ f.length > 0
        /\ f = [operation |-> f.operation, one |-> f.one, two |-> f.two, length |-> f.length]
    BY <2>4 DEF Edits
  <2>6. f.two = e.two
    <3>1. Common(equal, After(e), Before(f))
      <4>1. 1 \in 1 .. Len(merged) - 1 /\ 1 + 1 = 2
        BY <1>1, <2>2
      <4> QED BY <4>1 DEF Linked
    <3>2. After(e) = [x |-> e.one + e.length, y |-> e.two]
      BY <2>2 DEF After, Point
    <3>3. Before(f) = [x |-> f.one, y |-> f.two]
      BY DEF Before, Point
    <3>4. f.one - (e.one + e.length) = f.two - e.two
      BY <3>1, <3>2, <3>3 DEF Common
    <3> HIDE DEF e, f
    <3> QED BY <3>4, <2>2, <2>5, <1>2
  <2>7. u \in SesEdits
    BY <1>2, <2>5 DEF SesEdit, SesEdits
  <2>8. Plain(u) = <<e>> \o <<f>>
    <3>1. /\ u.original_offset = e.one /\ u.original_length = e.length
          /\ u.modified_offset = f.two /\ u.modified_length = f.length
      BY DEF SesEdit
    <3>2. /\ e = [operation |-> "SES_DELETE", one |-> e.one, two |-> f.two, length |-> e.length]
          /\ f = [operation |-> "SES_INSERT", one |-> e.one + e.length, two |-> f.two,
                  length |-> f.length]
      BY <1>2, <2>2, <2>5, <2>6
    <3>3. e.length # 0 /\ f.length # 0
      BY <1>2, <2>5
    <3> HIDE DEF u, e, f
    <3> QED BY <3>1, <3>2, <3>3 DEF Plain
  <2>9. Plain(u) \o r = merged
    <3>1. <<e>> \in Seq(Edits) /\ <<f>> \in Seq(Edits)
      BY <1>1, <2>4
    <3> DEFINE a == <<e>>
               b == <<f>>
    <3>2. a \in Seq(Edits) /\ b \in Seq(Edits) /\ b \o r = t /\ a \o t = merged
          /\ Plain(u) = a \o b
      BY <3>1, <2>4, <2>8, <1>1
    <3>4. a \in Seq(Edits) /\ b \in Seq(Edits) /\ r \in Seq(Edits)
      BY <3>2, <2>4
    <3> HIDE DEF a, b, r, t, u
    <3>3. (a \o b) \o r = a \o (b \o r)
      BY ONLY <3>4, ConcatAssociative
    <3> QED BY <3>2, <3>3
  <2> HIDE DEF u, r
  <2> QED BY <2>1, <2>4, <2>7, <2>9
<1>4. CASE ~ IsChange(merged)
  <2>1. merged' = t
    BY <1>4 DEF Collect
  <2>2. CASE e.operation = "SES_DELETE"
    <3> DEFINE u == SesEdit("DELETE", e.one, e.length, e.two, 0)
    <3>1. edits' = Append(edits, u)
      BY <1>4, <2>2 DEF Collect
    <3>2. u \in SesEdits
      BY <1>2 DEF SesEdit, SesEdits
    <3>3. Plain(u) = <<e>>
      <4>1. /\ u.original_offset = e.one /\ u.original_length = e.length
            /\ u.modified_offset = e.two /\ u.modified_length = 0
        BY DEF SesEdit
      <4>2. /\ e = [operation |-> "SES_DELETE", one |-> e.one, two |-> e.two, length |-> e.length]
            /\ e.length # 0
        BY <1>2, <2>2
      <4>3. Plain(u) = <<e>> \o <<>>
        <5> HIDE DEF u, e
        <5> QED BY <4>1, <4>2 DEF Plain
      <4>4. <<e>> \in Seq(Edits)
        BY <1>1
      <4>5. <<e>> \o <<>> = <<e>>
        BY <4>4, ConcatEmptySeq
      <4> QED BY <4>3, <4>5
    <3> HIDE DEF u
    <3> QED BY <3>1, <3>2, <3>3, <2>1, <1>1
  <2>3. CASE e.operation # "SES_DELETE"
    <3> DEFINE u == SesEdit("INSERT", e.one, 0, e.two, e.length)
    <3>1. edits' = Append(edits, u)
      BY <1>4, <2>3 DEF Collect
    <3>2. u \in SesEdits
      BY <1>2 DEF SesEdit, SesEdits
    <3>3. Plain(u) = <<e>>
      <4>1. /\ u.original_offset = e.one /\ u.original_length = 0
            /\ u.modified_offset = e.two /\ u.modified_length = e.length
        BY DEF SesEdit
      <4>2. /\ e = [operation |-> "SES_INSERT", one |-> e.one + 0, two |-> e.two,
                    length |-> e.length]
            /\ e.length # 0
        BY <1>2, <2>3 DEF Operations
      <4>3. Plain(u) = <<>> \o <<e>>
        <5> HIDE DEF u, e
        <5> QED BY <4>1, <4>2 DEF Plain
      <4>4. <<e>> \in Seq(Edits)
        BY <1>1
      <4>5. <<>> \o <<e>> = <<e>>
        BY <4>4, ConcatEmptySeq
      <4> QED BY <4>3, <4>5
    <3> HIDE DEF u
    <3> QED BY <3>1, <3>2, <3>3, <2>1, <1>1
  <2> QED BY <2>2, <2>3
<1> QED BY <1>3, <1>4

\* compute takes the next edit, or two of them, from one list to the other.
LEMMA CollectConserves ==
  ASSUME IInv, IInv', Conserved, Collect
  PROVE  Conserved'
<1>1. /\ phase = "collect" /\ phase' = "collect" /\ equal' = equal /\ failed' = failed
      /\ merged \in Seq(Edits) /\ edits \in Seq(SesEdits)
  BY DEF Collect, IInv, TypeOK, input
<1>2. SUFFICES ASSUME ~ failed
               PROVE  Shortest(Replayed' \o merged') /\ Separate(Replayed' \o merged')
  BY <1>1 DEF Conserved, Shortest, Separate
<1>3. Shortest(Replayed \o merged) /\ Separate(Replayed \o merged)
  BY <1>1, <1>2 DEF Conserved
<1>4. Replayed = FlattenSeq(Row(edits)) /\ Replayed \in Seq(Edits)
  BY <1>1, ReplayedRow
<1>5. Linked(merged)
  <2>1. Transforms(equal, Replayed \o merged, Start, End)
    BY <1>3 DEF Shortest
  <2> QED BY <2>1, <1>1, <1>4, ScriptLinked
<1>6. PICK u \in SesEdits :
        /\ edits' = Append(edits, u)
        /\ merged' \in Seq(Edits)
        /\ Plain(u) \o merged' = merged
  BY <1>1, <1>5, CollectedPlain
<1>7. Replayed' = Replayed \o Plain(u) /\ Plain(u) \in Seq(Edits)
  <2>1. Replayed' = FlattenSeq(Row(Append(edits, u)))
    BY <1>6 DEF Replayed, Row
  <2>2. /\ Row(edits) \in Seq(Seq(Edits)) /\ Plain(u) \in Seq(Edits)
        /\ Row(Append(edits, u)) = Append(Row(edits), Plain(u))
    BY <1>1, RowAppend, PlainType
  <2> DEFINE q == Row(edits)
             p == Plain(u)
  <2>3. q \in Seq(Seq(Edits)) /\ p \in Seq(Edits)
    BY <2>2
  <2> HIDE DEF p, q
  <2>4. FlattenSeq(Append(q, p)) = FlattenSeq(q) \o p
    BY <2>3, FlattenAppend
  <2> QED BY <2>1, <2>2, <2>4, <1>4 DEF p, q
<1>8. Replayed' \o merged' = Replayed \o merged
  <2> DEFINE r == Replayed
             p == Plain(u)
             m == merged'
  <2>1. r \in Seq(Edits) /\ p \in Seq(Edits) /\ m \in Seq(Edits)
    BY <1>4, <1>6, <1>7
  <2> HIDE DEF r, p, m
  <2>2. (r \o p) \o m = r \o (p \o m)
    BY <2>1, ConcatAssociative
  <2> QED BY <2>2, <1>6, <1>7 DEF r, p, m
<1> QED BY <1>3, <1>8

\* Solving and searching link edits, and neither merge nor collect any; the last
\* part leaves a shortest script behind.
LEMMA SolvingConserves ==
  ASSUME IInv, IInv', Conserved, AllSpent', merged' = merged,
         phase \in {"start", "solve", "forward", "reverse", "snake"},
         phase' \in {"solve", "forward", "reverse", "snake", "merge", "crashed", "exited"}
  PROVE  Conserved'
<1>1. merged = <<>> /\ merged' = <<>>
  BY DEF Conserved
<1>2. script' \in Seq(Edits)
  BY DEF IInv, TypeOK
<1>3. ASSUME phase' = "merge", ~ failed'
      PROVE  /\ merged' \o script' \in Seq(Edits)
             /\ Transforms(equal', merged' \o script', Start, End)
             /\ Total(merged' \o script') = Between(equal', Start, End)
  <2>1. merged' \o script' = script'
    BY <1>1, <1>2, ConcatEmptySeq
  <2> QED BY <1>2, <1>3, <2>1 DEF AllSpent
<1>4. Separate(merged')
  BY <1>1 DEF Separate
<1> QED BY <1>1, <1>3, <1>4 DEF Conserved, Shortest

\* Every step leaves what is found, merged and collected a shortest script.
LEMMA NextConserves ==
  ASSUME IInv, IInv', Conserved, [Next]_vars
  PROVE  Conserved'
<1>1. TypeOK /\ PartsOrdered /\ PartsSpend /\ Searches /\ SnakeFound
  BY DEF IInv
<1>2. CASE Begin \/ BeginMiddleSnake \/ ExtendForward \/ ExtendReverse \/ Split
  <2>1. /\ phase \in {"start", "solve", "forward", "reverse", "snake"}
        /\ phase' \in {"solve", "forward", "reverse", "snake", "exited"}
        /\ merged' = merged
    BY <1>2 DEF Begin, BeginMiddleSnake, ExtendForward, ExtendReverse, Split, Found,
                NextDiagonal, lists
  <2>2. AllSpent'
    BY <2>1 DEF AllSpent
  <2> QED BY <2>1, <2>2, SolvingConserves
<1>3. CASE SolveAtOnce
  <2>1. phase' \in {"solve", "merge", "crashed"} /\ AllSpent'
    BY <1>1, <1>3, SolveAtOnceStep
  <2>2. phase = "solve" /\ merged' = merged
    BY <1>3 DEF SolveAtOnce, lists
  <2> QED BY <2>1, <2>2, SolvingConserves
<1>4. CASE SolveFails
  <2>1. phase' \in {"solve", "merge", "crashed"} /\ AllSpent'
    BY <1>1, <1>4, SolveFailsStep
  <2>2. phase = "solve" /\ merged' = merged
    BY <1>4 DEF SolveFails, lists
  <2> QED BY <2>1, <2>2, SolvingConserves
<1>5. CASE OneSided
  <2>1. phase' \in {"solve", "merge", "crashed"} /\ AllSpent'
    BY <1>1, <1>5, OneSidedStep
  <2>2. phase = "solve" /\ merged' = merged
    BY <1>5 DEF OneSided, lists
  <2> QED BY <2>1, <2>2, SolvingConserves
<1>6. CASE LeaveSingle
  <2>1. phase' \in {"solve", "merge", "crashed"} /\ AllSpent'
    BY <1>1, <1>6, LeaveSingleStep
  <2>2. phase = "snake" /\ merged' = merged
    BY <1>6 DEF LeaveSingle, lists
  <2> QED BY <2>1, <2>2, SolvingConserves
<1>7. CASE Merge
  BY <1>7, MergeConserves
<1>8. CASE Merged
  BY <1>8, MergedConserves
<1>9. CASE Collect
  BY <1>9, CollectConserves
<1>10. CASE Return
  <2>1. /\ phase = "collect" /\ phase' = "done" /\ equal' = equal /\ failed' = failed
        /\ merged = <<>> /\ merged' = merged /\ edits' = edits
    BY <1>10 DEF Return, input, lists
  <2>2. Replayed' = Replayed
    BY <2>1 DEF Replayed
  <2> QED BY <2>1, <2>2 DEF Conserved, Shortest, Separate
<1>11. CASE UNCHANGED vars
  <2>1. /\ phase' = phase /\ equal' = equal /\ failed' = failed
        /\ merged' = merged /\ edits' = edits /\ script' = script
    BY <1>11 DEF vars, input, lists
  <2>2. Replayed' = Replayed
    BY <2>1 DEF Replayed
  <2> QED BY <2>1, <2>2 DEF Conserved, Shortest, Separate
<1> QED
  BY <1>2, <1>3, <1>4, <1>5, <1>6, <1>7, <1>8, <1>9, <1>10, <1>11 DEF Next

\* What is returned is what the service promises.
LEMMA AnswerIsShortest ==
  ASSUME IInv, Conserved, phase = "done", ~ failed
  PROVE  Service!IsShortest(Replayed)
<1>1. Replayed \in Seq(Edits) /\ Replayed \o merged = Replayed
  <2>1. Replayed \in Seq(Edits)
    BY ReplayedRow DEF IInv, TypeOK
  <2>2. merged = <<>>
    BY DEF Conserved
  <2> QED BY <2>1, <2>2, ConcatEmptySeq
<1>2. Shortest(Replayed) /\ Separate(Replayed)
  BY <1>1 DEF Conserved
<1>3. Service!Transforms(equal, Replayed, Service!Start, Service!End)
  BY <1>2 DEF Shortest, Start, End, Point, Transforms, Leaving, Arriving, Before, After,
              Common, Service!Start, Service!End, Service!Point, Service!Transforms,
              Service!Leaving, Service!Arriving, Service!Before, Service!After,
              Service!Common
<1>4. Service!Total(Replayed) = Distances(equal)[Service!End]
  <2>1. Spends(Replayed, Total(Replayed))
    BY <1>1, SpendsTotal
  <2>2. Service!Total(Replayed) = Total(Replayed)
    BY <2>1, SpendsAll
  <2>3. Service!End = End
    BY DEF Service!End, Service!Point, End, Point
  <2>4. Total(Replayed) = Between(equal, Start, End)
    BY <1>2 DEF Shortest
  <2> QED BY <2>1, <2>2, <2>3, <2>4 DEF Between, Distances
<1>5. \A i \in 1 .. Len(Replayed) - 1 : ~ Service!Mergeable(Replayed[i], Replayed[i + 1])
  BY <1>2 DEF Separate
<1> QED BY <1>3, <1>4, <1>5 DEF Service!IsShortest

\* Divide and conquer keeps the promise of shortest_edit_script.h as the quadratic
\* search does: compute answers once, with edits that transform the sequences, are as
\* few as the edit distance and no two of which could have been one; or, when memory was
\* short, it fails. (shortest_edit_script_hybrid.c, shortest_edit_script_linear_space.c,
\* shortest_edit_script.cpp:25-92)
THEOREM KeepsThePromise == Spec => ImplementsService
<1>1. Init => Conserved
  <2> SUFFICES ASSUME Init PROVE Conserved
    OBVIOUS
  <2>1. phase = "start" /\ merged = <<>>
    BY DEF Init
  <2> QED BY <2>1 DEF Conserved
<1>2. IInv /\ IInv' /\ Conserved /\ [Next]_vars => Conserved'
  BY NextConserves
<1>3. Init => Service!Init
  BY DEF Init, Service!Init, Service!Cells, Service!Start, Service!End, Service!Point,
         Cells, Start, End, Point
<1> DEFINE Abstract == <<equal,
                         IF failed \/ phase \in {"crashed", "exited"} THEN "failed"
                         ELSE IF phase = "done" THEN "answered" ELSE "pending",
                         IF phase = "done" /\ ~ failed THEN Replayed ELSE <<>>>>
           Answered == /\ phase = "done" /\ ~ failed => Service!IsShortest(Replayed)
                       /\ phase \in {"crashed", "exited"} => failed
<1>4. IInv /\ Conserved => Answered
  BY AnswerIsShortest DEF IInv, NothingMissed
<1>5. Answered /\ Answered' /\ [Next]_vars => [Service!Next]_Abstract
  <2> SUFFICES ASSUME Answered, Answered', [Next]_vars
               PROVE  [Service!Next]_Abstract
    OBVIOUS
  <2>1. CASE UNCHANGED vars
    <3>1. /\ phase' = phase /\ equal' = equal /\ failed' = failed /\ edits' = edits
      BY <2>1 DEF vars, input, lists
    <3>2. Replayed' = Replayed
      BY <3>1 DEF Replayed
    <3> QED BY <3>1, <3>2
  <2>2. CASE Next
    <3>1. equal' = equal /\ phase # "done" /\ (failed => failed')
      BY <2>2 DEF Next, Begin, SolveAtOnce, SolveFails, OneSided, BeginMiddleSnake,
                  ExtendForward, ExtendReverse, Split, LeaveSingle, Merge, Merged,
                  Collect, Return, input
    <3>2. CASE failed
      BY <3>1, <3>2
    <3>3. CASE ~ failed /\ failed'
      BY <3>1, <3>3 DEF Service!Next, Service!Fail
    <3>4. CASE ~ failed /\ ~ failed' /\ phase' = "done"
      BY <3>1, <3>4 DEF Service!Next, Service!Answer, Service!IsShortest
    <3>5. CASE ~ failed /\ ~ failed' /\ phase' # "done"
      BY <3>1, <3>5
    <3> QED BY <3>2, <3>3, <3>4, <3>5
  <2> QED BY <2>1, <2>2
<1> QED
  BY <1>1, <1>2, <1>3, <1>4, <1>5, IInvHolds, PTL DEF Spec, ImplementsService, Service!Spec
=============================================================================
