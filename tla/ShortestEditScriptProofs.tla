----------------------- MODULE ShortestEditScriptProofs -----------------------
(***************************************************************************)
(* Proofs about ShortestEditScript, for every pair of parts and every      *)
(* relation between their elements.                                        *)
(***************************************************************************)
EXTENDS ShortestEditScript, SharedTheorems

(***************************************************************************)
(* Facts about the constants.                                              *)
(***************************************************************************)
LEMMA Bounds ==
  /\ StartOne \in Nat /\ EndOne \in Nat /\ StartOne <= EndOne
  /\ StartTwo \in Nat /\ EndTwo \in Nat /\ StartTwo <= EndTwo
  /\ MaxDistance \in Nat /\ MaxDistance >= 1
  /\ MaxDistance = (EndOne - StartOne) + (EndTwo - StartTwo) + 1
  /\ Diagonals = -(MaxDistance + 1) .. (MaxDistance - 1)
  /\ Start \in Points /\ Start.x = StartOne /\ Start.y = StartTwo
  /\ End \in Points /\ End.x = EndOne /\ End.y = EndTwo
  BY BoundsAssumption
  DEF MaxDistance, Diagonals, Center, MaxDiagonals, Points, Start, End, Point

\* Where the loops are while the search runs.
Loops ==
  phase = "search" =>
    /\ distance \in 1 .. MaxDistance - 1
    /\ diagonal \in -distance .. distance
    /\ (distance - diagonal) % 2 = 0

\* The diagonal the next edit starts from, and the edit, have their types.
LEMMA MoveType ==
  ASSUME TypeOK, Loops, phase = "search"
  PROVE  /\ Origin(diagonal) \in Diagonals
         /\ Move(diagonal) \in RawEdits
         /\ Move(diagonal).operation \in Operations
         /\ Append(script[Origin(diagonal)], Move(diagonal)) \in Seq(RawEdits)
         /\ \A n \in Lengths :
              Along(Point(Move(diagonal).one, Move(diagonal).two), n) \in Points
<1>1. Origin(diagonal) \in Diagonals
  BY Bounds DEF Origin, MovesDown, Loops, TypeOK
<1>2. last_distance[Origin(diagonal)] \in Points
  BY <1>1 DEF TypeOK
<1>3. Move(diagonal) \in RawEdits
  BY <1>2 DEF Move, RawEdits, Operations, Points
<1>4. script[Origin(diagonal)] \in Seq(RawEdits)
  BY <1>1 DEF TypeOK
<1>5. Append(script[Origin(diagonal)], Move(diagonal)) \in Seq(RawEdits)
  BY <1>3, <1>4
<1>6. ASSUME NEW n \in Lengths
      PROVE  Along(Point(Move(diagonal).one, Move(diagonal).two), n) \in Points
  BY <1>3, Bounds DEF RawEdits, Along, Point, Points, Lengths
<1> QED
  BY <1>1, <1>3, <1>5, <1>6 DEF RawEdits

LEMMA NextDiagonalLoops ==
  ASSUME TypeOK, Loops, phase = "search", NextDiagonal
  PROVE  /\ Loops'
         /\ phase' \in {"search", "failed"}
         /\ distance' \in 0 .. MaxDistance
         /\ diagonal' \in Diagonals
         /\ result' \in Int
<1>1. /\ distance \in 1 .. MaxDistance - 1
      /\ diagonal \in -distance .. distance
      /\ (distance - diagonal) % 2 = 0
  BY DEF Loops
<1>2. CASE diagonal + 2 <= distance
  <2>1. diagonal' = diagonal + 2 /\ distance' = distance /\ phase' = phase /\ result' = result
    BY <1>2 DEF NextDiagonal
  <2>2. diagonal' \in -distance .. distance /\ (distance - diagonal') % 2 = 0
    BY <1>1, <1>2, <2>1, Bounds
  <2> QED
    BY <1>1, <2>1, <2>2, Bounds DEF Loops, TypeOK
<1>3. CASE ~ (diagonal + 2 <= distance)
  <2>1. /\ distance' = distance + 1
        /\ diagonal' = -(distance + 1)
        /\ IF distance + 1 < MaxDistance
           THEN phase' = phase /\ result' = result
           ELSE phase' = "failed" /\ result' = -2
    BY <1>3 DEF NextDiagonal
  <2>2. ((distance + 1) + (distance + 1)) % 2 = 0
    BY <1>1, Bounds
  <2>3. (distance' - diagonal') % 2 = 0
    BY <1>1, <2>1, <2>2, Bounds
  <2> QED
    BY <1>1, <2>1, <2>3, Bounds DEF Loops, TypeOK
<1> QED BY <1>2, <1>3

LEMMA CondensedType ==
  ASSUME NEW e \in RawEdits, NEW n \in Nat \ {0}
  PROVE  Condensed(e, n) \in Edits
  <1>1. /\ e.operation \in Operations
        /\ e.one \in Nat /\ e.two \in Nat
        /\ e.operation = "SES_DELETE" => e.one > 0
        /\ e.operation # "SES_DELETE" => e.two > 0
    BY DEF RawEdits
  <1> QED BY <1>1 DEF Condensed, Edits, Operations

(***************************************************************************)
(* Type correctness.                                                       *)
(***************************************************************************)

\* The variables keep their types, and the counters of the two loops of the
\* search keep their ranges and their parity.
THEOREM TypeInvariant == Spec => [](TypeOK /\ Loops)
<1>1. Init => TypeOK /\ Loops
  BY Bounds DEF Init, TypeOK, Loops, Points, Point
<1>2. TypeOK /\ Loops /\ [Next]_vars => TypeOK' /\ Loops'
  <2> SUFFICES ASSUME TypeOK, Loops, [Next]_vars
               PROVE  TypeOK' /\ Loops'
    OBVIOUS
  <2>1. CASE Begin
    <3>1. PICK n \in Lengths :
            /\ last_distance' = [last_distance EXCEPT ![0] = Along(Start, n)]
            /\ \/ phase' = "done" /\ UNCHANGED <<distance, diagonal>>
               \/ phase' = "search" /\ distance' = 1 /\ diagonal' = -1 /\ Along(Start, n) # End
      BY <2>1 DEF Begin
    <3>2. Along(Start, n) \in Points
      BY Bounds DEF Along, Point, Points, Lengths
    <3>3. Along(Start, n) # End => MaxDistance > 1
      BY Bounds DEF Along, Point, Points, Lengths, Start, End
    <3>4. last_distance' \in [Diagonals -> Points]
      BY <3>1, <3>2, Bounds DEF TypeOK
    <3>5. /\ UNCHANGED <<equal, num_edits, script, chain, edit_script, result>>
          /\ phase = "start"
      BY <2>1 DEF Begin, input, output
    <3>6. distance' \in 0 .. MaxDistance /\ diagonal' \in Diagonals /\ Loops'
      <4>1. CASE phase' = "done"
        BY <3>1, <3>5, <4>1 DEF Loops, TypeOK
      <4>2. CASE phase' = "search" /\ distance' = 1 /\ diagonal' = -1 /\ MaxDistance > 1
        <5>1. (1 - (-1)) % 2 = 0
          OBVIOUS
        <5>2. -1 \in Diagonals
          BY <4>2, Bounds
        <5> QED
          BY <4>2, <5>1, <5>2, Bounds DEF Loops
      <4> QED
        BY <3>1, <3>3, <4>1, <4>2
    <3> QED
      BY <3>1, <3>4, <3>5, <3>6 DEF TypeOK
  <2>2. CASE NoMemory
    BY <2>2 DEF NoMemory, Return, TypeOK, Loops, input, search, output
  <2>3. CASE Extend
    <3> DEFINE edit == Move(diagonal)
               edits == Append(script[Origin(diagonal)], edit)
    <3>1. PICK n \in Lengths :
            LET p == Along(Point(edit.one, edit.two), n)
            IN  /\ last_distance' = [last_distance EXCEPT ![diagonal] = p]
                /\ script' = [script EXCEPT ![diagonal] = edits]
                /\ Found(edits) \/ NextDiagonal
      BY <2>3 DEF Extend
    <3>2. phase = "search" /\ num_edits' = num_edits + 1 /\ equal' = equal
      BY <2>3 DEF Extend, input
    <3>3. /\ last_distance' \in [Diagonals -> Points]
          /\ script' \in [Diagonals -> Seq(RawEdits)]
      BY <3>1, <3>2, MoveType DEF TypeOK
    <3>4. CASE Found(edits)
      BY <3>2, <3>3, <3>4, MoveType DEF Found, TypeOK, Loops
    <3>5. CASE NextDiagonal
      BY <3>2, <3>3, <3>5, NextDiagonalLoops DEF NextDiagonal, TypeOK
    <3> QED BY <3>1, <3>4, <3>5
  <2>4. CASE PoolExhausted
    BY <2>4 DEF PoolExhausted, Return, TypeOK, Loops, input
  <2>5. CASE CondenseRun
    <3>1. PICK n \in 1 .. Len(chain) :
            /\ edit_script' = Append(edit_script, Condensed(chain[1], n))
            /\ chain' = SubSeq(chain, n + 1, Len(chain))
            /\ \/ phase' = "done" /\ result' = Len(edit_script) + 1
               \/ UNCHANGED <<phase, result>>
      BY <2>5 DEF CondenseRun
    <3>2. chain[1] \in RawEdits
      BY <3>1 DEF TypeOK
    <3>3. Condensed(chain[1], n) \in Edits
      BY <3>1, <3>2, CondensedType DEF TypeOK
    <3> QED
      BY <2>5, <3>1, <3>3 DEF CondenseRun, TypeOK, Loops, input, search
  <2>6. CASE CopyFails
    BY <2>6 DEF CopyFails, Return, TypeOK, Loops, input, search
  <2>7. CASE UNCHANGED vars
    BY <2>7 DEF vars, input, search, output, TypeOK, Loops, Live, Level
  <2> QED
    BY <2>1, <2>2, <2>3, <2>4, <2>5, <2>6, <2>7 DEF Next
<1> QED
  BY <1>1, <1>2, PTL DEF Spec
-----------------------------------------------------------------------------
(***************************************************************************)
(* The search is greedy: the invariant that carries the optimality proof   *)
(* says, for a point p on diagonal k and j edits, that j edits suffice to  *)
(* reach p and that no point of the grid further down the diagonal can be  *)
(* reached with j edits.  A point outside the grid is paid for by the      *)
(* distance of the nearest point of the border and the steps beyond it.    *)
(***************************************************************************)
Cost(p) == EditDistance(equal)[p]

OnDiagonal(p, k) == (p.x - StartOne) - (p.y - StartTwo) = k

Nearest(p) == Point(IF p.x <= EndOne THEN p.x ELSE EndOne,
                    IF p.y <= EndTwo THEN p.y ELSE EndTwo)

Affordable(p, j) ==
  Cost(Nearest(p)) + (p.x - Nearest(p).x) + (p.y - Nearest(p).y) <= j

Beyond(p) == p \in Points /\ p.x >= StartOne /\ p.y >= StartTwo

Unreachable(p, k, j) ==
  \A q \in Grid(Start, End) : OnDiagonal(q, k) /\ Cost(q) <= j => q.x <= p.x

Furthest(p, k, j) ==
  /\ Beyond(p)
  /\ OnDiagonal(p, k)
  /\ Affordable(p, j)
  /\ Unreachable(p, k, j)

LEMMA Distance ==
  ASSUME equal \in SUBSET Cells(Start, End)
  PROVE  IsEditDistance(equal, EditDistance(equal), Start, End)
  BY EditDistanceAssumption

LEMMA NearestPoint ==
  ASSUME NEW p, Beyond(p)
  PROVE  /\ Nearest(p) \in Grid(Start, End)
         /\ Nearest(p).x = IF p.x <= EndOne THEN p.x ELSE EndOne
         /\ Nearest(p).y = IF p.y <= EndTwo THEN p.y ELSE EndTwo
         /\ p.x \in Nat /\ p.y \in Nat
  BY Bounds DEF Beyond, Nearest, Point, Points, Grid

\* What slides along equal elements costs nothing.
LEMMA SlideAffordable ==
  ASSUME equal \in SUBSET Cells(Start, End),
         NEW m, Beyond(m), NEW j \in Nat, Affordable(m, j),
         NEW n \in Nat, \A i \in 0 .. n - 1 : Matches(Along(m, i))
  PROVE  Beyond(Along(m, n)) /\ Affordable(Along(m, n), j)
<1> DEFINE Bad == {i \in Nat : i <= n /\ ~ Affordable(Along(m, i), j)}
<1>1. m.x \in Nat /\ m.y \in Nat
  BY DEF Beyond, Points
<1>2. \A i \in Nat : /\ Beyond(Along(m, i))
                     /\ Along(m, i).x = m.x + i /\ Along(m, i).y = m.y + i
  BY <1>1, Bounds DEF Beyond, Along, Point, Points
<1>3. SUFFICES ASSUME ~ Affordable(Along(m, n), j) PROVE FALSE
  BY <1>2
<1>4. PICK i \in Bad : \A t \in Bad : i <= t
  <2>1. Bad \subseteq Nat /\ n \in Bad
    BY <1>3
  <2> HIDE DEF Bad
  <2> QED BY <2>1, LeastElement
<1>5. Along(m, 0) = m
  BY <1>1 DEF Along, Point, Beyond, Points
<1>6. i # 0
  BY <1>5
<1>7. i - 1 \in Nat /\ i - 1 \in 0 .. n - 1 /\ Affordable(Along(m, i - 1), j)
  <2>1. i \in Nat /\ i <= n
    OBVIOUS
  <2>2. i - 1 \in Nat /\ i - 1 <= n
    BY <2>1, <1>6
  <2>3. ~ (i - 1 \in Bad)
    <3> HIDE DEF Bad
    <3> QED BY <1>4, <2>1, <2>2
  <2> QED BY <2>1, <2>2, <2>3
<1> DEFINE p == Along(m, i)
           q == Along(m, i - 1)
<1>8. Matches(q)
  BY <1>7
<1>9. q.x < EndOne /\ q.y < EndTwo /\ <<q.x, q.y>> \in equal
  BY <1>8 DEF Matches
<1>10. /\ p.x = q.x + 1 /\ p.y = q.y + 1
       /\ q.x \in Nat /\ q.y \in Nat /\ q.x >= StartOne /\ q.y >= StartTwo
  BY <1>2, <1>7, <1>1 DEF Beyond, Points
<1>11. /\ Nearest(p) = p /\ Nearest(q) = q
       /\ p \in Grid(Start, End) /\ q \in Grid(Start, End)
       /\ ByMatch(equal, Start, p) /\ Diagonal(p) = q
  <2>1. p = Point(q.x + 1, q.y + 1) /\ q = Point(q.x, q.y)
    BY <1>10, <1>7, <1>1 DEF Along, Point
  <2> HIDE DEF p, q
  <2>2. /\ StartOne <= p.x /\ p.x <= EndOne /\ StartTwo <= p.y /\ p.y <= EndTwo
        /\ q.x <= EndOne /\ q.y <= EndTwo /\ p.x \in Nat /\ p.y \in Nat
    BY <1>9, <1>10, BoundsAssumption
  <2>3. p = [x |-> p.x, y |-> p.y] /\ q = [x |-> q.x, y |-> q.y]
    BY <2>1, <1>10 DEF Point
  <2>7. p \in Grid(Start, End) /\ q \in Grid(Start, End)
    BY <2>2, <2>3, <1>10, BoundsAssumption DEF Grid, Start, End, Point
  <2>8. Nearest(p) = p /\ Nearest(q) = q
    BY <2>2, <2>3 DEF Nearest, Point
  <2>4. p.x - 1 = q.x /\ p.y - 1 = q.y /\ p.x > StartOne /\ p.y > StartTwo
    <3>1. StartOne \in Nat /\ StartTwo \in Nat
      BY Bounds
    <3> QED BY <1>10, <3>1
  <2>5. Diagonal(p) = q
    BY <2>1, <1>10 DEF Diagonal, Along, Point
  <2>6. ByMatch(equal, Start, p)
    BY <2>4, <1>9, Bounds DEF ByMatch
  <2> QED BY <2>5, <2>6, <2>7, <2>8
<1>12. Cost(p) <= Cost(q) /\ Cost(p) \in Nat /\ Cost(q) \in Nat
  BY <1>11, Distance DEF IsEditDistance, Cost
<1>13. Affordable(p, j)
  BY <1>7, <1>10, <1>11, <1>12 DEF Affordable
<1> QED BY <1>13

\* Beyond the move a point can only be reached along the diagonal, and the
\* slide ends where that is no longer possible.
LEMMA SlideFurthest ==
  ASSUME equal \in SUBSET Cells(Start, End),
         NEW m, Beyond(m), NEW j \in Nat, NEW k \in Int, OnDiagonal(m, k),
         \A q \in Grid(Start, End) :
            OnDiagonal(q, k) /\ Cost(q) <= j /\ q.x > m.x
            => ByMatch(equal, Start, q) /\ Cost(q) = Cost(Diagonal(q)),
         NEW n \in Nat, ~ Matches(Along(m, n))
  PROVE  Unreachable(Along(m, n), k, j)
<1> DEFINE p == Along(m, n)
    Bad == {s \in Nat : \E q \in Grid(Start, End) :
                           /\ q.x = s /\ OnDiagonal(q, k) /\ Cost(q) <= j
                           /\ q.x > p.x}
<1>1. m.x \in Nat /\ m.y \in Nat /\ p.x = m.x + n /\ p.y = m.y + n
  BY DEF Beyond, Points, Along, Point
<1>2. SUFFICES ASSUME NEW r \in Grid(Start, End), OnDiagonal(r, k), Cost(r) <= j, r.x > p.x
               PROVE  FALSE
  <2>1. p.x \in Int /\ \A r \in Grid(Start, End) : r.x \in Int
    BY <1>1, Bounds, GridPoints
  <2> QED BY <2>1 DEF Unreachable
<1>3. r.x \in Bad
  BY <1>2, GridPoints, Bounds
<1>4. PICK s \in Bad : \A t \in Bad : s <= t
  <2>1. Bad \subseteq Nat /\ Bad # {}
    BY <1>3
  <2> HIDE DEF Bad
  <2> QED BY <2>1, LeastElement
<1>5. PICK q \in Grid(Start, End) :
        q.x = s /\ OnDiagonal(q, k) /\ Cost(q) <= j /\ q.x > p.x
  OBVIOUS
<1>6. ByMatch(equal, Start, q) /\ Cost(q) = Cost(Diagonal(q))
  BY <1>1, <1>5
<1> DEFINE t == Diagonal(q)
<1>7. t \in Grid(Start, End) /\ t.x = q.x - 1 /\ t.y = q.y - 1 /\ q.x \in Nat /\ q.y \in Nat
  BY <1>6, GridPoints, Bounds
<1>8. OnDiagonal(t, k) /\ Cost(t) <= j
  <2>1. Cost(t) <= j
    BY <1>5, <1>6
  <2>2. (q.x - StartOne) - (q.y - StartTwo) = k /\ StartOne \in Nat /\ StartTwo \in Nat
    BY <1>5, Bounds DEF OnDiagonal
  <2> HIDE DEF t
  <2>3. (t.x - StartOne) - (t.y - StartTwo) = k
    BY <2>2, <1>7
  <2> QED BY <2>1, <2>3 DEF OnDiagonal
<1>9. ~ (t.x > p.x)
  <2> SUFFICES ASSUME t.x > p.x PROVE FALSE
    OBVIOUS
  <2>1. t.x \in Bad
    BY <1>7, <1>8, GridPoints, Bounds
  <2>2. s <= t.x
    BY <2>1, <1>4
  <2> HIDE DEF Bad, t
  <2> QED BY <2>2, <1>5, <1>7
<1>10. t.x = p.x /\ t.y = p.y
  <2>1. t.x = p.x
    <3> HIDE DEF Bad, t, p
    <3> QED BY <1>1, <1>5, <1>7, <1>9
  <2>2. (p.x - StartOne) - (p.y - StartTwo) = k
    <3> HIDE DEF Bad, t, p
    <3> QED BY <1>1, BoundsAssumption DEF OnDiagonal
  <2>3. (t.x - StartOne) - (t.y - StartTwo) = k
    BY <1>8 DEF OnDiagonal
  <2> HIDE DEF Bad, t, p
  <2>4. /\ t.x \in Int /\ t.y \in Int /\ p.x \in Int /\ p.y \in Int
        /\ StartOne \in Int /\ StartTwo \in Int
    BY <1>1, <1>7, BoundsAssumption
  <2> QED BY <2>1, <2>2, <2>3, <2>4
<1>11. Matches(p)
  <2>1. q.x <= EndOne /\ q.y <= EndTwo
    BY GridPoints, Bounds
  <2>2. <<p.x, p.y>> \in equal
    BY <1>6, <1>7, <1>10 DEF ByMatch
  <2> HIDE DEF Bad, t, p
  <2>3. p.x < EndOne /\ p.y < EndTwo
    BY <2>1, <1>7, <1>10, BoundsAssumption
  <2> QED BY <2>2, <2>3 DEF Matches
<1> QED BY <1>11
-----------------------------------------------------------------------------
Reached(k, j) ==
  /\ Furthest(last_distance[k], k, j)
  /\ last_distance[k] # End
  /\ Len(script[k]) = j
  /\ Transforms(equal, Unit(script[k]), Start, last_distance[k])

\* The diagonals passed in this round, those of the round before, and that the
\* end is not within reach of fewer edits than are being tried.
Passed == \A k \in -distance .. diagonal - 2 :
            (distance - k) % 2 = 0 => Reached(k, distance)

Previous == \A k \in -(distance - 1) .. distance - 1 :
              ((distance - 1) - k) % 2 = 0 => Reached(k, distance - 1)

Frontier ==
  phase = "search" => Passed /\ Previous /\ Cost(End) >= distance

\* The edit taken for a diagonal starts at a neighbour that is furthest for one
\* edit less, and leads to a point of the diagonal.
LEMMA OriginReached ==
  ASSUME TypeOK, Loops, Frontier, phase = "search"
  PROVE  Reached(Origin(diagonal), distance - 1)
<1>1. /\ distance \in 1 .. MaxDistance - 1
      /\ diagonal \in -distance .. distance
      /\ (distance - diagonal) % 2 = 0
      /\ Previous
  BY DEF Loops, Frontier
<1>2. Origin(diagonal) \in -(distance - 1) .. distance - 1
  <2>1. CASE diagonal = -distance
    BY <1>1, <2>1, Bounds DEF Origin, MovesDown
  <2>2. CASE diagonal = distance /\ diagonal # -distance
    BY <1>1, <2>2, Bounds DEF Origin, MovesDown
  <2>3. CASE diagonal # distance /\ diagonal # -distance
    BY <1>1, <2>3, Bounds DEF Origin, MovesDown
  <2> QED BY <2>1, <2>2, <2>3
<1>3. ((distance - 1) - Origin(diagonal)) % 2 = 0
  <2>1. Origin(diagonal) \in {diagonal - 1, diagonal + 1}
    BY DEF Origin
  <2>2. ((distance - 1) - (diagonal - 1)) % 2 = 0 /\ ((distance - 1) - (diagonal + 1)) % 2 = 0
    BY <1>1, Bounds
  <2> QED BY <2>1, <2>2
<1> QED BY <1>1, <1>2, <1>3 DEF Previous

\* A neighbour that exists is furthest for one edit less.
LEMMA NeighbourReached ==
  ASSUME TypeOK, Loops, Frontier, phase = "search"
  PROVE  /\ diagonal # -distance => Reached(diagonal - 1, distance - 1)
         /\ diagonal # distance => Reached(diagonal + 1, distance - 1)
<1>1. /\ distance \in 1 .. MaxDistance - 1
      /\ diagonal \in -distance .. distance
      /\ (distance - diagonal) % 2 = 0
      /\ Previous
  BY DEF Loops, Frontier
<1>2. ((distance - 1) - (diagonal - 1)) % 2 = 0 /\ ((distance - 1) - (diagonal + 1)) % 2 = 0
  BY <1>1, Bounds
<1>3. diagonal # -distance => diagonal - 1 \in -(distance - 1) .. distance - 1
  BY <1>1, Bounds
<1>4. diagonal # distance => diagonal + 1 \in -(distance - 1) .. distance - 1
  BY <1>1, Bounds
<1> QED BY <1>1, <1>2, <1>3, <1>4 DEF Previous

Target == Point(Move(diagonal).one, Move(diagonal).two)

LEMMA MoveAffordable ==
  ASSUME TypeOK, Loops, Frontier, phase = "search"
  PROVE  /\ Beyond(Target)
         /\ OnDiagonal(Target, diagonal)
         /\ Affordable(Target, distance)
<1> DEFINE o == last_distance[Origin(diagonal)]
           m == Target
<1>1. Beyond(o) /\ OnDiagonal(o, Origin(diagonal)) /\ Affordable(o, distance - 1)
  BY OriginReached DEF Reached, Furthest
<1>2. \/ MovesDown(diagonal) /\ m.x = o.x /\ m.y = o.y + 1 /\ Origin(diagonal) = diagonal + 1
      \/ ~ MovesDown(diagonal) /\ m.x = o.x + 1 /\ m.y = o.y /\ Origin(diagonal) = diagonal - 1
  BY DEF Move, Point, Origin, Target
<1>3. o.x \in Nat /\ o.y \in Nat /\ m \in Points
  BY <1>1, <1>2 DEF Beyond, Points, Point, Target
<1>4. diagonal \in Int /\ distance \in Int
  BY DEF Loops
<1>5. Beyond(m) /\ OnDiagonal(m, diagonal)
  <2>1. /\ o.x >= StartOne /\ o.y >= StartTwo
        /\ (o.x - StartOne) - (o.y - StartTwo) = Origin(diagonal)
    BY <1>1, Bounds DEF Beyond, OnDiagonal
  <2>2. m.x \in Nat /\ m.y \in Nat
    BY <1>3 DEF Points
  <2> HIDE DEF o, m
  <2>3. /\ m.x >= StartOne /\ m.y >= StartTwo
        /\ (m.x - StartOne) - (m.y - StartTwo) = diagonal
    BY <2>1, <2>2, <1>2, <1>3, <1>4, BoundsAssumption
  <2> QED BY <2>3, <1>3 DEF Beyond, OnDiagonal
<1>6. Affordable(m, distance)
  <2> DEFINE a == Nearest(o)
             b == Nearest(m)
  <2>1. /\ a \in Grid(Start, End) /\ b \in Grid(Start, End)
        /\ a.x = IF o.x <= EndOne THEN o.x ELSE EndOne
        /\ a.y = IF o.y <= EndTwo THEN o.y ELSE EndTwo
        /\ b.x = IF m.x <= EndOne THEN m.x ELSE EndOne
        /\ b.y = IF m.y <= EndTwo THEN m.y ELSE EndTwo
    BY <1>1, <1>5, NearestPoint
  <2>2. Cost(a) \in Nat /\ Cost(b) \in Nat
    BY <2>1, Distance DEF IsEditDistance, TypeOK, Cost
  <2>3. /\ a = [x |-> a.x, y |-> a.y]
        /\ b = [x |-> b.x, y |-> b.y]
    BY DEF Nearest, Point
  <2>4. Cost(b) + (m.x - b.x) + (m.y - b.y) <= Cost(a) + (o.x - a.x) + (o.y - a.y) + 1
    <3>1. CASE MovesDown(diagonal) /\ o.y < EndTwo
      <4>1. b.x = a.x /\ b.y = a.y + 1
        BY <1>2, <1>3, <2>1, <3>1, BoundsAssumption
      <4>2. ByInsertion(Start, b) /\ Above(b) = a
        <5>1. o.x >= StartOne /\ o.y >= StartTwo
          BY <1>1, Bounds DEF Beyond
        <5>2. a.x \in Nat /\ a.y \in Nat /\ a.x >= StartOne /\ a.y >= StartTwo
          BY <5>1, <2>1, <1>3, BoundsAssumption
        <5>3. Start.x = StartOne /\ Start.y = StartTwo /\ StartOne \in Nat /\ StartTwo \in Nat
          BY Bounds
        <5> HIDE DEF a, b, m, o
        <5>4. b.y - 1 = a.y /\ b.x = a.x /\ b.x >= Start.x /\ b.y > Start.y
          BY <5>2, <5>3, <4>1
        <5>5. Above(b) = a
          BY <5>4, <2>3 DEF Above, Point
        <5> QED BY <5>4, <5>5 DEF ByInsertion
      <4>3. Cost(b) <= Cost(a) + 1
        BY <4>2, <2>1, Distance DEF IsEditDistance, TypeOK, Cost
      <4> HIDE DEF a, b, m, o
      <4> QED BY <4>1, <4>3, <1>2, <1>3, <2>1, <2>2, <3>1, BoundsAssumption
    <3>2. CASE ~ MovesDown(diagonal) /\ o.x < EndOne
      <4>1. b.x = a.x + 1 /\ b.y = a.y
        BY <1>2, <1>3, <2>1, <3>2, BoundsAssumption
      <4>2. ByDeletion(Start, b) /\ Left(b) = a
        <5>1. o.x >= StartOne /\ o.y >= StartTwo
          BY <1>1, Bounds DEF Beyond
        <5>2. a.x \in Nat /\ a.y \in Nat /\ a.x >= StartOne /\ a.y >= StartTwo
          BY <5>1, <2>1, <1>3, BoundsAssumption
        <5>3. Start.x = StartOne /\ Start.y = StartTwo /\ StartOne \in Nat /\ StartTwo \in Nat
          BY Bounds
        <5> HIDE DEF a, b, m, o
        <5>4. b.x - 1 = a.x /\ b.y = a.y /\ b.x > Start.x /\ b.y >= Start.y
          BY <5>2, <5>3, <4>1
        <5>5. Left(b) = a
          BY <5>4, <2>3 DEF Left, Point
        <5> QED BY <5>4, <5>5 DEF ByDeletion
      <4>3. Cost(b) <= Cost(a) + 1
        BY <4>2, <2>1, Distance DEF IsEditDistance, TypeOK, Cost
      <4> HIDE DEF a, b, m, o
      <4> QED BY <4>1, <4>3, <1>2, <1>3, <2>1, <2>2, <3>2, BoundsAssumption
    <3>3. CASE \/ MovesDown(diagonal) /\ ~ (o.y < EndTwo)
               \/ ~ MovesDown(diagonal) /\ ~ (o.x < EndOne)
      <4>1. b.x = a.x /\ b.y = a.y
        BY <1>2, <1>3, <2>1, <3>3, BoundsAssumption
      <4>2. b = a
        BY <4>1, <2>3
      <4> HIDE DEF a, b, m, o
      <4> QED BY <4>2, <1>2, <1>3, <2>1, <2>2, <3>3, BoundsAssumption
    <3> QED BY <3>1, <3>2, <3>3
  <2>5. Cost(a) + (o.x - a.x) + (o.y - a.y) <= distance - 1
    BY <1>1 DEF Affordable
  <2>6. /\ a.x \in Int /\ a.y \in Int /\ b.x \in Int /\ b.y \in Int
        /\ m.x \in Int /\ m.y \in Int
    BY <1>2, <1>3, <2>1, BoundsAssumption
  <2> HIDE DEF a, b, m, o
  <2>7. Cost(b) + (m.x - b.x) + (m.y - b.y) <= distance
    BY <2>2, <2>4, <2>5, <2>6, <1>3, <1>4
  <2> QED BY <2>7 DEF Affordable, b, m
<1> QED BY <1>5, <1>6

\* Beyond the move, the diagonal is only entered along the diagonal itself: its
\* neighbours do not reach that far with one edit less.
LEMMA MoveFurthest ==
  ASSUME TypeOK, Loops, Frontier, phase = "search",
         NEW q \in Grid(Start, End),
         OnDiagonal(q, diagonal), Cost(q) <= distance, q.x > Target.x
  PROVE  ByMatch(equal, Start, q) /\ Cost(q) = Cost(Diagonal(q))
<1> DEFINE L == last_distance[diagonal - 1]
           R == last_distance[diagonal + 1]
<1>1. distance \in Nat /\ distance >= 1 /\ diagonal \in Int
  BY DEF Loops
<1>2. /\ diagonal # -distance => Beyond(L) /\ Unreachable(L, diagonal - 1, distance - 1)
      /\ diagonal # distance => Beyond(R) /\ Unreachable(R, diagonal + 1, distance - 1)
  BY NeighbourReached DEF Reached, Furthest
<1>3. /\ diagonal # -distance => Target.x >= L.x + 1
      /\ diagonal # distance => Target.x >= R.x
  <2>1. CASE MovesDown(diagonal)
    <3>1. Target.x = R.x
      BY <2>1 DEF Target, Move, Origin, Point
    <3>2. diagonal # distance
      BY <2>1, <1>1 DEF MovesDown
    <3>3. diagonal # -distance => L.x < R.x
      BY <2>1 DEF MovesDown
    <3> QED BY <3>1, <3>2, <3>3, <1>2 DEF Beyond, Points
  <2>2. CASE ~ MovesDown(diagonal)
    <3>1. Target.x = L.x + 1
      BY <2>2 DEF Target, Move, Origin, Point
    <3>2. diagonal # -distance
      BY <2>2 DEF MovesDown
    <3>3. diagonal # distance => ~ (L.x < R.x)
      BY <2>2 DEF MovesDown
    <3> QED BY <3>1, <3>2, <3>3, <1>2 DEF Beyond, Points
  <2> QED BY <2>1, <2>2
<1>4. /\ q.x \in Nat /\ q.y \in Nat /\ q.x >= StartOne /\ q.y >= StartTwo
      /\ (q.x - StartOne) - (q.y - StartTwo) = diagonal
      /\ Cost(q) \in Nat
  BY GridPoints, Bounds, Distance DEF OnDiagonal, IsEditDistance, TypeOK, Cost
<1>5. Target.x >= StartOne /\ Target.x \in Nat
  BY MoveAffordable, Bounds DEF Beyond, Points
<1>6. q # Start
  <2>1. Start.x = StartOne
    BY Bounds
  <2>2. q.x > StartOne
    BY <1>4, <1>5, BoundsAssumption
  <2> QED BY <2>1, <2>2, BoundsAssumption
<1>7. ~ (ByDeletion(Start, q) /\ Cost(q) = Cost(Left(q)) + 1)
  <2> SUFFICES ASSUME ByDeletion(Start, q), Cost(q) = Cost(Left(q)) + 1
               PROVE  FALSE
    OBVIOUS
  <2> DEFINE t == Left(q)
  <2>1. t \in Grid(Start, End) /\ t.x = q.x - 1 /\ t.y = q.y
    BY GridPoints, Bounds
  <2>2. /\ Cost(t) \in Nat
        /\ (t.y - StartTwo) - (t.x - StartOne) <= Cost(t)
    BY <2>1, Distance, DistanceOfDiagonal, Bounds DEF TypeOK, Cost
  <2> HIDE DEF t
  <2>3. Cost(t) <= distance - 1 /\ OnDiagonal(t, diagonal - 1)
    <3>1. Cost(q) = Cost(t) + 1
      BY DEF t
    <3>2. (t.x - StartOne) - (t.y - StartTwo) = diagonal - 1
      BY <2>1, <1>4, <1>1, BoundsAssumption
    <3> QED BY <3>1, <3>2, <2>2, <1>1 DEF OnDiagonal
  <2>4. CASE diagonal = -distance
    BY <2>1, <2>2, <2>3, <2>4, <1>1, <1>4, BoundsAssumption
  <2>5. CASE diagonal # -distance
    <3>1. t.x <= L.x
      BY <2>1, <2>3, <2>5, <1>2 DEF Unreachable
    <3>2. L.x \in Nat /\ Target.x >= L.x + 1
      BY <2>5, <1>2, <1>3 DEF Beyond, Points
    <3> QED BY <3>1, <3>2, <2>1, <1>4, <1>5
  <2> QED BY <2>4, <2>5
<1>8. ~ (ByInsertion(Start, q) /\ Cost(q) = Cost(Above(q)) + 1)
  <2> SUFFICES ASSUME ByInsertion(Start, q), Cost(q) = Cost(Above(q)) + 1
               PROVE  FALSE
    OBVIOUS
  <2> DEFINE t == Above(q)
  <2>1. t \in Grid(Start, End) /\ t.x = q.x /\ t.y = q.y - 1
    BY GridPoints, Bounds
  <2>2. /\ Cost(t) \in Nat
        /\ (t.x - StartOne) - (t.y - StartTwo) <= Cost(t)
    BY <2>1, Distance, DistanceOfDiagonal, Bounds DEF TypeOK, Cost
  <2> HIDE DEF t
  <2>3. Cost(t) <= distance - 1 /\ OnDiagonal(t, diagonal + 1)
    <3>1. Cost(q) = Cost(t) + 1
      BY DEF t
    <3>2. (t.x - StartOne) - (t.y - StartTwo) = diagonal + 1
      <4>1. /\ q.x \in Int /\ q.y \in Int /\ diagonal \in Int
            /\ StartOne \in Int /\ StartTwo \in Int
        BY <1>4, <1>1, BoundsAssumption
      <4>2. (q.x - StartOne) - ((q.y - 1) - StartTwo) = ((q.x - StartOne) - (q.y - StartTwo)) + 1
        BY <4>1
      <4> QED BY <4>2, <2>1, <1>4
    <3> QED BY <3>1, <3>2, <2>2, <1>1 DEF OnDiagonal
  <2>4. CASE diagonal = distance
    BY <2>1, <2>2, <2>3, <2>4, <1>1, <1>4, BoundsAssumption
  <2>5. CASE diagonal # distance
    <3>1. t.x <= R.x
      BY <2>1, <2>3, <2>5, <1>2 DEF Unreachable
    <3>2. R.x \in Nat /\ Target.x >= R.x
      BY <2>5, <1>2, <1>3 DEF Beyond, Points
    <3> QED BY <3>1, <3>2, <2>1, <1>4, <1>5
  <2> QED BY <2>4, <2>5
<1>9. \/ ByDeletion(Start, q) /\ Cost(q) = Cost(Left(q)) + 1
      \/ ByInsertion(Start, q) /\ Cost(q) = Cost(Above(q)) + 1
      \/ ByMatch(equal, Start, q) /\ Cost(q) = Cost(Diagonal(q))
  BY <1>6, Distance DEF IsEditDistance, TypeOK, Cost
<1> QED BY <1>7, <1>8, <1>9

LEMMA ExtendFurthest ==
  ASSUME TypeOK, Loops, Frontier, phase = "search",
         NEW n \in Nat, Slides(Target, n)
  PROVE  Furthest(Along(Target, n), diagonal, distance)
<1>1. /\ distance \in Nat /\ diagonal \in Int
      /\ equal \in SUBSET Cells(Start, End)
  BY DEF Loops, TypeOK
<1>2. /\ Beyond(Target) /\ OnDiagonal(Target, diagonal)
      /\ Affordable(Target, distance)
  BY MoveAffordable
<1>3. /\ \A i \in 0 .. n - 1 : Matches(Along(Target, i))
      /\ ~ Matches(Along(Target, n))
  BY DEF Slides
<1>4. Beyond(Along(Target, n)) /\ Affordable(Along(Target, n), distance)
  BY <1>1, <1>2, <1>3, SlideAffordable
<1>5. Unreachable(Along(Target, n), diagonal, distance)
  BY <1>1, <1>2, <1>3, SlideFurthest, MoveFurthest
<1>6. OnDiagonal(Along(Target, n), diagonal)
  <2>1. Target.x \in Nat /\ Target.y \in Nat
    BY <1>2 DEF Beyond, Points
  <2> QED
    BY <2>1, <1>1, <1>2, BoundsAssumption DEF OnDiagonal, Along, Point
<1> QED BY <1>4, <1>5, <1>6 DEF Furthest

(***************************************************************************)
(* The edits recorded for a diagonal lead to its point.                    *)
(***************************************************************************)
LEMMA UnitSeq ==
  ASSUME NEW es \in Seq(RawEdits)
  PROVE  /\ Unit(es) \in Seq(Edits)
         /\ Len(Unit(es)) = Len(es)
         /\ \A i \in 1 .. Len(es) : Unit(es)[i] = Condensed(es[i], 1)
<1>1. DOMAIN es = 1 .. Len(es) /\ Len(es) \in Nat
  OBVIOUS
<1>2. \A i \in 1 .. Len(es) : Condensed(es[i], 1) \in Edits
  BY CondensedType
<1>3. Unit(es) \in [1 .. Len(es) -> Edits]
  BY <1>1, <1>2 DEF Unit
<1> QED BY <1>1, <1>3 DEF Unit

LEMMA UnitAppend ==
  ASSUME NEW es \in Seq(RawEdits), NEW e \in RawEdits
  PROVE  Unit(Append(es, e)) = Append(Unit(es), Condensed(e, 1))
<1> DEFINE fs == Append(es, e)
           us == Append(Unit(es), Condensed(e, 1))
<1>1. fs \in Seq(RawEdits) /\ Len(fs) = Len(es) + 1 /\ Len(es) \in Nat
  OBVIOUS
<1>2. Condensed(e, 1) \in Edits
  BY CondensedType
<1>3. us \in Seq(Edits) /\ Len(us) = Len(es) + 1
  BY <1>2, UnitSeq
<1>4. Unit(fs) \in Seq(Edits) /\ Len(Unit(fs)) = Len(es) + 1
  BY <1>1, UnitSeq
<1>5. ASSUME NEW i \in 1 .. Len(es) + 1
      PROVE  Unit(fs)[i] = us[i]
  <2>1. Unit(fs)[i] = Condensed(fs[i], 1)
    BY <1>1, UnitSeq
  <2>2. CASE i \in 1 .. Len(es)
    <3>1. fs[i] = es[i]
      BY <2>2
    <3>2. us[i] = Unit(es)[i]
      BY <2>2, UnitSeq, <1>2
    <3>3. Unit(es)[i] = Condensed(es[i], 1)
      BY <2>2, UnitSeq
    <3> HIDE DEF fs, us
    <3> QED BY <2>1, <3>1, <3>2, <3>3
  <2>3. CASE i = Len(es) + 1
    <3>1. fs[i] = e
      BY <2>3
    <3>2. us[i] = Condensed(e, 1)
      BY <2>3, UnitSeq, <1>2
    <3> HIDE DEF fs, us
    <3> QED BY <2>1, <3>1, <3>2
  <2>4. i \in 1 .. Len(es) \/ i = Len(es) + 1
    BY <1>1
  <2> QED BY <2>2, <2>3, <2>4
<1> HIDE DEF fs, us
<1>6. Unit(fs) = us
  BY <1>3, <1>4, <1>5, <1>1
<1> QED BY <1>6 DEF fs, us

LEMMA SlidesCommon ==
  ASSUME NEW p \in Points, NEW n \in Nat, Slides(p, n)
  PROVE  Common(equal, p, Along(p, n))
  BY DEF Slides, Matches, Common, Along, Point, Points

LEMMA ExtendLeads ==
  ASSUME TypeOK, Loops, Frontier, phase = "search",
         NEW n \in Nat, Slides(Target, n)
  PROVE  LET edits == Append(script[Origin(diagonal)], Move(diagonal))
         IN  /\ Len(edits) = distance
             /\ Transforms(equal, Unit(edits), Start, Along(Target, n))
<1> DEFINE o == last_distance[Origin(diagonal)]
           es == script[Origin(diagonal)]
           u == Condensed(Move(diagonal), 1)
<1>1. /\ Len(es) = distance - 1
      /\ Transforms(equal, Unit(es), Start, o)
      /\ o \in Points
  BY OriginReached DEF Reached, Furthest, Beyond
<1>2. es \in Seq(RawEdits) /\ Move(diagonal) \in RawEdits /\ distance \in Nat
  BY MoveType DEF TypeOK, Loops
<1>3. Before(u) = o /\ After(u) = Target
  <2>1. o = [x |-> o.x, y |-> o.y] /\ o.x \in Nat /\ o.y \in Nat
    BY <1>1 DEF Points
  <2>2. Move(diagonal) = IF MovesDown(diagonal)
                         THEN [operation |-> "SES_INSERT", one |-> o.x, two |-> o.y + 1, length |-> 1]
                         ELSE [operation |-> "SES_DELETE", one |-> o.x + 1, two |-> o.y, length |-> 1]
    BY DEF Move
  <2> HIDE DEF o
  <2> DEFINE e == Move(diagonal)
  <2>3. u = Condensed(e, 1) /\ Target = Point(e.one, e.two)
    BY DEF Target
  <2> HIDE DEF u, e
  <2>4. CASE e = [operation |-> "SES_INSERT", one |-> o.x, two |-> o.y + 1, length |-> 1]
    <3>1. u = [operation |-> "SES_INSERT", one |-> o.x, two |-> o.y, length |-> 1]
      BY <2>1, <2>3, <2>4 DEF Condensed
    <3>2. Target = Point(o.x, o.y + 1)
      BY <2>3, <2>4
    <3> QED BY <2>1, <3>1, <3>2 DEF Before, After, Point
  <2>5. CASE e = [operation |-> "SES_DELETE", one |-> o.x + 1, two |-> o.y, length |-> 1]
    <3>1. u = [operation |-> "SES_DELETE", one |-> o.x, two |-> o.y, length |-> 1]
      BY <2>1, <2>3, <2>5 DEF Condensed
    <3>2. Target = Point(o.x + 1, o.y)
      BY <2>3, <2>5
    <3> QED BY <2>1, <3>1, <3>2 DEF Before, After, Point
  <2> QED BY <2>2, <2>4, <2>5 DEF e
<1>4. u \in Edits
  BY <1>2, CondensedType
<1>5. Common(equal, Target, Along(Target, n))
  BY MoveAffordable, SlidesCommon DEF Beyond
<1>6. Unit(Append(es, Move(diagonal))) = Append(Unit(es), u)
  BY <1>2, UnitAppend
<1>7. Transforms(equal, Append(Unit(es), u), Start, Along(Target, n))
  <2>1. Unit(es) \in Seq(Edits)
    BY <1>2, UnitSeq
  <2> HIDE DEF es, u, o
  <2> QED BY <1>1, <1>3, <1>4, <1>5, <2>1, TransformsAppend
<1> QED BY <1>1, <1>2, <1>6, <1>7
-----------------------------------------------------------------------------
(***************************************************************************)
(* One iteration preserves the frontier.                                   *)
(***************************************************************************)
LEMMA ReachedNext ==
  ASSUME equal' = equal, NEW k, NEW j,
         Furthest(last_distance'[k], k, j), last_distance'[k] # End,
         Len(script'[k]) = j,
         Transforms(equal, Unit(script'[k]), Start, last_distance'[k])
  PROVE  Reached(k, j)'
  BY DEF Reached, Furthest, Beyond, Affordable, Nearest, OnDiagonal, Unreachable,
         Cost, Unit

\* What an iteration that does not reach the end has changed.
Extended(n) ==
  /\ equal' = equal
  /\ Slides(Target, n)
  /\ last_distance' = [last_distance EXCEPT ![diagonal] = Along(Target, n)]
  /\ script' = [script EXCEPT ![diagonal] =
                  Append(script[Origin(diagonal)], Move(diagonal))]

LEMMA ExtendedReached ==
  ASSUME TypeOK, Loops, Frontier, phase = "search",
         NEW n \in Nat, Extended(n), Along(Target, n) # End
  PROVE  /\ \A k, j : k = diagonal /\ j = distance => Reached(k, j)'
         /\ \A j : \A k \in Diagonals : k # diagonal /\ Reached(k, j) => Reached(k, j)'
         /\ Furthest(last_distance'[diagonal], diagonal, distance)
         /\ last_distance'[diagonal] # End
<1>1. last_distance'[diagonal] = Along(Target, n)
  BY DEF Extended, TypeOK
<1>2. script'[diagonal] = Append(script[Origin(diagonal)], Move(diagonal))
  BY DEF Extended, TypeOK
<1>3. Furthest(last_distance'[diagonal], diagonal, distance)
  BY <1>1, ExtendFurthest DEF Extended
<1>4. /\ Len(script'[diagonal]) = distance
      /\ Transforms(equal, Unit(script'[diagonal]), Start, last_distance'[diagonal])
  BY <1>1, <1>2, ExtendLeads DEF Extended
<1>5. ASSUME NEW k, NEW j, k = diagonal, j = distance
      PROVE  Reached(k, j)'
  <2>1. /\ Furthest(last_distance'[k], k, j) /\ last_distance'[k] # End
        /\ Len(script'[k]) = j
        /\ Transforms(equal, Unit(script'[k]), Start, last_distance'[k])
    BY <1>1, <1>3, <1>4, <1>5
  <2> QED BY <2>1, ReachedNext DEF Extended
<1>6. ASSUME NEW k \in Diagonals, NEW j, k # diagonal, Reached(k, j)
      PROVE  Reached(k, j)'
  <2>1. last_distance'[k] = last_distance[k] /\ script'[k] = script[k]
    BY <1>6 DEF Extended, TypeOK
  <2>2. /\ Furthest(last_distance[k], k, j) /\ last_distance[k] # End
        /\ Len(script[k]) = j
        /\ Transforms(equal, Unit(script[k]), Start, last_distance[k])
    BY <1>6 DEF Reached
  <2>3. /\ Furthest(last_distance'[k], k, j) /\ last_distance'[k] # End
        /\ Len(script'[k]) = j
        /\ Transforms(equal, Unit(script'[k]), Start, last_distance'[k])
    BY <2>1, <2>2
  <2> QED BY <2>3, ReachedNext DEF Extended
<1> QED BY <1>1, <1>3, <1>5, <1>6

\* A point on the diagonal of the end that is at least as far as the end, but is
\* not the end, has been paid for by passing the end.
LEMMA EndNotPassed ==
  ASSUME TypeOK, NEW p, NEW k \in Int, NEW j \in Nat,
         Furthest(p, k, j), p # End, OnDiagonal(End, k), Cost(End) = j
  PROVE  FALSE
<1>1. /\ p.x \in Nat /\ p.y \in Nat /\ p = Point(p.x, p.y)
      /\ p.x >= StartOne /\ p.y >= StartTwo
  BY Bounds DEF Furthest, Beyond, Points, Point
<1>2. (p.x - StartOne) - (p.y - StartTwo) = k /\ (EndOne - StartOne) - (EndTwo - StartTwo) = k
  BY Bounds DEF Furthest, OnDiagonal
<1>3. End \in Grid(Start, End)
  BY BoundsAssumption DEF Grid, Start, End, Point
<1>4. EndOne <= p.x
  BY <1>3, Bounds DEF Furthest, Unreachable
<1>5. EndTwo <= p.y /\ ~ (p.x = EndOne /\ p.y = EndTwo)
  <2>1. EndTwo <= p.y
    BY <1>1, <1>2, <1>4, BoundsAssumption
  <2> QED BY <2>1, <1>1 DEF End, Point
<1>6. Nearest(p) = End /\ Nearest(p).x = EndOne /\ Nearest(p).y = EndTwo
  BY <1>1, <1>4, <1>5, BoundsAssumption DEF Nearest, End, Point
<1>7. Cost(End) + (p.x - EndOne) + (p.y - EndTwo) <= j
  BY <1>6 DEF Furthest, Affordable
<1>8. p.x - EndOne \in Nat /\ p.y - EndTwo \in Nat
  BY <1>1, <1>4, <1>5, BoundsAssumption
<1>9. p.x - EndOne = 0 /\ p.y - EndTwo = 0
  BY <1>7, <1>8
<1> QED BY <1>1, <1>5, <1>9, BoundsAssumption

\* After a whole round the end is not within reach of as many edits.
LEMMA RoundOver ==
  ASSUME TypeOK, Loops, Frontier, phase = "search",
         NEW n \in Nat, Extended(n), Along(Target, n) # End,
         ~ (diagonal + 2 <= distance)
  PROVE  /\ Cost(End) >= distance + 1
         /\ distance + 1 < MaxDistance
         /\ \A j : \A k \in -distance .. distance :
              j = distance /\ (distance - k) % 2 = 0 => Reached(k, j)'
<1>1. /\ distance \in 1 .. MaxDistance - 1
      /\ diagonal \in -distance .. distance
      /\ (distance - diagonal) % 2 = 0
      /\ Passed /\ Cost(End) >= distance
  BY DEF Loops, Frontier
<1>2. ASSUME NEW k \in -distance .. distance, (distance - k) % 2 = 0
      PROVE  k = diagonal \/ k \in -distance .. diagonal - 2
  BY <1>1, <1>2, Bounds
<1>3. ASSUME NEW k \in -distance .. distance, NEW j, j = distance,
             (distance - k) % 2 = 0
      PROVE  Reached(k, j)'
  <2>1. CASE k = diagonal
    BY <1>3, <2>1, ExtendedReached
  <2>2. CASE k \in -distance .. diagonal - 2 /\ k # diagonal
    <3>1. Reached(k, j)
      BY <1>1, <1>3, <2>2 DEF Passed
    <3>2. k \in Diagonals
      BY <1>1, Bounds
    <3> QED BY <3>1, <3>2, <2>2, ExtendedReached
  <2> QED BY <1>2, <1>3, <2>1, <2>2
<1>4. /\ End \in Grid(Start, End)
      /\ Cost(End) \in Nat
      /\ (EndOne - StartOne) - (EndTwo - StartTwo) <= Cost(End)
      /\ (EndTwo - StartTwo) - (EndOne - StartOne) <= Cost(End)
      /\ Cost(End) <= (EndOne - StartOne) + (EndTwo - StartTwo)
      /\ (Cost(End) - ((EndOne - StartOne) - (EndTwo - StartTwo))) % 2 = 0
  <2>1. End \in Grid(Start, End)
    BY BoundsAssumption DEF Grid, Start, End, Point
  <2> QED BY <2>1, Distance, DistanceOfDiagonal, Bounds DEF TypeOK, Cost
<1> DEFINE K == (EndOne - StartOne) - (EndTwo - StartTwo)
<1>5. Cost(End) # distance
  <2> SUFFICES ASSUME Cost(End) = distance PROVE FALSE
    OBVIOUS
  <2>1. K \in -distance .. distance /\ (distance - K) % 2 = 0 /\ K \in Diagonals
    BY <1>1, <1>4, Bounds
  <2>2. OnDiagonal(End, K)
    BY Bounds DEF OnDiagonal
  <2>3. \E p : Furthest(p, K, distance) /\ p # End
    <3>1. CASE K = diagonal
      BY <3>1, ExtendedReached
    <3>2. CASE K # diagonal
      <4>1. Reached(K, distance)
        BY <1>1, <1>2, <2>1, <3>2 DEF Passed
      <4> QED BY <4>1 DEF Reached
    <3> QED BY <3>1, <3>2
  <2> QED BY <2>1, <2>2, <2>3, <1>1, EndNotPassed
<1>6. Cost(End) >= distance + 1
  BY <1>1, <1>4, <1>5
<1>7. distance + 1 < MaxDistance
  BY <1>1, <1>4, <1>6, Bounds
<1> QED BY <1>3, <1>6, <1>7

LEMMA FrontierNext ==
  ASSUME TypeOK, Loops, Frontier, phase = "search",
         NEW n \in Nat, Extended(n), Along(Target, n) # End, NextDiagonal
  PROVE  Frontier' /\ phase' = "search"
<1>1. /\ distance \in 1 .. MaxDistance - 1
      /\ diagonal \in -distance .. distance
      /\ (distance - diagonal) % 2 = 0
      /\ Passed /\ Previous /\ Cost(End) >= distance
  BY DEF Loops, Frontier
<1>2. Cost(End)' = Cost(End)
  BY DEF Cost, Extended
<1>3. CASE diagonal + 2 <= distance
  <2>1. diagonal' = diagonal + 2 /\ distance' = distance /\ phase' = phase
    BY <1>3 DEF NextDiagonal
  <2>2. ASSUME NEW k \in -distance .. diagonal, NEW j, j = distance,
               (distance - k) % 2 = 0
        PROVE  Reached(k, j)'
    <3>1. k = diagonal \/ (k # diagonal /\ k \in -distance .. diagonal - 2)
      BY <1>1, <2>2, Bounds
    <3>2. CASE k = diagonal
      BY <2>2, <3>2, ExtendedReached
    <3>3. CASE k # diagonal /\ k \in -distance .. diagonal - 2
      <4>1. Reached(k, j) /\ k \in Diagonals
        BY <1>1, <2>2, <3>3, Bounds DEF Passed
      <4> QED BY <4>1, <3>3, ExtendedReached
    <3> QED BY <3>1, <3>2, <3>3
  <2>3. ASSUME NEW k \in -(distance - 1) .. distance - 1, NEW j, j = distance - 1,
               ((distance - 1) - k) % 2 = 0
        PROVE  Reached(k, j)'
    <3>1. k # diagonal /\ k \in Diagonals
      BY <1>1, <2>3, Bounds
    <3>2. Reached(k, j)
      BY <1>1, <2>3 DEF Previous
    <3> QED BY <3>1, <3>2, ExtendedReached
  <2>4. Passed'
    <3> SUFFICES ASSUME NEW k \in -distance' .. diagonal' - 2, (distance' - k) % 2 = 0
                 PROVE  Reached(k, distance)'
      BY DEF Passed
    <3>1. k \in -distance .. diagonal
      BY <2>1, <1>1, Bounds
    <3> QED BY <2>1, <2>2, <3>1 DEF Reached
  <2>5. Previous'
    <3> SUFFICES ASSUME NEW k \in -(distance' - 1) .. distance' - 1,
                        ((distance' - 1) - k) % 2 = 0
                 PROVE  Reached(k, distance - 1)'
      BY DEF Previous
    <3> QED BY <2>1, <2>3 DEF Reached
  <2> QED BY <2>1, <2>4, <2>5, <1>1, <1>2 DEF Frontier
<1>4. CASE ~ (diagonal + 2 <= distance)
  <2>1. diagonal' = -(distance + 1) /\ distance' = distance + 1 /\ phase' = phase
    BY <1>4, RoundOver DEF NextDiagonal
  <2>2. Passed'
    <3>1. -distance' .. diagonal' - 2 = {}
      BY <2>1, <1>1, Bounds
    <3> QED BY <3>1 DEF Passed
  <2>3. Previous'
    <3> SUFFICES ASSUME NEW k \in -(distance' - 1) .. distance' - 1,
                        ((distance' - 1) - k) % 2 = 0
                 PROVE  Reached(k, distance - 1)'
      BY DEF Previous
    <3>1. distance' - 1 = distance
      BY <2>1, <1>1, Bounds
    <3>2. \A j : j = distance => Reached(k, j)'
      BY <1>4, <3>1, RoundOver
    <3> QED BY <3>1, <3>2 DEF Reached
  <2>4. Cost(End)' >= distance'
    BY <1>2, <1>4, <2>1, RoundOver
  <2> QED BY <2>1, <2>2, <2>3, <2>4 DEF Frontier
<1> QED BY <1>3, <1>4

(***************************************************************************)
(* The first slide, and what the search hands over.                        *)
(***************************************************************************)
LEMMA BeginFurthest ==
  ASSUME TypeOK, NEW n \in Nat, Slides(Start, n)
  PROVE  Furthest(Along(Start, n), 0, 0)
<1>1. /\ Beyond(Start) /\ OnDiagonal(Start, 0)
      /\ Start \in Grid(Start, End) /\ Nearest(Start) = Start
  BY BoundsAssumption
  DEF Beyond, OnDiagonal, Start, End, Point, Points, Grid, Nearest
<1>2. Affordable(Start, 0)
  BY <1>1, Distance, Bounds DEF Affordable, Cost, IsEditDistance, TypeOK
<1>3. ASSUME NEW q \in Grid(Start, End), OnDiagonal(q, 0), Cost(q) <= 0, q.x > Start.x
      PROVE  ByMatch(equal, Start, q) /\ Cost(q) = Cost(Diagonal(q))
  <2>1. Cost(q) = 0
    BY <1>3, Distance DEF IsEditDistance, TypeOK, Cost
  <2>2. /\ ByDeletion(Start, q) => Cost(Left(q)) \in Nat
        /\ ByInsertion(Start, q) => Cost(Above(q)) \in Nat
    BY GridPoints, Bounds, Distance DEF IsEditDistance, TypeOK, Cost
  <2>3. q # Start
    BY <1>3, Bounds
  <2>4. \/ ByDeletion(Start, q) /\ Cost(q) = Cost(Left(q)) + 1
        \/ ByInsertion(Start, q) /\ Cost(q) = Cost(Above(q)) + 1
        \/ ByMatch(equal, Start, q) /\ Cost(q) = Cost(Diagonal(q))
    BY <2>3, Distance DEF IsEditDistance, TypeOK, Cost
  <2> QED BY <2>1, <2>2, <2>4
<1>4. /\ \A i \in 0 .. n - 1 : Matches(Along(Start, i))
      /\ ~ Matches(Along(Start, n))
      /\ equal \in SUBSET Cells(Start, End)
  BY DEF Slides, TypeOK
<1>5. Beyond(Along(Start, n)) /\ Affordable(Along(Start, n), 0)
  BY <1>1, <1>2, <1>4, SlideAffordable
<1>6. Unreachable(Along(Start, n), 0, 0)
  BY <1>1, <1>3, <1>4, SlideFurthest
<1>7. OnDiagonal(Along(Start, n), 0)
  BY Bounds DEF OnDiagonal, Along, Point
<1> QED BY <1>5, <1>6, <1>7 DEF Furthest

LEMMA EndInGrid ==
  ASSUME TypeOK
  PROVE  /\ End \in Grid(Start, End)
         /\ Cost(End) \in Nat
         /\ (EndOne - StartOne) - (EndTwo - StartTwo) <= Cost(End)
         /\ (EndTwo - StartTwo) - (EndOne - StartOne) <= Cost(End)
         /\ Nearest(End) = End
<1>1. End \in Grid(Start, End)
  BY BoundsAssumption DEF Grid, Start, End, Point
<1>2. Nearest(End) = End
  BY BoundsAssumption DEF Nearest, End, Point
<1> QED BY <1>1, <1>2, Distance, DistanceOfDiagonal, Bounds DEF TypeOK, Cost

LEMMA BeginFrontier ==
  ASSUME TypeOK, Begin, phase' = "search", script[0] = <<>>
  PROVE  Frontier'
<1>1. PICK n \in Lengths :
        /\ Slides(Start, n)
        /\ last_distance' = [last_distance EXCEPT ![0] = Along(Start, n)]
        /\ Along(Start, n) # End /\ distance' = 1 /\ diagonal' = -1
  BY DEF Begin
<1>2. equal' = equal /\ script' = script
  BY DEF Begin, input
<1>3. 0 \in Diagonals /\ n \in Nat
  <2>1. MaxDistance \in Nat /\ MaxDistance >= 1 /\ Diagonals = -(MaxDistance + 1) .. (MaxDistance - 1)
    BY Bounds
  <2>2. n \in Nat
    BY Bounds DEF Lengths
  <2>3. 0 \in Diagonals
    BY <2>1
  <2> QED BY <2>2, <2>3
<1> DEFINE p == Along(Start, n)
<1>4. last_distance'[0] = p /\ script'[0] = <<>>
  BY <1>1, <1>2, <1>3 DEF TypeOK
<1>5. Furthest(p, 0, 0)
  BY <1>1, <1>3, BeginFurthest
<1>6. Transforms(equal, Unit(<<>>), Start, p)
  <2>1. Unit(<<>>) = <<>>
    BY DEF Unit
  <2>2. Common(equal, Start, p)
    BY <1>1, <1>3, Bounds, SlidesCommon
  <2> QED BY <2>1, <2>2, TransformsNothing
<1>7. \A j : j = 0 => Reached(0, j)'
  <2>1. Len(script'[0]) = 0
    BY <1>4
  <2> HIDE DEF p
  <2>2. /\ Furthest(last_distance'[0], 0, 0) /\ last_distance'[0] # End
        /\ Transforms(equal, Unit(script'[0]), Start, last_distance'[0])
    BY <1>1, <1>4, <1>5, <1>6 DEF p
  <2> QED BY <2>1, <2>2, <1>2, ReachedNext
<1>8. Passed'
  BY <1>1 DEF Passed
<1>9. Previous'
  <2> SUFFICES ASSUME NEW k \in -(distance' - 1) .. distance' - 1
               PROVE  Reached(k, distance - 1)'
    BY DEF Previous
  <2>1. k = 0 /\ distance' - 1 = 0
    BY <1>1
  <2> QED BY <2>1, <1>7 DEF Reached
<1>10. Cost(End) >= 1
  <2> SUFFICES ASSUME Cost(End) = 0 PROVE FALSE
    BY EndInGrid
  <2>1. OnDiagonal(End, 0)
    BY EndInGrid, Bounds DEF OnDiagonal
  <2> QED BY <2>1, <1>1, <1>5, EndNotPassed
<1>11. Cost(End)' = Cost(End)
  BY <1>2 DEF Cost
<1> QED BY <1>1, <1>8, <1>9, <1>10, <1>11 DEF Frontier

\* Reaching the end settles the edit distance.
LEMMA FoundShortest ==
  ASSUME TypeOK, Loops, Frontier, phase = "search",
         NEW n \in Nat, Slides(Target, n), Along(Target, n) = End
  PROVE  LET edits == Append(script[Origin(diagonal)], Move(diagonal))
         IN  /\ Len(edits) = Cost(End)
             /\ Transforms(equal, Unit(edits), Start, End)
<1>1. Furthest(End, diagonal, distance)
  BY ExtendFurthest
<1>2. Cost(End) <= distance
  <2>1. Cost(End) + (End.x - End.x) + (End.y - End.y) <= distance
    BY <1>1, EndInGrid DEF Furthest, Affordable
  <2>2. End.x - End.x = 0 /\ End.y - End.y = 0
    BY Bounds
  <2> QED BY <2>1, <2>2, EndInGrid
<1>3. Cost(End) >= distance /\ distance \in Nat
  BY DEF Frontier, Loops
<1> QED BY <1>2, <1>3, EndInGrid, ExtendLeads
-----------------------------------------------------------------------------
(***************************************************************************)
(* Condensing.  What is done leads to where the rest of the chain begins,  *)
(* and the rest leads to the end.                                          *)
(***************************************************************************)
Rest == Unit(chain)

Handed ==
  phase = "condense" =>
    /\ chain # <<>>
    /\ Transforms(equal, edit_script, Start, Before(Rest[1]))
    /\ Transforms(equal, Rest, Before(Rest[1]), End)

\* Arithmetic on the offsets of neighbouring edits: one side stands still, so the
\* other one does.
LEMMA StandsStill ==
  \A a, b, u, v \in Nat : b = a /\ b - a = (v - 1) - u => v - 1 = u
  OBVIOUS

LEMMA StandsStillToo ==
  \A a, b, u, v \in Nat : (b - 1) = a /\ (b - 1) - a = v - u => v = u
  OBVIOUS

\* The edits of a run follow each other without a gap.
LEMMA RunIsContiguous ==
  ASSUME TypeOK, Handed, phase = "condense",
         NEW n \in 1 .. Len(chain), IsRun(chain, n)
  PROVE  /\ Before(Condensed(chain[1], n)) = Before(Rest[1])
         /\ After(Condensed(chain[1], n)) = After(Rest[n])
<1> DEFINE c == chain[1]
    Follows(i) == chain[i].two = IF c.operation = "SES_DELETE" THEN c.two ELSE c.two + i - 1
    Bad == {i \in Nat : i \in 1 .. n /\ ~ Follows(i)}
<1>1. /\ chain \in Seq(RawEdits) /\ Len(chain) \in Nat /\ n \in Nat /\ n >= 1
      /\ \A i \in 1 .. Len(chain) : chain[i] \in RawEdits
  BY DEF TypeOK
<1>2. \A i \in 1 .. Len(chain) :
        /\ chain[i].operation \in Operations
        /\ chain[i].one \in Nat /\ chain[i].two \in Nat
        /\ Rest[i] = Condensed(chain[i], 1)
  BY <1>1, UnitSeq DEF RawEdits, Rest
<1>3. \A i \in 1 .. n :
        /\ chain[i].operation = c.operation
        /\ chain[i].one = IF c.operation = "SES_INSERT" THEN c.one ELSE c.one + i - 1
  <2>1. \A i \in 2 .. n :
          /\ chain[i].operation = c.operation
          /\ chain[i].one = IF c.operation = "SES_INSERT" THEN c.one ELSE c.one + i - 1
    BY DEF IsRun, Continues
  <2>2. c.one + 1 - 1 = c.one
    BY <1>1, <1>2
  <2>3. \A i \in 1 .. n : i = 1 \/ i \in 2 .. n
    BY <1>1
  <2> QED BY <2>1, <2>2, <2>3
<1>4. ASSUME NEW i \in 1 .. n, i < n, Follows(i)
      PROVE  Follows(i + 1)
  <2>1. /\ i \in 1 .. Len(chain) /\ i + 1 \in 1 .. Len(chain) /\ i + 1 \in 1 .. n
        /\ i \in Nat /\ i # 0 /\ i + 1 # Len(Rest) + 1 /\ i \in 0 .. Len(Rest)
    BY <1>1, <1>4, UnitSeq DEF Rest
  <2>2. Common(equal, After(Rest[i]), Before(Rest[i + 1]))
    BY <2>1 DEF Handed, Transforms, Leaving, Arriving
  <2>3. Before(Rest[i + 1]).x - After(Rest[i]).x = Before(Rest[i + 1]).y - After(Rest[i]).y
    BY <2>2 DEF Common
  <2>4. /\ Rest[i] = Condensed(chain[i], 1)
        /\ Rest[i + 1] = Condensed(chain[i + 1], 1)
    BY <2>1, <1>2
  <2>5. /\ chain[i].one \in Nat /\ chain[i].two \in Nat
        /\ chain[i + 1].one \in Nat /\ chain[i + 1].two \in Nat
        /\ c.one \in Nat /\ c.two \in Nat /\ c.operation \in Operations
    BY <2>1, <1>1, <1>2
  <2>6. /\ chain[i].operation = c.operation /\ chain[i + 1].operation = c.operation
        /\ chain[i].one = IF c.operation = "SES_INSERT" THEN c.one ELSE c.one + i - 1
        /\ chain[i + 1].one = IF c.operation = "SES_INSERT" THEN c.one ELSE c.one + (i + 1) - 1
    BY <2>1, <1>3
  <2>7. CASE c.operation = "SES_DELETE"
    <3>1. /\ After(Rest[i]) = Point(chain[i].one, chain[i].two)
          /\ Before(Rest[i + 1]) = Point(chain[i + 1].one - 1, chain[i + 1].two)
      <4>1. chain[i].operation = "SES_DELETE" /\ chain[i + 1].operation = "SES_DELETE"
        BY <2>6, <2>7
      <4> DEFINE x == chain[i]
                 z == chain[i + 1]
      <4>2. x.operation = "SES_DELETE" /\ z.operation = "SES_DELETE" /\ x.one \in Nat /\ x.two \in Nat
        BY <4>1, <2>5
      <4> HIDE DEF x, z
      <4>3. After(Condensed(x, 1)) = Point(x.one, x.two)
        BY <4>2 DEF After, Condensed, Point
      <4>4. Before(Condensed(z, 1)) = Point(z.one - 1, z.two)
        BY <4>2 DEF Before, Condensed, Point
      <4> QED BY <4>3, <4>4, <2>4 DEF x, z
    <3>2. chain[i + 1].two = chain[i].two
      <4>1. chain[i].one = c.one + i - 1 /\ chain[i + 1].one = c.one + (i + 1) - 1
        BY <2>6, <2>7
      <4>2. chain[i + 1].one - 1 = chain[i].one
        <5> DEFINE a == chain[i].one
                   b == chain[i + 1].one
                   d == c.one
        <5>1. a = d + i - 1 /\ b = d + (i + 1) - 1 /\ d \in Nat /\ i \in Nat
          BY <4>1, <2>1, <2>5
        <5> HIDE DEF a, b, d
        <5>2. b - 1 = a
          BY ONLY <5>1
        <5> QED BY <5>2 DEF a, b
      <4>3. (chain[i + 1].one - 1) - chain[i].one = chain[i + 1].two - chain[i].two
        BY <2>3, <3>1 DEF Point
      <4> QED BY <4>2, <4>3, <2>5, StandsStillToo
    <3> QED BY <3>2, <1>4, <2>7
  <2>8. CASE c.operation = "SES_INSERT"
    <3>1. /\ After(Rest[i]) = Point(chain[i].one, chain[i].two)
          /\ Before(Rest[i + 1]) = Point(chain[i + 1].one, chain[i + 1].two - 1)
      BY <2>4, <2>5, <2>6, <2>8 DEF After, Before, Condensed, Point
    <3>2. chain[i + 1].two - 1 = chain[i].two
      <4>1. chain[i].one = c.one /\ chain[i + 1].one = c.one
        BY <2>6, <2>8
      <4>2. chain[i + 1].one - chain[i].one = (chain[i + 1].two - 1) - chain[i].two
        BY <2>3, <3>1 DEF Point
      <4>3. chain[i + 1].one = chain[i].one
        BY <4>1
      <4> DEFINE a == chain[i].one
                 b == chain[i + 1].one
                 u == chain[i].two
                 v == chain[i + 1].two
      <4>4. a \in Nat /\ b \in Nat /\ u \in Nat /\ v \in Nat
        BY <2>5
      <4>5. b = a /\ b - a = (v - 1) - u
        BY <4>2, <4>3
      <4>6. v - 1 = u
        <5> HIDE DEF a, b, u, v
        <5> QED BY <4>4, <4>5, StandsStill
      <4> QED BY <4>6
    <3>3. chain[i].two = c.two + i - 1
      BY <1>4, <2>8
    <3>4. chain[i + 1].two = c.two + (i + 1) - 1
      <4> HIDE DEF c, Follows, Bad
      <4>1. chain[i + 1].two = chain[i].two + 1
        <5> DEFINE u == chain[i].two
                   v == chain[i + 1].two
        <5>1. u \in Nat /\ v \in Nat /\ v - 1 = u
          BY <3>2, <2>5
        <5> HIDE DEF u, v
        <5>2. v = u + 1
          BY ONLY <5>1
        <5> QED BY <5>2 DEF u, v
      <4>2. (c.two + i - 1) + 1 = c.two + (i + 1) - 1
        BY <2>1, <2>5
      <4> QED BY <3>3, <4>1, <4>2
    <3> QED BY <3>4, <2>8
  <2> QED BY <2>5, <2>7, <2>8 DEF Operations
<1>5. Follows(1)
  BY <1>1, <1>2
<1>6. \A i \in 1 .. n : Follows(i)
  <2> SUFFICES ASSUME NEW m \in 1 .. n, ~ Follows(m) PROVE FALSE
    OBVIOUS
  <2>1. Bad \subseteq Nat /\ m \in Bad
    BY <1>1
  <2>2. PICK i \in Bad : \A t \in Bad : i <= t
    <3> HIDE DEF Bad
    <3> QED BY <2>1, LeastElement
  <2>3. i \in Nat /\ i \in 1 .. n /\ ~ Follows(i)
    OBVIOUS
  <2>4. i # 1
    BY <2>3, <1>5
  <2>5. i - 1 \in Nat /\ i - 1 \in 1 .. n /\ i - 1 < n /\ (i - 1) + 1 = i
    BY <2>3, <2>4, <1>1
  <2>6. Follows(i - 1)
    <3> SUFFICES ASSUME ~ Follows(i - 1) PROVE FALSE
      OBVIOUS
    <3>1. i - 1 \in Bad
      BY <2>5
    <3>2. i <= i - 1
      BY <3>1, <2>2
    <3> HIDE DEF Bad, Follows
    <3> QED BY <3>2, <2>3
  <2> HIDE DEF Bad, Follows
  <2> QED BY <2>3, <2>5, <2>6, <1>4
<1>7. /\ n \in 1 .. n /\ 1 \in 1 .. Len(chain) /\ n \in 1 .. Len(chain)
  BY <1>1
<1>8. Rest[1] = Condensed(c, 1) /\ Rest[n] = Condensed(chain[n], 1)
  BY <1>2, <1>7
<1>9. Before(Condensed(c, n)) = Before(Rest[1])
  BY <1>8 DEF Before, Condensed, Point
<1>10. /\ chain[n].operation = c.operation
       /\ chain[n].one = IF c.operation = "SES_INSERT" THEN c.one ELSE c.one + n - 1
       /\ chain[n].two = IF c.operation = "SES_DELETE" THEN c.two ELSE c.two + n - 1
       /\ c.one \in Nat /\ c.two \in Nat /\ c.operation \in Operations
       /\ chain[n].one \in Nat /\ chain[n].two \in Nat
  BY <1>2, <1>3, <1>6, <1>7
<1>11. After(Condensed(c, n)) = After(Rest[n])
  <2>1. CASE c.operation = "SES_DELETE"
    <3>1. After(Condensed(c, n)) = Point((c.one - 1) + n, c.two)
      BY <2>1 DEF After, Condensed, Point
    <3>2. After(Rest[n]) = Point((chain[n].one - 1) + 1, chain[n].two)
      BY <1>8, <1>10, <2>1 DEF After, Condensed, Point
    <3>3. (c.one - 1) + n = (chain[n].one - 1) + 1 /\ c.two = chain[n].two
      BY <1>10, <2>1, <1>1
    <3> QED BY <3>1, <3>2, <3>3
  <2>2. CASE c.operation = "SES_INSERT"
    <3>1. After(Condensed(c, n)) = Point(c.one, (c.two - 1) + n)
      BY <2>2 DEF After, Condensed, Point
    <3>2. After(Rest[n]) = Point(chain[n].one, (chain[n].two - 1) + 1)
      BY <1>8, <1>10, <2>2 DEF After, Condensed, Point
    <3>3. (c.two - 1) + n = (chain[n].two - 1) + 1 /\ c.one = chain[n].one
      <4>1. chain[n].two = c.two + n - 1 /\ chain[n].one = c.one
        BY <1>10, <2>2
      <4> HIDE DEF c, Follows, Bad
      <4> QED BY <4>1, <1>10, <1>1
    <3> QED BY <3>1, <3>2, <3>3
  <2> QED BY <1>10, <2>1, <2>2 DEF Operations
<1> QED BY <1>9, <1>11

\* One more condensed edit: it leads on, and what is left of the chain leads from
\* where the next edit begins, or there is nothing left and the script is whole.
LEMMA CondenseStep ==
  ASSUME TypeOK, Handed, phase = "condense",
         NEW n \in 1 .. Len(chain), IsRun(chain, n)
  PROVE  LET es == Append(edit_script, Condensed(chain[1], n))
             us == Unit(SubSeq(chain, n + 1, Len(chain)))
         IN  /\ n = Len(chain) => Transforms(equal, es, Start, End)
             /\ n # Len(chain) =>
                  /\ SubSeq(chain, n + 1, Len(chain)) # <<>>
                  /\ Transforms(equal, es, Start, Before(us[1]))
                  /\ Transforms(equal, us, Before(us[1]), End)
<1> DEFINE u == Condensed(chain[1], n)
           rest == SubSeq(chain, n + 1, Len(chain))
           us == Unit(rest)
           N == Len(chain)
<1>1. /\ chain \in Seq(RawEdits) /\ N \in Nat /\ n \in Nat /\ n >= 1 /\ n <= N
      /\ chain[1] \in RawEdits /\ edit_script \in Seq(Edits)
      /\ Len(Rest) = N /\ \A i \in 1 .. N : Rest[i] = Condensed(chain[i], 1)
  BY UnitSeq DEF TypeOK, Rest
<1>2. u \in Edits
  BY <1>1, CondensedType
<1>3. Before(u) = Before(Rest[1]) /\ After(u) = After(Rest[n])
  BY RunIsContiguous
<1>4. Transforms(equal, edit_script, Start, Before(u))
  BY <1>3 DEF Handed
<1>5. \A i \in 0 .. N : Common(equal, Leaving(Rest, i, Before(Rest[1])), Arriving(Rest, i + 1, End))
  BY <1>1 DEF Handed, Transforms
<1>6. Common(equal, After(u), Arriving(Rest, n + 1, End))
  <2>1. n \in 0 .. N /\ Leaving(Rest, n, Before(Rest[1])) = After(Rest[n])
    BY <1>1 DEF Leaving
  <2> QED BY <2>1, <1>3, <1>5
<1>7. Transforms(equal, Append(edit_script, u), Start, Arriving(Rest, n + 1, End))
  <2> HIDE DEF u
  <2> QED BY <1>1, <1>2, <1>4, <1>6, TransformsAppend
<1>8. CASE n = N
  <2>1. Arriving(Rest, n + 1, End) = End
    BY <1>1, <1>8 DEF Arriving
  <2> QED BY <1>7, <1>8, <2>1
<1>9. CASE n # N
  <2>1. /\ rest \in Seq(RawEdits) /\ Len(rest) = N - n /\ N - n >= 1
        /\ \A i \in 1 .. N - n : rest[i] = chain[n + i]
    BY <1>1, <1>9
  <2>2. rest # <<>>
    <3> HIDE DEF rest
    <3>1. Len(rest) # 0
      BY <2>1, <1>1
    <3> QED BY <3>1, EmptySeq
  <2>3. /\ Len(us) = N - n
        /\ \A i \in 1 .. N - n : us[i] = Rest[n + i]
    <3>1. us \in Seq(Edits) /\ Len(us) = Len(rest)
          /\ \A i \in 1 .. Len(rest) : us[i] = Condensed(rest[i], 1)
      <4> HIDE DEF rest
      <4> QED BY <2>1, UnitSeq
    <3>2. ASSUME NEW i \in 1 .. N - n PROVE us[i] = Rest[n + i]
      <4>1. n + i \in 1 .. N /\ i \in 1 .. Len(rest)
        BY <1>1, <2>1
      <4>2. us[i] = Condensed(rest[i], 1) /\ rest[i] = chain[n + i]
        BY <3>1, <2>1, <4>1
      <4> HIDE DEF us, rest
      <4> QED BY <4>1, <4>2, <1>1
    <3> HIDE DEF us, rest
    <3> QED BY <3>1, <3>2, <2>1
  <2> HIDE DEF us, rest, u
  <2>4. us[1] = Rest[n + 1]
    BY <2>1, <2>3
  <2>5. Arriving(Rest, n + 1, End) = Before(us[1])
    BY <2>4, <1>1, <1>9 DEF Arriving
  <2>6. Transforms(equal, us, Before(us[1]), End)
    <3> SUFFICES ASSUME NEW i \in 0 .. Len(us)
                 PROVE  Common(equal, Leaving(us, i, Before(us[1])), Arriving(us, i + 1, End))
      BY DEF Transforms
    <3>1. /\ n + i \in 0 .. N /\ n + i # 0 /\ i \in Nat /\ i <= N - n
          /\ (n + i) + 1 = n + (i + 1)
      BY <1>1, <2>3
    <3>2. Arriving(us, i + 1, End) = Arriving(Rest, (n + i) + 1, End)
      <4>1. CASE i = N - n
        BY <4>1, <1>1, <2>3 DEF Arriving
      <4>2. CASE i # N - n
        <5>1. /\ i + 1 \in 1 .. N - n /\ i + 1 # Len(us) + 1 /\ (n + i) + 1 # Len(Rest) + 1
          BY <4>2, <3>1, <1>1, <2>3
        <5> QED BY <5>1, <2>3, <3>1 DEF Arriving
      <4> QED BY <4>1, <4>2
    <3>3. CASE i = 0
      <4>1. Leaving(us, i, Before(us[1])) = Before(us[1])
        BY <3>3 DEF Leaving
      <4>2. Arriving(us, i + 1, End) = Before(us[1])
        BY <3>3, <2>1, <2>3 DEF Arriving
      <4>3. us[1] \in Edits
        BY <2>4, <1>1, <1>9, CondensedType
      <4>4. Common(equal, Before(us[1]), Before(us[1]))
        BY <4>3 DEF Common, Before, Point, Edits
      <4> QED BY <4>1, <4>2, <4>4
    <3>4. CASE i # 0
      <4>1. i \in 1 .. N - n
        BY <3>1, <3>4, <1>1
      <4>2. Leaving(us, i, Before(us[1])) = Leaving(Rest, n + i, Before(Rest[1]))
        BY <4>1, <2>3, <3>1, <3>4 DEF Leaving
      <4> QED BY <3>1, <3>2, <4>2, <1>5
    <3> QED BY <3>3, <3>4
  <2> QED BY <1>7, <1>9, <2>2, <2>5, <2>6 DEF us, rest, u
<1> QED BY <1>8, <1>9
-----------------------------------------------------------------------------
(***************************************************************************)
(* The inductive invariant.                                                *)
(***************************************************************************)
Outcome ==
  /\ phase = "start" => distance = 0 /\ script[0] = <<>>
  /\ phase \in {"start", "search"} => edit_script = <<>>
  /\ phase \in {"start", "search", "condense"} => result # -2

IInv ==
  /\ TypeOK /\ Loops /\ Frontier /\ Handed /\ Outcome
  /\ ChainIsShortest /\ ScriptTransforms /\ NeverExhausted

LEMMA InitInvariant == Init => IInv
<1> SUFFICES ASSUME Init PROVE IInv
  OBVIOUS
<1>1. TypeOK /\ Loops
  BY Bounds DEF Init, TypeOK, Loops, Points, Point
<1>2. Frontier /\ Handed /\ ChainIsShortest /\ ScriptTransforms /\ NeverExhausted
  BY DEF Init, Frontier, Handed, ChainIsShortest, ScriptTransforms, NeverExhausted
<1>3. Outcome
  BY Bounds DEF Init, Outcome
<1> QED BY <1>1, <1>2, <1>3 DEF IInv

\* Being handed a whole chain is the beginning of condensing.
LEMMA HandedOver ==
  ASSUME NEW es \in Seq(RawEdits), es # <<>>,
         Transforms(equal, Unit(es), Start, End)
  PROVE  /\ Transforms(equal, <<>>, Start, Before(Unit(es)[1]))
         /\ Transforms(equal, Unit(es), Before(Unit(es)[1]), End)
<1> DEFINE us == Unit(es)
<1>1. /\ us \in Seq(Edits) /\ Len(us) \in Nat /\ Len(us) >= 1
      /\ us[1] \in Edits
  BY UnitSeq, CondensedType
<1> HIDE DEF us
<1>2. Transforms(equal, us, Start, End)
  BY DEF us
<1>3. Common(equal, Start, Before(us[1]))
  BY <1>1, <1>2 DEF Transforms, Leaving, Arriving
<1>4. Common(equal, Before(us[1]), Before(us[1]))
  BY <1>1 DEF Common, Before, Point, Edits
<1>5. Transforms(equal, us, Before(us[1]), End)
  <2> SUFFICES ASSUME NEW i \in 0 .. Len(us)
               PROVE  Common(equal, Leaving(us, i, Before(us[1])), Arriving(us, i + 1, End))
    BY DEF Transforms
  <2>1. CASE i = 0
    BY <2>1, <1>1, <1>4 DEF Leaving, Arriving
  <2>2. CASE i # 0
    BY <2>2, <1>2 DEF Transforms, Leaving
  <2> QED BY <2>1, <2>2
<1> QED BY <1>3, <1>5, TransformsNothing DEF us

LEMMA BeginStep ==
  ASSUME IInv, Begin
  PROVE  Frontier' /\ Handed' /\ Outcome' /\ ChainIsShortest' /\ ScriptTransforms'
         /\ NeverExhausted'
<1>1. /\ phase = "start" /\ distance = 0 /\ script[0] = <<>> /\ edit_script = <<>>
      /\ equal' = equal /\ script' = script /\ edit_script' = edit_script
      /\ result' = result /\ result # -2
      /\ TypeOK
  BY DEF IInv, Outcome, Begin, input, output
<1>2. PICK n \in Lengths :
        /\ Slides(Start, n)
        /\ \/ Along(Start, n) = End /\ phase' = "done"
           \/ Along(Start, n) # End /\ phase' = "search"
  BY DEF Begin
<1>3. Frontier'
  <2>1. CASE phase' = "search"
    BY <1>1, <2>1, BeginFrontier
  <2>2. CASE phase' # "search"
    BY <2>2 DEF Frontier
  <2> QED BY <2>1, <2>2
<1>4. ScriptTransforms'
  <2> SUFFICES ASSUME phase' = "done" PROVE Transforms(equal, <<>>, Start, End)
    BY <1>1 DEF ScriptTransforms
  <2>1. Common(equal, Start, Along(Start, n)) /\ Along(Start, n) = End
    BY <1>2, Bounds, SlidesCommon DEF Lengths
  <2> QED BY <2>1, TransformsNothing
<1>5. Handed' /\ ChainIsShortest' /\ Outcome' /\ NeverExhausted'
  BY <1>1, <1>2 DEF Handed, ChainIsShortest, Outcome, NeverExhausted
<1> QED BY <1>3, <1>4, <1>5

LEMMA ExtendStep ==
  ASSUME IInv, Extend
  PROVE  Frontier' /\ Handed' /\ Outcome' /\ ChainIsShortest' /\ ScriptTransforms'
         /\ NeverExhausted'
<1> DEFINE edits == Append(script[Origin(diagonal)], Move(diagonal))
<1>1. /\ phase = "search" /\ equal' = equal /\ edit_script = <<>> /\ result # -2
      /\ TypeOK /\ Loops /\ Frontier
  BY DEF IInv, Outcome, Extend, input
<1>2. PICK n \in Lengths :
        /\ Slides(Target, n)
        /\ last_distance' = [last_distance EXCEPT ![diagonal] = Along(Target, n)]
        /\ script' = [script EXCEPT ![diagonal] = edits]
        /\ \/ Along(Target, n) = End /\ Found(edits)
           \/ Along(Target, n) # End /\ NextDiagonal
  BY DEF Extend, Target
<1>3. n \in Nat /\ Extended(n)
  BY <1>1, <1>2, Bounds DEF Lengths, Extended
<1>4. CASE Along(Target, n) = End /\ Found(edits)
  <2>1. /\ phase' = "condense" /\ chain' = edits
        /\ edit_script' = edit_script /\ result' = result
    BY <1>4 DEF Found
  <2>2. /\ Len(edits) = Cost(End)
        /\ Transforms(equal, Unit(edits), Start, End)
    BY <1>1, <1>2, <1>3, <1>4, FoundShortest
  <2>3. edits \in Seq(RawEdits) /\ edits # <<>>
    <3>1. script[Origin(diagonal)] \in Seq(RawEdits) /\ Move(diagonal) \in RawEdits
      BY <1>1, MoveType DEF TypeOK
    <3> QED BY <3>1
  <2> HIDE DEF edits
  <2>4. /\ Transforms(equal, <<>>, Start, Before(Unit(edits)[1]))
        /\ Transforms(equal, Unit(edits), Before(Unit(edits)[1]), End)
    BY <2>2, <2>3, HandedOver
  <2>5. Handed'
    BY <1>1, <2>1, <2>3, <2>4 DEF Handed, Rest, Unit
  <2>6. ChainIsShortest'
    BY <1>1, <2>1, <2>2 DEF ChainIsShortest, Cost
  <2> QED
    BY <1>1, <2>1, <2>5, <2>6
    DEF Frontier, Outcome, ScriptTransforms, NeverExhausted
<1>5. CASE Along(Target, n) # End /\ NextDiagonal
  <2>1. Frontier' /\ phase' = "search"
    BY <1>1, <1>3, <1>5, FrontierNext
  <2>2. edit_script' = edit_script /\ result' = result
    BY <2>1, <1>5 DEF NextDiagonal
  <2> QED
    BY <1>1, <2>1, <2>2
    DEF Handed, ChainIsShortest, Outcome, ScriptTransforms, NeverExhausted
<1> QED BY <1>2, <1>4, <1>5

LEMMA CondenseRunStep ==
  ASSUME IInv, CondenseRun
  PROVE  Frontier' /\ Handed' /\ Outcome' /\ ChainIsShortest' /\ ScriptTransforms'
         /\ NeverExhausted'
<1>1. /\ phase = "condense" /\ equal' = equal /\ result # -2
      /\ TypeOK /\ Handed
  BY DEF IInv, Outcome, CondenseRun, input
<1>2. PICK n \in 1 .. Len(chain) :
        /\ IsRun(chain, n)
        /\ edit_script' = Append(edit_script, Condensed(chain[1], n))
        /\ chain' = SubSeq(chain, n + 1, Len(chain))
        /\ IF n = Len(chain)
           THEN phase' = "done" /\ result' = Len(edit_script) + 1
           ELSE UNCHANGED <<phase, result>>
  BY DEF CondenseRun
<1>3. /\ n = Len(chain) => Transforms(equal, edit_script', Start, End)
      /\ n # Len(chain) =>
           /\ chain' # <<>>
           /\ Transforms(equal, edit_script', Start, Before(Unit(chain')[1]))
           /\ Transforms(equal, Unit(chain'), Before(Unit(chain')[1]), End)
  BY <1>1, <1>2, CondenseStep
<1>4. Len(edit_script) \in Nat /\ edit_script' # <<>>
  BY <1>1, <1>2 DEF TypeOK
<1>5. Handed'
  BY <1>1, <1>2, <1>3 DEF Handed, Rest, Unit
<1>6. ScriptTransforms'
  BY <1>1, <1>2, <1>3 DEF ScriptTransforms
<1> QED
  BY <1>1, <1>2, <1>4, <1>5, <1>6
  DEF Frontier, Outcome, ChainIsShortest, NeverExhausted

LEMMA NextInvariant ==
  ASSUME IInv, TypeOK', Loops', [Next]_vars
  PROVE  IInv'
<1>1. CASE Begin
  BY <1>1, BeginStep DEF IInv
<1>2. CASE NoMemory
  BY <1>2 DEF NoMemory, Return, IInv, Frontier, Handed, Outcome, ChainIsShortest,
              ScriptTransforms, NeverExhausted, search
<1>3. CASE Extend
  BY <1>3, ExtendStep DEF IInv
<1>4. CASE PoolExhausted
  BY <1>4 DEF PoolExhausted, Return, IInv, Frontier, Handed, Outcome,
              ChainIsShortest, ScriptTransforms, NeverExhausted
<1>5. CASE CondenseRun
  BY <1>5, CondenseRunStep DEF IInv
<1>6. CASE CopyFails
  BY <1>6 DEF CopyFails, Return, IInv, Frontier, Handed, Outcome, ChainIsShortest,
              ScriptTransforms, NeverExhausted
<1>7. CASE UNCHANGED vars
  <2>1. UNCHANGED <<equal, phase, distance, diagonal, last_distance, script, chain,
                    edit_script, result>>
    BY <1>7 DEF vars, input, search, output
  <2>2. Frontier'
    <3>1. ASSUME NEW k, NEW j PROVE Reached(k, j)' = Reached(k, j)
      BY <2>1 DEF Reached, Furthest, Beyond, Affordable, Nearest, OnDiagonal,
                  Unreachable, Cost, Unit
    <3>2. Cost(End)' = Cost(End)
      BY <2>1 DEF Cost
    <3> QED BY <2>1, <3>1, <3>2 DEF IInv, Frontier, Passed, Previous
  <2>3. Handed'
    BY <2>1 DEF IInv, Handed, Rest, Unit
  <2>4. Outcome'
    BY <2>1 DEF IInv, Outcome, ChainIsShortest, ScriptTransforms, NeverExhausted
  <2>5. (ChainIsShortest /\ ScriptTransforms /\ NeverExhausted)'
    BY <2>1 DEF IInv, ChainIsShortest, ScriptTransforms, NeverExhausted
  <2> QED BY <2>2, <2>3, <2>4, <2>5 DEF IInv
<1> QED BY <1>1, <1>2, <1>3, <1>4, <1>5, <1>6, <1>7 DEF Next

\* The inductive invariant holds in every state of the search and of
\* make_edit_script; the results at the end of the module follow from it.
THEOREM Invariant == Spec => []IInv
<1>1. Init => IInv
  BY InitInvariant
<1>2. IInv /\ TypeOK' /\ Loops' /\ [Next]_vars => IInv'
  BY NextInvariant
<1> QED BY <1>1, <1>2, TypeInvariant, PTL DEF Spec

\* Every diagonal that holds a point is one of those the frontier describes.
LEMMA LiveReached ==
  ASSUME IInv, phase = "search", NEW k \in Live
  PROVE  Reached(k, Level(k))
<1>1. /\ distance \in 1 .. MaxDistance - 1
      /\ diagonal \in -distance .. distance
      /\ (distance - diagonal) % 2 = 0
      /\ Passed /\ Previous
  BY DEF IInv, Loops, Frontier
<1>2. k \in Int /\ -Level(k) <= k /\ k <= Level(k) /\ (Level(k) - k) % 2 = 0
  BY Bounds DEF Live
<1>3. CASE k < diagonal /\ (distance - k) % 2 = 0
  <2>1. Level(k) = distance
    BY <1>3 DEF Level
  <2>2. k \in -distance .. diagonal - 2
    BY <1>1, <1>2, <1>3, <2>1, Bounds
  <2> QED BY <1>1, <1>3, <2>1, <2>2 DEF Passed
<1>4. CASE ~ (k < diagonal /\ (distance - k) % 2 = 0)
  <2>1. Level(k) = distance - 1
    BY <1>4 DEF Level
  <2>2. k \in -(distance - 1) .. distance - 1
    BY <1>1, <1>2, <2>1, Bounds
  <2> QED BY <1>1, <1>2, <2>1, <2>2 DEF Previous
<1> QED BY <1>3, <1>4

(***************************************************************************)
(* The results.                                                            *)
(***************************************************************************)

\* Every variable keeps its type (the variables of the search and of
\* make_edit_script, whatever the parts and the relation between them).
THEOREM TypeCorrect == Spec => []TypeOK
<1>1. IInv => TypeOK
  BY DEF IInv
<1> QED BY <1>1, Invariant, PTL

\* The edits recorded for each diagonal lead to its furthest point, and are as
\* many as the distance it was reached with.
THEOREM ScriptsLeadAlways == Spec => []ScriptsLead
<1>1. IInv => ScriptsLead
  BY LiveReached DEF ScriptsLead, Reached
<1> QED BY <1>1, Invariant, PTL

\* The points on the diagonals are the furthest that can be reached.
THEOREM FurthestReachingAlways == Spec => []FurthestReaching
<1>1. IInv => FurthestReaching
  <2> SUFFICES ASSUME IInv, phase = "search",
                      NEW k \in Live, NEW p \in Grid(Start, End),
                      (p.x - StartOne) - (p.y - StartTwo) = k,
                      EditDistance(equal)[p] <= Level(k)
               PROVE  p.x <= last_distance[k].x
    BY DEF FurthestReaching
  <2> QED BY LiveReached DEF Reached, Furthest, Unreachable, OnDiagonal, Cost
<1> QED BY <1>1, Invariant, PTL

\* The chain of edits found is as long as the edit distance: none is shorter.
THEOREM ShortestChain == Spec => []ChainIsShortest
<1>1. IInv => ChainIsShortest
  BY DEF IInv
<1> QED BY <1>1, Invariant, PTL

\* The condensed script returned turns the first part into the second.
THEOREM ScriptCorrect == Spec => []ScriptTransforms
<1>1. IInv => ScriptTransforms
  BY DEF IInv
<1> QED BY <1>1, Invariant, PTL

\* The loop over the distances always ends by finding a script.
THEOREM SearchSucceeds == Spec => []NeverExhausted
<1>1. IInv => NeverExhausted
  BY DEF IInv
<1> QED BY <1>1, Invariant, PTL
-----------------------------------------------------------------------------
(***************************************************************************)
(* The arrays.  Each round of the search takes as many edits from the pool *)
(* as it has diagonals, and every chunk of the pool has room for a round.  *)
(***************************************************************************)
Chunk == MaxDistance + 1

\* The edits that n chunks hold.
Chunks(n) == n * Chunk

Counted ==
  /\ num_edits + 1 \in Nat
  /\ phase = "start" => num_edits = -1
  /\ phase = "search" =>
       2 * (num_edits + 1) <= 2 * Chunks(distance - 1) + (diagonal + distance)

LEMMA ChunksNext ==
  ASSUME NEW n \in Nat, n >= 1
  PROVE  /\ Chunks(n) \in Nat /\ Chunks(n - 1) \in Nat
         /\ Chunks(n) = Chunks(n - 1) + Chunk
<1>1. Chunk \in Nat /\ n - 1 \in Nat
  BY Bounds DEF Chunk
<1>2. n * Chunk \in Nat /\ (n - 1) * Chunk \in Nat
  BY <1>1
<1>3. n * Chunk = (n - 1) * Chunk + Chunk
  BY <1>1
<1> QED BY <1>2, <1>3 DEF Chunks

LEMMA ChunkPositive == Chunk \in Nat /\ Chunk > 0 /\ Chunks(0) = 0
  BY Bounds DEF Chunk, Chunks

\* What is less than n chunks lies in one of the first n.
LEMMA InChunk ==
  ASSUME NEW a \in Nat, NEW b \in Nat, b > 0, NEW n \in Nat, a < n * b
  PROVE  a \div b < n
<1> DEFINE q == a \div b
           r == a % b
<1>1. q \in Int /\ r \in Int /\ a = b * q + r /\ 0 <= r
  OBVIOUS
<1> HIDE DEF q, r
<1>2. SUFFICES ASSUME n <= q PROVE FALSE
  BY <1>1 DEF q
<1>3. b * n <= b * q
  BY <1>1, <1>2
<1>4. n * b = b * n
  OBVIOUS
<1> QED BY <1>1, <1>3, <1>4

LEMMA CountedNext ==
  ASSUME TypeOK, Loops, Counted, [Next]_vars
  PROVE  Counted'
<1>1. CASE Begin
  <2>1. /\ num_edits' = num_edits /\ num_edits = -1 /\ phase = "start"
        /\ phase' = "done" \/ (phase' = "search" /\ distance' = 1 /\ diagonal' = -1)
    BY <1>1 DEF Begin, Counted
  <2>2. Chunks(0) = 0
    BY ChunkPositive
  <2> QED BY <2>1, <2>2 DEF Counted
<1>2. CASE Extend
  <2>1. /\ phase = "search" /\ num_edits' = num_edits + 1
        /\ phase' # "start"
        /\ phase' = "search" => NextDiagonal
    BY <1>2 DEF Extend, Found, NextDiagonal
  <2>2. /\ distance \in 1 .. MaxDistance - 1
        /\ diagonal \in -distance .. distance
        /\ (distance - diagonal) % 2 = 0
    BY <2>1 DEF Loops
  <2>3. 2 * (num_edits + 1) <= 2 * Chunks(distance - 1) + (diagonal + distance)
    BY <2>1 DEF Counted
  <2>4. num_edits \in Int /\ num_edits + 1 \in Nat
    BY DEF TypeOK, Counted
  <2>5. SUFFICES ASSUME phase' = "search"
                 PROVE  2 * (num_edits' + 1) <= 2 * Chunks(distance' - 1) + (diagonal' + distance')
    BY <2>1, <2>4 DEF Counted
  <2>6. /\ Chunks(distance - 1) \in Nat /\ Chunks(distance) \in Nat
        /\ Chunks(distance) = Chunks(distance - 1) + Chunk
    BY <2>2, Bounds, ChunksNext
  <2>7. CASE diagonal + 2 <= distance
    <3>1. diagonal' = diagonal + 2 /\ distance' = distance
      BY <2>1, <2>5, <2>7 DEF NextDiagonal
    <3>2. diagonal \in Int /\ distance \in Int
      BY <2>2, Bounds
    <3> QED BY <3>1, <3>2, <2>1, <2>3, <2>4, <2>6
  <2>8. CASE ~ (diagonal + 2 <= distance)
    <3>1. diagonal' = -(distance + 1) /\ distance' = distance + 1
      BY <2>1, <2>5, <2>8 DEF NextDiagonal
    <3>2. diagonal = distance
      BY <2>2, <2>8, Bounds
    <3>3. distance' - 1 = distance /\ diagonal' + distance' = 0
      BY <3>1, <2>2, Bounds
    <3>4. distance + 1 <= Chunk /\ Chunk \in Nat
      BY <2>2, Bounds DEF Chunk
    <3>5. 2 * (num_edits + 1) <= 2 * Chunks(distance - 1) + 2 * distance
      BY <2>2, <2>3, <3>2, Bounds
    <3>6. num_edits + 2 <= Chunks(distance - 1) + Chunk
      BY <2>2, <2>4, <2>6, <3>4, <3>5
    <3>7. num_edits' + 1 <= Chunks(distance' - 1)
      BY <2>1, <2>4, <2>6, <3>3, <3>6
    <3>8. num_edits' + 1 \in Nat /\ Chunks(distance' - 1) \in Nat
      BY <2>1, <2>4, <2>6, <3>3
    <3> QED BY <3>3, <3>7, <3>8
  <2> QED BY <2>7, <2>8
<1>3. CASE PoolExhausted
  BY <1>3 DEF PoolExhausted, Counted, TypeOK
<1>4. CASE NoMemory \/ CondenseRun \/ CopyFails \/ UNCHANGED vars
  BY <1>4 DEF NoMemory, CondenseRun, CopyFails, vars, Counted, search
<1> QED BY <1>1, <1>2, <1>3, <1>4 DEF Next

\* The diagonal an edit comes from is one that was extended in the round before.
LEMMA OriginLive ==
  ASSUME TypeOK, Loops, phase = "search"
  PROVE  Origin(diagonal) \in Live
<1>1. /\ distance \in 1 .. MaxDistance - 1
      /\ diagonal \in -distance .. distance
      /\ (distance - diagonal) % 2 = 0
  BY DEF Loops
<1>2. /\ Origin(diagonal) \in {diagonal - 1, diagonal + 1}
      /\ diagonal = -distance => Origin(diagonal) = diagonal + 1
      /\ diagonal = distance => Origin(diagonal) = diagonal - 1
  BY <1>1, Bounds DEF Origin, MovesDown
<1>3. Origin(diagonal) \in Diagonals
  BY MoveType
<1> DEFINE o == Origin(diagonal)
<1> HIDE DEF o
<1>4. /\ (distance - o) % 2 # 0 /\ ((distance - 1) - o) % 2 = 0
      /\ -(distance - 1) <= o /\ o <= distance - 1
  <2>1. distance \in Int /\ diagonal \in Int
    BY <1>1, Bounds
  <2>2. (o = diagonal - 1 /\ diagonal # -distance) \/ (o = diagonal + 1 /\ diagonal # distance)
    BY <1>1, <1>2, <2>1 DEF o
  <2> QED BY <1>1, <2>1, <2>2
<1>5. Level(o) = distance - 1
  BY <1>4 DEF Level
<1> QED BY <1>3, <1>4, <1>5 DEF Live, o

\* The search never leaves the arrays it allocates: the diagonals it reads have
\* been written, and the chunks of the pool suffice for all the edits it takes.
\* (shortest_edit_script_quadratic_space.c:85-131)
THEOREM StaysInBounds == Spec => []InBounds
<1>1. Init => Counted
  BY DEF Init, Counted
<1>2. TypeOK /\ Loops /\ Counted /\ [Next]_vars => Counted'
  BY CountedNext
<1>3. TypeOK /\ Loops /\ Counted => InBounds
  <2> SUFFICES ASSUME TypeOK, Loops, Counted, phase = "search" PROVE InBounds
    BY DEF InBounds
  <2>1. Origin(diagonal) \in Diagonals /\ Origin(diagonal) \in Live
    BY MoveType, OriginLive
  <2>2. /\ distance \in 1 .. MaxDistance - 1
        /\ diagonal \in -distance .. distance
        /\ 2 * (num_edits + 1) <= 2 * Chunks(distance - 1) + (diagonal + distance)
        /\ num_edits + 1 \in Nat /\ num_edits \in Int
    BY DEF Loops, Counted, TypeOK
  <2>3. /\ Chunks(distance - 1) \in Nat
        /\ Chunks(distance) = Chunks(distance - 1) + Chunk
        /\ distance < Chunk
    <3>1. distance \in Nat /\ distance >= 1 /\ distance < Chunk
      BY <2>2, Bounds DEF Chunk
    <3> QED BY <3>1, ChunksNext
  <2>4. num_edits + 1 < Chunks(distance)
    <3>1. distance \in Nat /\ Chunk \in Nat /\ diagonal \in Int /\ diagonal <= distance
      BY <2>2, Bounds, ChunkPositive
    <3> QED BY <3>1, <2>2, <2>3
  <2>5. (num_edits + 1) \div Chunk < distance
    BY <2>2, <2>4, Bounds, ChunkPositive, InChunk DEF Chunks
  <2>6. (num_edits + 1) \div Chunk \in Int
    BY <2>2, ChunkPositive
  <2>7. (num_edits + 1) \div Chunk < MaxDiagonals
    <3> DEFINE q == (num_edits + 1) \div Chunk
    <3>1. q \in Int /\ q < distance
      BY <2>5, <2>6
    <3> HIDE DEF q
    <3>2. q < MaxDiagonals
      BY <3>1, <2>2, Bounds DEF MaxDiagonals
    <3> QED BY <3>2 DEF q
  <2> QED BY <2>1, <2>2, <2>7 DEF InBounds, Chunk
<1> QED BY <1>1, <1>2, <1>3, TypeInvariant, PTL DEF Spec
-----------------------------------------------------------------------------
(***************************************************************************)
(* The frontier moves.  A point reached with one more edit is further to   *)
(* the right than the one on the diagonal before it, and not further to    *)
(* the left than the one on the diagonal behind it.                        *)
(***************************************************************************)
X(k) == last_distance[k].x

\* After the step.
NextX(k) == last_distance'[k].x

\* The neighbours of a diagonal that was passed, where there was a point.
Outruns(k) ==
  /\ k > -distance => X(k) >= X(k - 1) + 1
  /\ k < distance => X(k) >= X(k + 1)

\* The neighbours of a diagonal still to come that was extended two edits ago.
Outrun(k) == X(k + 1) >= X(k) + 1 /\ X(k - 1) >= X(k)

Advancing ==
  phase = "search" =>
    /\ \A k \in -distance .. diagonal - 2 : (distance - k) % 2 = 0 => Outruns(k)
    /\ \A k \in diagonal .. distance - 2 :
         k > -distance /\ (distance - k) % 2 = 0 => Outrun(k)

LEMMA XType ==
  ASSUME TypeOK
  PROVE  \A k \in Diagonals : X(k) \in Nat
  BY DEF TypeOK, X, Points

\* An edit leads past both neighbours.
LEMMA ExtendOutruns ==
  ASSUME TypeOK, Loops, phase = "search", NEW n \in Lengths,
         last_distance' = [last_distance EXCEPT ![diagonal] =
                             Along(Point(Move(diagonal).one, Move(diagonal).two), n)]
  PROVE  /\ \A k \in Diagonals : k # diagonal => NextX(k) = X(k)
         /\ NextX(diagonal) \in Nat
         /\ diagonal > -distance => NextX(diagonal) >= X(diagonal - 1) + 1
         /\ diagonal < distance => NextX(diagonal) >= X(diagonal + 1)
<1>1. /\ distance \in 1 .. MaxDistance - 1
      /\ diagonal \in -distance .. distance
      /\ n \in Nat
  BY Bounds DEF Loops, Lengths
<1>2. /\ diagonal \in Diagonals
      /\ diagonal > -distance => diagonal - 1 \in Diagonals
      /\ diagonal < distance => diagonal + 1 \in Diagonals
      /\ distance \in Int /\ diagonal \in Int
  BY <1>1, Bounds
<1>3. ASSUME NEW k \in Diagonals, k # diagonal PROVE NextX(k) = X(k)
  BY <1>2, <1>3 DEF TypeOK, X, NextX
<1>4. NextX(diagonal) = Move(diagonal).one + n
  <2>1. last_distance'[diagonal] = Along(Point(Move(diagonal).one, Move(diagonal).two), n)
    BY <1>2 DEF TypeOK
  <2> QED BY <2>1 DEF NextX, Along, Point
<1>5. Move(diagonal).one = IF MovesDown(diagonal) THEN X(diagonal + 1) ELSE X(diagonal - 1) + 1
  BY DEF Move, Origin, X
<1>6. MovesDown(diagonal) <=>
        \/ diagonal = -distance
        \/ diagonal # distance /\ X(diagonal - 1) < X(diagonal + 1)
  BY DEF MovesDown, X
<1>7. /\ diagonal > -distance => X(diagonal - 1) \in Nat
      /\ diagonal < distance => X(diagonal + 1) \in Nat
  BY <1>2, XType
<1>8. diagonal = -distance \/ diagonal > -distance
  BY <1>1, <1>2
<1>9. diagonal = distance \/ diagonal < distance
  BY <1>1, <1>2
<1>10. distance # -distance
  BY <1>1, Bounds
<1> QED BY <1>1, <1>2, <1>3, <1>4, <1>5, <1>6, <1>7, <1>8, <1>9, <1>10

LEMMA AdvancingNext ==
  ASSUME TypeOK, Loops, Advancing, [Next]_vars
  PROVE  Advancing'
<1>1. CASE Begin
  <2> SUFFICES ASSUME phase' = "search" PROVE Advancing'
    BY DEF Advancing
  <2>1. distance' = 1 /\ diagonal' = -1
    BY <1>1 DEF Begin
  <2>2. -distance' .. diagonal' - 2 = {} /\ diagonal' .. distance' - 2 = {-1}
    BY <2>1
  <2> QED BY <2>1, <2>2 DEF Advancing
<1>2. CASE Extend
  <2> SUFFICES ASSUME phase' = "search" PROVE Advancing'
    BY DEF Advancing
  <2>1. phase = "search" /\ NextDiagonal
    BY <1>2 DEF Extend, Found
  <2>2. PICK n \in Lengths :
          last_distance' = [last_distance EXCEPT ![diagonal] =
                              Along(Point(Move(diagonal).one, Move(diagonal).two), n)]
    BY <1>2 DEF Extend
  <2>3. /\ \A k \in Diagonals : k # diagonal => NextX(k) = X(k)
        /\ NextX(diagonal) \in Nat
        /\ diagonal > -distance => NextX(diagonal) >= X(diagonal - 1) + 1
        /\ diagonal < distance => NextX(diagonal) >= X(diagonal + 1)
    BY <2>1, <2>2, ExtendOutruns
  <2>4. /\ distance \in 1 .. MaxDistance - 1
        /\ diagonal \in -distance .. distance
        /\ (distance - diagonal) % 2 = 0
        /\ distance \in Int /\ diagonal \in Int
    BY <2>1, Bounds DEF Loops
  <2>5. ASSUME NEW k \in -distance .. diagonal, (distance - k) % 2 = 0
        PROVE  /\ k > -distance => NextX(k) >= NextX(k - 1) + 1
               /\ k < distance => NextX(k) >= NextX(k + 1)
    <3>1. /\ k # diagonal => k \in Diagonals /\ k \in -distance .. diagonal - 2
          /\ k > -distance => k - 1 \in Diagonals /\ k - 1 # diagonal
          /\ k < distance => k + 1 \in Diagonals /\ k + 1 # diagonal
      BY <2>4, <2>5, Bounds
    <3>2. CASE k = diagonal
      BY <3>1, <3>2, <2>3
    <3>3. CASE k # diagonal
      <4>1. Outruns(k)
        BY <2>1, <2>5, <3>1, <3>3 DEF Advancing
      <4> QED BY <3>1, <3>3, <4>1, <2>3 DEF Outruns
    <3> QED BY <3>2, <3>3
  <2>6. CASE diagonal + 2 <= distance
    <3>1. diagonal' = diagonal + 2 /\ distance' = distance
      BY <2>1, <2>6 DEF NextDiagonal
    <3>2. ASSUME NEW k \in -distance' .. diagonal' - 2, (distance' - k) % 2 = 0
          PROVE  Outruns(k)'
      <4>1. k \in -distance .. diagonal
        BY <3>1, <2>4
      <4> QED BY <2>5, <3>1, <3>2, <4>1 DEF Outruns, X, NextX
    <3>3. ASSUME NEW k \in diagonal' .. distance' - 2,
                 k > -distance', (distance' - k) % 2 = 0
          PROVE  Outrun(k)'
      <4>1. /\ k \in diagonal .. distance - 2 /\ k > -distance
            /\ k # diagonal /\ k - 1 # diagonal /\ k + 1 # diagonal
            /\ k \in Diagonals /\ k - 1 \in Diagonals /\ k + 1 \in Diagonals
        BY <3>1, <3>3, <2>4, Bounds
      <4>2. Outrun(k)
        BY <4>1, <3>1, <3>3, <2>1 DEF Advancing
      <4> QED BY <4>1, <4>2, <2>3 DEF Outrun, X, NextX
    <3> QED BY <3>2, <3>3 DEF Advancing
  <2>7. CASE ~ (diagonal + 2 <= distance)
    <3>1. diagonal' = -(distance + 1) /\ distance' = distance + 1
      BY <2>1, <2>7 DEF NextDiagonal
    <3>2. diagonal = distance
      BY <2>4, <2>7
    <3>3. -distance' .. diagonal' - 2 = {}
      BY <3>1, <2>4
    <3>4. ASSUME NEW k \in diagonal' .. distance' - 2,
                 k > -distance', (distance' - k) % 2 = 0
          PROVE  Outrun(k)'
      <4>1. /\ k \in Int
            /\ k + 1 \in -distance .. diagonal /\ (distance - (k + 1)) % 2 = 0
            /\ k + 1 > -distance
        BY <3>1, <3>2, <3>4, <2>4
      <4>2. NextX(k + 1) >= NextX((k + 1) - 1) + 1
        BY <4>1, <2>5
      <4>3. /\ k - 1 \in -distance .. diagonal /\ (distance - (k - 1)) % 2 = 0
            /\ k - 1 < distance
        BY <3>1, <3>2, <3>4, <2>4
      <4>4. NextX(k - 1) >= NextX((k - 1) + 1)
        BY <4>3, <2>5
      <4>5. (k + 1) - 1 = k /\ (k - 1) + 1 = k
        BY <4>1
      <4> QED BY <4>2, <4>4, <4>5 DEF Outrun, X, NextX
    <3> QED BY <3>3, <3>4 DEF Advancing
  <2> QED BY <2>6, <2>7
<1>3. CASE PoolExhausted \/ NoMemory \/ CopyFails
  BY <1>3 DEF PoolExhausted, NoMemory, CopyFails, Advancing
<1>4. CASE CondenseRun
  BY <1>4 DEF CondenseRun, Advancing
<1>5. CASE UNCHANGED vars
  BY <1>5 DEF vars, search, Advancing, Outruns, Outrun, X
<1> QED BY <1>1, <1>2, <1>3, <1>4, <1>5 DEF Next

\* A diagonal that is extended again ends further down than two edits earlier:
\* no edit of the search is spent on ground it covered before.
\* (shortest_edit_script_quadratic_space.c:98-131)
THEOREM NoEditInVain == Spec => FrontierAdvances
<1>1. Init => Advancing
  BY DEF Init, Advancing
<1>2. TypeOK /\ Loops /\ Advancing /\ [Next]_vars => Advancing'
  BY AdvancingNext
<1> DEFINE Step == phase = "search" /\ diagonal \in 2 - distance .. distance - 2
                     /\ script' # script
                   => last_distance'[diagonal].x > last_distance[diagonal].x
<1>3. TypeOK /\ Loops /\ Advancing /\ [Next]_vars => Step
  <2> SUFFICES ASSUME TypeOK, Loops, Advancing, [Next]_vars, phase = "search",
                      diagonal \in 2 - distance .. distance - 2, script' # script
               PROVE  NextX(diagonal) > X(diagonal)
    BY DEF X, NextX
  <2>1. Extend
    BY DEF Next, Begin, NoMemory, PoolExhausted, CondenseRun, CopyFails, vars, search
  <2>2. PICK n \in Lengths :
          last_distance' = [last_distance EXCEPT ![diagonal] =
                              Along(Point(Move(diagonal).one, Move(diagonal).two), n)]
    BY <2>1 DEF Extend
  <2>3. /\ NextX(diagonal) \in Nat
        /\ diagonal > -distance => NextX(diagonal) >= X(diagonal - 1) + 1
        /\ diagonal < distance => NextX(diagonal) >= X(diagonal + 1)
    BY <2>2, ExtendOutruns
  <2>4. /\ distance \in Int /\ diagonal \in Int
        /\ diagonal > -distance /\ diagonal < distance
        /\ diagonal \in diagonal .. distance - 2 /\ (distance - diagonal) % 2 = 0
        /\ diagonal \in Diagonals /\ diagonal - 1 \in Diagonals /\ diagonal + 1 \in Diagonals
    BY Bounds DEF Loops
  <2>5. Outrun(diagonal)
    BY <2>4 DEF Advancing
  <2>6. X(diagonal) \in Nat /\ X(diagonal - 1) \in Nat /\ X(diagonal + 1) \in Nat
    BY <2>4, XType
  <2> QED BY <2>3, <2>4, <2>5, <2>6 DEF Outrun
<1> QED BY <1>1, <1>2, <1>3, TypeInvariant, PTL DEF Spec, FrontierAdvances
-----------------------------------------------------------------------------
(***************************************************************************)
(* Refinement.  While the chain is condensed, the condensed edits and what *)
(* is left of the chain are together as many as the distance, and the next *)
(* run is not one that the last condensed edit could have taken in.        *)
(***************************************************************************)
Separate(es) == \A i \in 1 .. Len(es) - 1 : ~ Service!Mergeable(es[i], es[i + 1])

Balance ==
  /\ phase = "condense" =>
       /\ Spends(edit_script, Cost(End) - Len(chain))
       /\ Separate(edit_script)
       /\ edit_script # <<>> =>
            ~ Service!Mergeable(edit_script[Len(edit_script)], Rest[1])
  /\ phase = "done" =>
       /\ Spends(edit_script, Cost(End))
       /\ Separate(edit_script)

\* Where a run ends, the next edit cannot be merged with it.
LEMMA RunsSeparate ==
  ASSUME TypeOK, NEW n \in 1 .. Len(chain) - 1, IsRun(chain, n)
  PROVE  ~ Service!Mergeable(Condensed(chain[1], n), Condensed(chain[n + 1], 1))
<1> DEFINE c == chain[1]
           d == chain[n + 1]
<1>1. c \in RawEdits /\ d \in RawEdits /\ n \in Nat /\ n < Len(chain)
  BY DEF TypeOK
<1>2. ~ Continues(chain, n + 1)
  BY <1>1 DEF IsRun
<1>3. /\ c.operation \in Operations /\ d.operation \in Operations
      /\ c.one \in Nat /\ d.one \in Nat /\ c.two \in Nat /\ d.two \in Nat
  BY <1>1 DEF RawEdits
<1>4. c.operation = d.operation => d.one # IF c.operation = "SES_INSERT" THEN c.one ELSE c.one + (n + 1) - 1
  BY <1>2 DEF Continues
<1> HIDE DEF c, d
<1>5. SUFFICES ASSUME c.operation = d.operation,
                      After(Condensed(c, n)) = Before(Condensed(d, 1))
               PROVE  FALSE
  BY DEF Service!Mergeable, Service!After, Service!Before, Service!Point, Condensed, c, d,
         After, Before, Point
<1>6. CASE c.operation = "SES_DELETE"
  <2>1. (c.one - 1) + n = d.one - 1
    BY <1>5, <1>6 DEF After, Before, Condensed, Point
  <2> QED BY <2>1, <1>1, <1>3, <1>4, <1>5, <1>6
<1>7. CASE c.operation = "SES_INSERT"
  <2>1. c.one = d.one
    BY <1>5, <1>7 DEF After, Before, Condensed, Point
  <2> QED BY <2>1, <1>4, <1>5, <1>7
<1> QED BY <1>3, <1>6, <1>7 DEF Operations

\* What an edit can be merged with does not depend on its length.
LEMMA MergeableAlike ==
  ASSUME NEW e, NEW f, NEW n
  PROVE  Service!Mergeable(e, Condensed(f, n)) <=> Service!Mergeable(e, Condensed(f, 1))
  BY DEF Service!Mergeable, Service!Before, Service!Point, Condensed

LEMMA SeparateAppend ==
  ASSUME NEW es \in Seq(Edits), NEW e \in Edits, Separate(es),
         es # <<>> => ~ Service!Mergeable(es[Len(es)], e)
  PROVE  Separate(Append(es, e))
<1>1. /\ Len(Append(es, e)) = Len(es) + 1 /\ Len(es) \in Nat
      /\ \A i \in 1 .. Len(es) : Append(es, e)[i] = es[i]
      /\ Append(es, e)[Len(es) + 1] = e
  OBVIOUS
<1> SUFFICES ASSUME NEW i \in 1 .. Len(es)
             PROVE  ~ Service!Mergeable(Append(es, e)[i], Append(es, e)[i + 1])
  BY <1>1 DEF Separate
<1>2. CASE i = Len(es)
  BY <1>1, <1>2
<1>3. CASE i \in 1 .. Len(es) - 1
  BY <1>1, <1>3 DEF Separate
<1> QED BY <1>1, <1>2, <1>3

LEMMA BalanceBegin ==
  ASSUME IInv, Begin
  PROVE  Balance'
<1>1. /\ phase = "start" /\ edit_script = <<>> /\ edit_script' = edit_script
      /\ equal' = equal /\ TypeOK
  BY DEF IInv, Outcome, Begin, input, output
<1>2. PICK n \in Lengths :
        /\ Slides(Start, n)
        /\ \/ Along(Start, n) = End /\ phase' = "done"
           \/ Along(Start, n) # End /\ phase' = "search"
  BY DEF Begin
<1>3. CASE phase' = "search"
  BY <1>3 DEF Balance
<1>4. CASE phase' = "done" /\ Along(Start, n) = End
  <2>1. Furthest(End, 0, 0)
    BY <1>1, <1>2, <1>4, Bounds, BeginFurthest DEF Lengths
  <2>2. Cost(End) + (End.x - End.x) + (End.y - End.y) <= 0
    BY <2>1, <1>1, EndInGrid DEF Furthest, Affordable
  <2>3. Cost(End) = 0
    BY <2>2, <1>1, EndInGrid, Bounds
  <2>4. Cost(End)' = Cost(End)
    BY <1>1 DEF Cost
  <2>5. Spends(<<>>, 0) /\ Separate(<<>>)
    BY SpendsNothing DEF Separate
  <2> QED BY <1>1, <1>4, <2>3, <2>4, <2>5 DEF Balance
<1> QED BY <1>2, <1>3, <1>4

LEMMA BalanceExtend ==
  ASSUME IInv, IInv', Extend
  PROVE  Balance'
<1>1. /\ phase' \in {"search", "failed", "condense"}
      /\ phase = "search"
      /\ phase' = "condense" => edit_script' = edit_script
  BY DEF Extend, Found, NextDiagonal
<1>2. SUFFICES ASSUME phase' = "condense" PROVE Balance'
  BY <1>1 DEF Balance
<1>3. edit_script' = <<>>
  BY <1>1, <1>2 DEF IInv, Outcome
<1>4. Len(chain') = Cost(End)'
  BY <1>2, <1>3 DEF IInv, ChainIsShortest, Cost
<1>5. Cost(End)' - Len(chain') = 0
  <2>1. Len(chain') \in Nat
    BY DEF IInv, TypeOK
  <2> QED BY <2>1, <1>4
<1>6. Spends(<<>>, 0) /\ Separate(<<>>)
  BY SpendsNothing DEF Separate
<1> QED BY <1>2, <1>3, <1>5, <1>6 DEF Balance

LEMMA BalanceCondenseRun ==
  ASSUME IInv, Balance, CondenseRun
  PROVE  Balance'
<1>1. phase = "condense" /\ equal' = equal /\ TypeOK
  BY DEF IInv, CondenseRun, input
<1>2. PICK n \in 1 .. Len(chain) :
        /\ IsRun(chain, n)
        /\ edit_script' = Append(edit_script, Condensed(chain[1], n))
        /\ chain' = SubSeq(chain, n + 1, Len(chain))
        /\ IF n = Len(chain)
           THEN phase' = "done" /\ result' = Len(edit_script) + 1
           ELSE UNCHANGED <<phase, result>>
  BY DEF CondenseRun
<1> DEFINE e == Condensed(chain[1], n)
<1>3. /\ chain \in Seq(RawEdits) /\ Len(chain) \in Nat /\ n \in Nat \ {0}
      /\ n <= Len(chain) /\ chain[1] \in RawEdits
      /\ edit_script \in Seq(Edits) /\ Cost(End) \in Nat
      /\ Len(edit_script) \in Nat
  BY <1>1, EndInGrid DEF TypeOK
<1>4. e \in Edits /\ e.length = n
  <2>1. e \in Edits
    BY <1>3, CondensedType
  <2>2. e.length = n
    BY DEF Condensed
  <2> QED BY <2>1, <2>2
<1>5. Cost(End)' = Cost(End)
  BY <1>1 DEF Cost
<1> HIDE DEF e
<1>6. Spends(edit_script', (Cost(End) - Len(chain)) + n)
  <2>1. Spends(edit_script, Cost(End) - Len(chain)) /\ Cost(End) - Len(chain) \in Int
    BY <1>1, <1>3 DEF Balance
  <2> QED BY <2>1, <1>2, <1>3, <1>4, SpendsMore DEF e
<1>7. Separate(edit_script')
  <2>1. Rest[1] = Condensed(chain[1], 1)
    BY <1>3, UnitSeq DEF Rest
  <2>2. edit_script # <<>> => ~ Service!Mergeable(edit_script[Len(edit_script)], e)
    BY <1>1, <2>1, MergeableAlike DEF Balance, e
  <2>3. Separate(edit_script)
    BY <1>1 DEF Balance
  <2>4. Separate(Append(edit_script, e))
    BY <1>3, <1>4, <2>2, <2>3, SeparateAppend
  <2> QED BY <1>2, <2>4 DEF e
<1>8. CASE n = Len(chain)
  <2>1. (Cost(End) - Len(chain)) + n = Cost(End)
    BY <1>3, <1>8
  <2>2. phase' = "done"
    BY <1>2, <1>8
  <2> QED BY <1>5, <1>6, <1>7, <2>1, <2>2 DEF Balance
<1>9. CASE n # Len(chain)
  <2>1. phase' = "condense"
    BY <1>1, <1>2, <1>9
  <2>2. /\ chain' \in Seq(RawEdits) /\ Len(chain') = Len(chain) - n
        /\ chain'[1] = chain[n + 1] /\ 1 \in 1 .. Len(chain')
    BY <1>2, <1>3, <1>9
  <2>3. (Cost(End) - Len(chain)) + n = Cost(End)' - Len(chain')
    BY <1>3, <1>5, <2>2
  <2>4. Rest'[1] = Condensed(chain[n + 1], 1)
    <3>1. Rest' = Unit(chain')
      BY DEF Rest, Unit
    <3> QED BY <2>2, <3>1, UnitSeq
  <2>5. ~ Service!Mergeable(e, Rest'[1])
    <3>1. n \in 1 .. Len(chain) - 1
      BY <1>3, <1>9
    <3> QED BY <1>1, <1>2, <2>4, <3>1, RunsSeparate DEF e
  <2>6. edit_script'[Len(edit_script')] = e
    BY <1>2, <1>3 DEF e
  <2> QED BY <1>6, <1>7, <2>1, <2>3, <2>5, <2>6 DEF Balance
<1> QED BY <1>8, <1>9

LEMMA BalanceNext ==
  ASSUME IInv, IInv', Balance, [Next]_vars
  PROVE  Balance'
<1>1. CASE NoMemory \/ PoolExhausted \/ CopyFails
  BY <1>1 DEF NoMemory, PoolExhausted, CopyFails, Balance
<1>2. CASE UNCHANGED vars
  BY <1>2 DEF vars, input, search, output, Balance, Rest, Unit, Cost
<1> QED BY <1>1, <1>2, BalanceBegin, BalanceExtend, BalanceCondenseRun DEF Next

LEMMA TotalTouched ==
  ASSUME NEW es
  PROVE  Service!Total(es) = Cardinality(Touched(es))
  BY DEF Service!Total, Touched, Cardinality, Service!Cardinality

\* What is returned is what the service promises.
LEMMA AnswerIsShortest ==
  ASSUME IInv, Balance, phase = "done"
  PROVE  Service!IsShortest(edit_script)
<1>1. Transforms(equal, edit_script, Start, End)
  BY DEF IInv, ScriptTransforms
<1>2. Service!Transforms(equal, edit_script, Service!Start, Service!End)
  BY <1>1 DEF Start, End, Point, Transforms, Leaving, Arriving, Before, After, Common,
              Service!Start, Service!End, Service!Point, Service!Transforms,
              Service!Leaving, Service!Arriving, Service!Before, Service!After,
              Service!Common
<1>3. Service!Total(edit_script) = EditDistance(equal)[Service!End]
  <2>1. Cardinality(Touched(edit_script)) = Cost(End)
    BY DEF Balance, Spends
  <2>2. Service!Total(edit_script) = Cardinality(Touched(edit_script))
    BY TotalTouched
  <2>3. Service!End = End
    BY DEF Service!End, Service!Point, End, Point
  <2> QED BY <2>1, <2>2, <2>3 DEF Cost
<1>4. \A i \in 1 .. Len(edit_script) - 1 :
        ~ Service!Mergeable(edit_script[i], edit_script[i + 1])
  BY DEF Balance, Separate
<1> QED BY <1>2, <1>3, <1>4 DEF Service!IsShortest

\* The search with make_edit_script keeps the promise of shortest_edit_script.h:
\* it answers once, with a script that transforms the parts, has as many edits as
\* the edit distance and no two that could have been one, or it fails.
\* (shortest_edit_script_quadratic_space.c:18-151, shortest_edit_script_common.c)
THEOREM KeepsThePromise == Spec => ImplementsService
<1>1. Init => Balance
  BY DEF Init, Balance
<1>2. IInv /\ IInv' /\ Balance /\ [Next]_vars => Balance'
  BY BalanceNext
<1>3. Init => Service!Init
  BY DEF Init, Service!Init, Service!Cells, Service!Start, Service!End, Service!Point,
         Cells, Start, End, Point
<1> DEFINE Abstract == <<equal,
                         IF phase = "done" THEN "answered"
                         ELSE IF phase = "failed" THEN "failed" ELSE "pending",
                         IF phase = "done" THEN edit_script ELSE <<>>>>
     Answered == phase = "done" => Service!IsShortest(edit_script)
<1>4. IInv /\ Balance => Answered
  BY AnswerIsShortest
<1>5. Answered' /\ [Next]_vars => [Service!Next]_Abstract
  <2> SUFFICES ASSUME Answered', [Next]_vars
               PROVE  [Service!Next]_Abstract
    OBVIOUS
  <2>1. CASE UNCHANGED vars
    BY <2>1 DEF vars, input, output
  <2>2. CASE Next
    <3>1. equal' = equal /\ phase \in {"start", "search", "condense"}
      BY <2>2 DEF Next, Begin, NoMemory, Extend, PoolExhausted, CondenseRun, CopyFails, input
    <3>2. CASE phase' = "done"
      BY <3>1, <3>2 DEF Service!Next, Service!Answer, Service!IsShortest
    <3>3. CASE phase' = "failed"
      BY <3>1, <3>3 DEF Service!Next, Service!Fail
    <3>4. CASE phase' \notin {"done", "failed"}
      BY <3>1, <3>4
    <3> QED BY <3>2, <3>3, <3>4
  <2> QED BY <2>1, <2>2
<1> QED
  BY <1>1, <1>2, <1>3, <1>4, <1>5, Invariant, PTL DEF Spec, ImplementsService, Service!Spec
=============================================================================
