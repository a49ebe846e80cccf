----------------------------- MODULE EditScripts -----------------------------
(***************************************************************************)
(* What an edit script is, for every algorithm of src/shortest_edit_script *)
(* that computes one.  Two sequences span a grid: the point [x, y] stands  *)
(* for "x elements of sequence one and y elements of sequence two are      *)
(* consumed".  An edit moves right (SES_DELETE) or down (SES_INSERT);      *)
(* between two edits the script follows a diagonal of equal elements.      *)
(* compare() is a parameter of the C code, so equality of the elements is  *)
(* an arbitrary relation: the set of cells <<x, y>> for which compare()    *)
(* returns 0.                                                              *)
(***************************************************************************)
EXTENDS Integers, Sequences

Points == [x : Nat, y : Nat]

Operations == {"SES_DELETE", "SES_INSERT"}

\* struct edit_t, without the links: a script is a sequence of these.
Edits == [operation : Operations, one : Nat, two : Nat, length : Nat \ {0}]

Point(x, y) == [x |-> x, y |-> y]

\* The point n cells further down the diagonal of p.
Along(p, n) == Point(p.x + n, p.y + n)

(***************************************************************************)
(* The points of the grid between two corners, and its cells.              *)
(***************************************************************************)
Grid(from, to) == [x : from.x .. to.x, y : from.y .. to.y]

Cells(from, to) == (from.x .. to.x - 1) \X (from.y .. to.y - 1)

\* From p to q every step is diagonal and consumes a pair of equal elements.
Common(equal, p, q) ==
  /\ q.x - p.x = q.y - p.y
  /\ q.x >= p.x
  /\ \A i \in 0 .. (q.x - p.x) - 1 : <<p.x + i, p.y + i>> \in equal

\* Where an edit begins, and where it ends.
Before(e) == Point(e.one, e.two)

After(e) == IF e.operation = "SES_DELETE"
            THEN Point(e.one + e.length, e.two)
            ELSE Point(e.one, e.two + e.length)

(***************************************************************************)
(* es turns the elements between from and to of sequence one into those of *)
(* sequence two: it starts at from, arrives at to, and what it does not    *)
(* touch is common.                                                        *)
(***************************************************************************)
Leaving(es, i, from) == IF i = 0 THEN from ELSE After(es[i])

Arriving(es, i, to) == IF i = Len(es) + 1 THEN to ELSE Before(es[i])

Transforms(equal, es, from, to) ==
  \A i \in 0 .. Len(es) :
    Common(equal, Leaving(es, i, from), Arriving(es, i + 1, to))

(***************************************************************************)
(* d is the edit distance from the corner from to every point of the grid  *)
(* that ends at to: a point is reached by a deletion, by an insertion, or, *)
(* when the elements are equal, for free, whichever is cheapest.           *)
(***************************************************************************)
Left(p) == Point(p.x - 1, p.y)
Above(p) == Point(p.x, p.y - 1)
Diagonal(p) == Along(p, -1)

ByDeletion(from, p) == p.x > from.x
ByInsertion(from, p) == p.y > from.y
ByMatch(equal, from, p) ==
  p.x > from.x /\ p.y > from.y /\ <<p.x - 1, p.y - 1>> \in equal

IsEditDistance(equal, d, from, to) ==
  /\ d \in [Grid(from, to) -> Nat]
  /\ d[from] = 0
  /\ \A p \in Grid(from, to) :
       /\ ByDeletion(from, p) => d[p] <= d[Left(p)] + 1
       /\ ByInsertion(from, p) => d[p] <= d[Above(p)] + 1
       /\ ByMatch(equal, from, p) => d[p] <= d[Diagonal(p)]
       /\ \/ p = from
          \/ ByDeletion(from, p) /\ d[p] = d[Left(p)] + 1
          \/ ByInsertion(from, p) /\ d[p] = d[Above(p)] + 1
          \/ ByMatch(equal, from, p) /\ d[p] = d[Diagonal(p)]
=============================================================================
