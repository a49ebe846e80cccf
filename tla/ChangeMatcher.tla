---------------------------- MODULE ChangeMatcher ----------------------------
(***************************************************************************)
(* change_matcher: which constructs of a change are versions of each       *)
(* other.  A table over all pairs minimizes the unmatched constructs; a    *)
(* walk back through it makes the list of changes many_differ works off.   *)
(* How similar two constructs are is the measurers' and rules' business:   *)
(* their verdict on every pair is an input.  One action fills the table,   *)
(* one is a step of the walk.                                              *)
(***************************************************************************)
EXTENDS Integers, Sequences, FiniteSets

LOCAL INSTANCE SequencesExt

CONSTANTS
  OriginalSize, ModifiedSize,  \* the constructs of the change
  Verdicts,                    \* what the rules may say of a pair
  Moves                        \* the pairs of sets of constructs that are moves

ASSUME SizesAssumption ==
  OriginalSize \in Nat \ {0} /\ ModifiedSize \in Nat \ {0}

ASSUME VerdictsAssumption ==
  Verdicts \subseteq [operation : {"NONE", "MATCH", "CONVERT", "NEST"},
                      similarity : Nat, better_nested : BOOLEAN]

\* check_match has no similarity for a pair that does not match.
ASSUME NoneAssumption ==
  \A v \in Verdicts : v.operation = "NONE" => v.similarity = 0

Original == 0 .. OriginalSize - 1
Modified == 0 .. ModifiedSize - 1

VARIABLES
  verdict,       \* verdict[<<i, j>>] on modified construct i and original construct j
  moved,         \* the original and the modified constructs with a move id
  phase,         \* where match_differences is
  differences,   \* the table
  i, j,          \* the cell the walk is at
  olist, nlist,  \* the constructs that are output already
  original_pos,  \* the last original construct not yet in the list
  modified_pos,  \* the last modified one
  changes        \* the list, built from its end

input == <<verdict, moved>>
walk == <<i, j, olist, nlist, original_pos, modified_pos>>
vars == <<input, phase, differences, walk, changes>>
-----------------------------------------------------------------------------
IsMove(m, o) == o \in moved.original \/ m \in moved.modified

\* A pair that does not match counts as two unmatched constructs.  A move loses
\* its similarity, a pair that nests better elsewhere keeps it.
BetterNested(v) == v.operation # "NEST" /\ v.better_nested

Unmatched(m, o) ==
  LET v == verdict[<<m, o>>]
  IN  IF v.operation = "NONE" \/ BetterNested(v) \/ IsMove(m, o) THEN 2 ELSE 0

Similarity(m, o) ==
  LET v == verdict[<<m, o>>]
  IN  IF v.operation # "NONE" /\ ~ BetterNested(v) /\ IsMove(m, o) THEN 0 ELSE v.similarity

Cell(num_unmatched, similarity, direction, matched) ==
  [num_unmatched |-> num_unmatched, similarity |-> similarity,
   direction |-> direction, marked |-> matched]

\* Mutant: similarity does not break ties.
BetterIgnoringSimilarity(c, d) == c.num_unmatched < d.num_unmatched

\* Fewer unmatched constructs, or as many and more similarity.
Better(c, d) ==
  \/ c.num_unmatched < d.num_unmatched
  \/ c.num_unmatched = d.num_unmatched /\ c.similarity > d.similarity

Best(c, d) == IF Better(d, c) THEN d ELSE c

\* Mutant: the constructs before the pair are not counted.
AloneForFree(m, o, direction) ==
  Cell(Unmatched(m, o), Similarity(m, o), direction, Unmatched(m, o) = 0)

\* The pair is matched and every construct before it is not.
Alone(m, o, direction) ==
  Cell(m + o + Unmatched(m, o), Similarity(m, o), direction, Unmatched(m, o) = 0)

\* The neighbour's matches, and one construct more that has none.
Beside(d, direction) == Cell(d.num_unmatched + 1, d.similarity, direction, FALSE)

\* The neighbour's matches and the pair.
Below(d, m, o) ==
  Cell(d.num_unmatched + Unmatched(m, o), d.similarity + Similarity(m, o), 3,
       Unmatched(m, o) = 0)

\* The cell of modified construct m and original construct o, from those before it.
Entry(T, m, o) ==
  LET left == Best(Beside(T[<<m, o - 1>>], 1), Alone(m, o, 1))
      up == Best(Beside(T[<<m - 1, o>>], 2), Alone(m, o, 2))
  IN  IF m = 0 /\ o = 0 THEN Alone(m, o, 0)
      ELSE IF m = 0 THEN left
      ELSE IF o = 0 THEN up
      ELSE Best(Best(left, up), Below(T[<<m - 1, o - 1>>], m, o))

Table ==
  LET T[c \in Modified \X Original] == Entry(T, c[1], c[2]) IN T

Init ==
  /\ verdict \in [Modified \X Original -> Verdicts]
  /\ moved \in Moves
  /\ phase = "fill"
  /\ differences = <<>>
  /\ i = ModifiedSize - 1
  /\ j = OriginalSize - 1
  /\ olist = {}
  /\ nlist = {}
  /\ original_pos = OriginalSize - 1
  /\ modified_pos = ModifiedSize - 1
  /\ changes = <<>>

Fill ==
  /\ phase = "fill"
  /\ differences' = Table
  /\ phase' = "walk"
  /\ UNCHANGED <<input, walk, changes>>

\* safe_subspan: the positions from first to last; they are size_t, and -1 is
\* beyond every size.
Span(first, last) ==
  IF last < 0 \/ first > last THEN <<>> ELSE [n \in 1 .. last - first + 1 |-> first + n - 1]

Change(original, modified, operation) ==
  [original |-> original, modified |-> modified, operation |-> operation]

\* What lies between the cell and the part of the list that is made already.
Gap(m, o) ==
  IF original_pos > o \/ modified_pos > m
  THEN <<Change(Span(o + 1, original_pos), Span(m + 1, modified_pos), "CHANGE")>>
  ELSE <<>>

\* Mutant: a construct may be matched twice.
MarkedAgain(m, o) ==
  differences[<<m, o>>].marked /\ verdict[<<m, o>>].operation # "NEST"

Marked(m, o) ==
  /\ differences[<<m, o>>].marked
  /\ verdict[<<m, o>>].operation # "NEST"
  /\ o \notin olist /\ m \notin nlist

\* Mutant: the first cell has no case of its own.
BackFromFirst(direction) ==
  IF direction = 1 THEN <<0, 1>>
  ELSE IF direction = 2 THEN <<1, 0>>
  ELSE IF direction = 3 THEN <<1, 1>>
  ELSE <<0, 0>>

\* How far the walk goes back from a cell, in the modified and the original.
Back(direction) ==
  IF direction = 1 THEN <<0, 1>>
  ELSE IF direction = 2 THEN <<1, 0>>
  ELSE <<1, 1>>

Walk ==
  /\ phase = "walk" /\ (i >= 0 \/ j >= 0)
  /\ IF Marked(i, j)
     THEN /\ changes' = <<Change(<<j>>, <<i>>, verdict[<<i, j>>].operation)>> \o Gap(i, j) \o changes
          /\ olist' = olist \cup {j}
          /\ nlist' = nlist \cup {i}
          /\ original_pos' = j - 1
          /\ modified_pos' = i - 1
     ELSE UNCHANGED <<changes, olist, nlist, original_pos, modified_pos>>
  /\ LET back == Back(differences[<<i, j>>].direction)
     IN  i' = i - back[1] /\ j' = j - back[2]
  /\ UNCHANGED <<input, phase, differences>>

Return ==
  /\ phase = "walk" /\ i < 0 /\ j < 0
  /\ phase' = "done"
  /\ changes' = IF original_pos >= 0 \/ modified_pos >= 0
                THEN <<Change(Span(0, original_pos), Span(0, modified_pos), "CHANGE")>> \o changes
                ELSE changes
  /\ UNCHANGED <<input, differences, walk>>

Next == Fill \/ Walk \/ Return

Spec == Init /\ [][Next]_vars /\ WF_vars(Next)
-----------------------------------------------------------------------------
Originals == FlattenSeq([n \in DOMAIN changes |-> changes[n].original])
Modifieds == FlattenSeq([n \in DOMAIN changes |-> changes[n].modified])

\* The list and what is not yet in it are the whole change: every construct is in
\* the list once, in its order, and no entry of the list is empty.  The walk never leaves
\* the table on one side alone, where i * olength + j would be the index of another row.
ChangesTile ==
  /\ i = -1 <=> j = -1
  /\ Span(0, OriginalSize - 1) =
       (IF phase = "done" THEN <<>> ELSE Span(0, original_pos)) \o Originals
  /\ Span(0, ModifiedSize - 1) =
       (IF phase = "done" THEN <<>> ELSE Span(0, modified_pos)) \o Modifieds
  /\ \A n \in DOMAIN changes : changes[n].original # <<>> \/ changes[n].modified # <<>>

\* The pairs that may be matched, and the sets of them in which no two cross.
Matchable == {c \in Modified \X Original : Unmatched(c[1], c[2]) = 0}

Matchings ==
  {M \in SUBSET Matchable :
     \A c, d \in M : c = d \/ (c[1] < d[1] /\ c[2] < d[2]) \/ (d[1] < c[1] /\ d[2] < c[2])}

MaximumMatchings ==
  {M \in Matchings : \A N \in Matchings : Cardinality(N) <= Cardinality(M)}

\* The pairs the list says are versions of each other.
MatchedPairs ==
  {<<changes[n].modified[1], changes[n].original[1]>> :
     n \in {n \in DOMAIN changes : changes[n].operation # "CHANGE"}}

\* "minimizing unmatched" (change_matcher.cpp:141): no way to match leaves fewer
\* constructs unmatched, although the table is filled from cells that each forget
\* all but one way, and the walk can only output what their marks remember.  The
\* pairs that nest count as matched but are left to the nest_differ.
MinimizesUnmatched ==
  phase = "done" =>
    \E M \in MaximumMatchings :
      MatchedPairs = {c \in M : verdict[c].operation # "NEST"}

SumOfSimilarity(M) == Cardinality(UNION {{c} \X (1 .. verdict[c].similarity) : c \in M})

\* "maximizing similarity" (change_matcher.cpp:143): among the ways to match that
\* leave as few constructs unmatched, the list is one of those that match the most
\* similar constructs.
MaximizesSimilarity ==
  phase = "done" =>
    \E M \in MaximumMatchings :
      /\ MatchedPairs = {c \in M : verdict[c].operation # "NEST"}
      /\ \A N \in MaximumMatchings : SumOfSimilarity(N) <= SumOfSimilarity(M)

\* No pair nests, and none would nest better elsewhere.
NoneNests ==
  \A c \in Modified \X Original : verdict[c].operation # "NEST" /\ ~ verdict[c].better_nested

\* Where no pair nests and none would nest better elsewhere, similarity is maximal.
\* (change_matcher.cpp:141-143, 186-264)
MaximizesUnlessNested == NoneNests => MaximizesSimilarity

\* The walk ends.
Termination == <>(phase = "done")
=============================================================================
