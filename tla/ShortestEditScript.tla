-------------------------- MODULE ShortestEditScript --------------------------
(***************************************************************************)
(* The greedy O(ND) search of shortest_edit_script_quadratic_space.c and   *)
(* make_edit_script (shortest_edit_script_common.c), which condenses the   *)
(* edits it finds.  One action is one iteration of the loop over the       *)
(* diagonals, or one condensed edit.  The callers pass a part of two       *)
(* sequences: the rectangle between Start and End.                         *)
(***************************************************************************)
EXTENDS EditScripts

CONSTANTS
  StartOne, EndOne,  \* sequence_one_start, sequence_one_end
  StartTwo, EndTwo,  \* sequence_two_start, sequence_two_end
  EditDistance(_)    \* the reference: the edit distance for a relation

Start == Point(StartOne, StartTwo)
End == Point(EndOne, EndTwo)

ASSUME BoundsAssumption ==
  /\ StartOne \in Nat /\ EndOne \in Nat /\ StartOne <= EndOne
  /\ StartTwo \in Nat /\ EndTwo \in Nat /\ StartTwo <= EndTwo

ASSUME EditDistanceAssumption ==
  \A e \in SUBSET Cells(Start, End) :
    IsEditDistance(e, EditDistance(e), Start, End)

VARIABLES
  equal,          \* the cells for which compare() returns 0; never changes
  phase,          \* where the function is
  distance,       \* the number of edits being tried
  diagonal,       \* the diagonal being extended
  num_edits,      \* index of the last edit taken from the pool
  last_distance,  \* the furthest point reached on each diagonal
  script,         \* the edits that lead there, oldest first
  chain,          \* what make_edit_script has still to condense
  edit_script,    \* the condensed script
  result          \* the value returned

input == <<equal>>
search == <<distance, diagonal, num_edits, last_distance, script>>
output == <<chain, edit_script, result>>
vars == <<input, phase, search, output>>
-----------------------------------------------------------------------------
\* Mutant: no room for the distance at which nothing is common.
MaxDistanceTight == (EndOne - StartOne) + (EndTwo - StartTwo)

\* One more than the largest edit distance.
MaxDistance == (EndOne - StartOne) + (EndTwo - StartTwo) + 1

\* last_distance and script have 2 * MaxDistance + 1 entries; diagonal 0 is at
\* the index MaxDistance + 1.
MaxDiagonals == 2 * MaxDistance + 1
Center == MaxDistance + 1
Diagonals == 0 - Center .. MaxDiagonals - 1 - Center

Lengths == 0 .. EndOne - StartOne

\* compare() is only called inside both sequences.
Matches(p) == p.x < EndOne /\ p.y < EndTwo /\ <<p.x, p.y>> \in equal

\* Mutant: the pair at which the slide stops is taken for equal.
SlidesTooFar(p, n) ==
  /\ \A i \in 0 .. n - 2 : Matches(Along(p, i))
  /\ ~ Matches(Along(p, n))

\* Mutant: the slide stops after one pair.
SlidesOnce(p, n) ==
  /\ \A i \in 0 .. n - 1 : Matches(Along(p, i))
  /\ n = 1 \/ ~ Matches(Along(p, n))

\* From p the search slides along n equal pairs and no further.
Slides(p, n) ==
  /\ \A i \in 0 .. n - 1 : Matches(Along(p, i))
  /\ ~ Matches(Along(p, n))

\* Mutant: the neighbour that is less far along is preferred.
MovesDownNearest(k) ==
  \/ k = -distance
  \/ k # distance /\ last_distance[k - 1].x > last_distance[k + 1].x

\* The edit goes down when there is no diagonal on the left, or when the one on
\* the right is further along.
MovesDown(k) ==
  \/ k = -distance
  \/ k # distance /\ last_distance[k - 1].x < last_distance[k + 1].x

\* The neighbouring diagonal that diagonal k is reached from.
Origin(k) == IF MovesDown(k) THEN k + 1 ELSE k - 1

\* The edit, with the offsets it ends at.
Move(k) ==
  LET p == last_distance[Origin(k)]
  IN  IF MovesDown(k)
      THEN [operation |-> "SES_INSERT", one |-> p.x, two |-> p.y + 1, length |-> 1]
      ELSE [operation |-> "SES_DELETE", one |-> p.x + 1, two |-> p.y, length |-> 1]

Init ==
  /\ equal \in SUBSET Cells(Start, End)
  /\ phase = "start"
  /\ distance = 0
  /\ diagonal = 0
  /\ num_edits = -1
  /\ last_distance = [k \in Diagonals |-> Point(0, 0)]
  /\ script = [k \in Diagonals |-> <<>>]
  /\ chain = <<>>
  /\ edit_script = <<>>
  /\ result = 0

Return(value, edits) ==
  /\ result' = value
  /\ edit_script' = edits

\* Slide along diagonal 0; two identical parts need no edits.
Begin ==
  /\ phase = "start"
  /\ \E n \in Lengths :
       LET p == Along(Start, n)
       IN  /\ Slides(Start, n)
           /\ last_distance' = [last_distance EXCEPT ![0] = p]
           /\ \/ /\ p = End
                 /\ phase' = "done"
                 /\ UNCHANGED <<distance, diagonal>>
              \/ /\ p # End
                 /\ phase' = "search"
                 /\ distance' = 1
                 /\ diagonal' = -1
  /\ UNCHANGED <<input, num_edits, script, output>>

\* calloc of the array of scripts fails.
NoMemory ==
  /\ phase = "start"
  /\ phase' = "failed"
  /\ Return(-2, <<>>)
  /\ UNCHANGED <<input, search, chain>>

\* The end is reached: the chain of edits goes to make_edit_script.
Found(edits) ==
  /\ phase' = "condense"
  /\ chain' = edits
  /\ UNCHANGED <<distance, diagonal, edit_script, result>>

\* Mutant: every diagonal is tried, also those of the other parity.
EveryDiagonal ==
  /\ IF diagonal + 1 <= distance
     THEN diagonal' = diagonal + 1 /\ UNCHANGED <<distance, phase, result>>
     ELSE /\ distance' = distance + 1
          /\ diagonal' = -(distance + 1)
          /\ IF distance + 1 < MaxDistance
             THEN UNCHANGED <<phase, result>>
             ELSE phase' = "failed" /\ result' = -2
  /\ UNCHANGED <<chain, edit_script>>

\* The loops over the diagonals and over the distances.
NextDiagonal ==
  /\ IF diagonal + 2 <= distance
     THEN diagonal' = diagonal + 2 /\ UNCHANGED <<distance, phase, result>>
     ELSE /\ distance' = distance + 1
          /\ diagonal' = -(distance + 1)
          /\ IF distance + 1 < MaxDistance
             THEN UNCHANGED <<phase, result>>
             ELSE phase' = "failed" /\ result' = -2
  /\ UNCHANGED <<chain, edit_script>>

\* Extend the diagonal by one edit and slide as far as the elements are equal.
Extend ==
  /\ phase = "search"
  /\ LET edit == Move(diagonal)
         edits == Append(script[Origin(diagonal)], edit)
     IN  \E n \in Lengths :
           LET p == Along(Point(edit.one, edit.two), n)
           IN  /\ Slides(Point(edit.one, edit.two), n)
               /\ last_distance' = [last_distance EXCEPT ![diagonal] = p]
               /\ script' = [script EXCEPT ![diagonal] = edits]
               /\ \/ p = End /\ Found(edits)
                  \/ p # End /\ NextDiagonal
  /\ num_edits' = num_edits + 1
  /\ UNCHANGED input

\* The edits are allocated in chunks; calloc of the next one may fail.
PoolExhausted ==
  /\ phase = "search"
  /\ (num_edits + 1) % (MaxDistance + 1) = 0
  /\ phase' = "failed"
  /\ num_edits' = num_edits + 1
  /\ Return(-1, <<>>)
  /\ UNCHANGED <<input, distance, diagonal, last_distance, script, chain>>
-----------------------------------------------------------------------------
\* Mutant: the offsets of a deletion are not compared.
ContinuesAnywhere(edits, i) == edits[i].operation = edits[1].operation

\* The i-th edit continues the run that the first one begins.
Continues(edits, i) ==
  /\ edits[i].operation = edits[1].operation
  /\ edits[i].one = IF edits[1].operation = "SES_INSERT"
                    THEN edits[1].one
                    ELSE edits[1].one + i - 1

IsRun(edits, n) ==
  /\ \A i \in 2 .. n : Continues(edits, i)
  /\ n < Len(edits) => ~ Continues(edits, n + 1)

\* Mutant: the offset is left where the first edit of the run ends.
CondensedUncorrected(e, n) == [e EXCEPT !.length = n]

\* Mutant: the length of the run is counted from 0.
CondensedShort(e, n) == [e EXCEPT !.length = n - 1]

\* The run as one edit, its offset corrected to where it begins.
Condensed(e, n) ==
  [operation |-> e.operation,
   one |-> IF e.operation = "SES_DELETE" THEN e.one - 1 ELSE e.one,
   two |-> IF e.operation = "SES_DELETE" THEN e.two ELSE e.two - 1,
   length |-> n]

\* Mutant: the last edit is never condensed.
CondenseAllButLast ==
  /\ phase = "condense"
  /\ \E n \in 1 .. Len(chain) - 1 :
       /\ IsRun(chain, n)
       /\ edit_script' = Append(edit_script, Condensed(chain[1], n))
       /\ chain' = SubSeq(chain, n + 1, Len(chain))
  /\ UNCHANGED <<input, search, phase, result>>

CondenseRun ==
  /\ phase = "condense"
  /\ \E n \in 1 .. Len(chain) :
       /\ IsRun(chain, n)
       /\ edit_script' = Append(edit_script, Condensed(chain[1], n))
       /\ chain' = SubSeq(chain, n + 1, Len(chain))
       /\ IF n = Len(chain)
          THEN phase' = "done" /\ result' = Len(edit_script) + 1
          ELSE UNCHANGED <<phase, result>>
  /\ UNCHANGED <<input, search>>

\* copy_edit returns NULL: what was copied is freed.
CopyFails ==
  /\ phase = "condense"
  /\ phase' = "failed"
  /\ Return(-1, <<>>)
  /\ UNCHANGED <<input, search, chain>>

Next ==
  \/ Begin \/ NoMemory
  \/ Extend \/ PoolExhausted
  \/ CondenseRun \/ CopyFails

\* A call runs until it returns, and no allocation has to fail for that.
Spec == Init /\ [][Next]_vars /\ WF_vars(Begin \/ Extend \/ CondenseRun)
-----------------------------------------------------------------------------
RawEdits ==
  {e \in [operation : Operations, one : Nat, two : Nat, length : {1}] :
     IF e.operation = "SES_DELETE" THEN e.one > 0 ELSE e.two > 0}

\* Every variable has its type; the offsets of a raw edit may lie beyond the
\* ends, since the search does not clip a move at the border.
TypeOK ==
  /\ equal \in SUBSET Cells(Start, End)
  /\ phase \in {"start", "search", "condense", "done", "failed"}
  /\ distance \in 0 .. MaxDistance
  /\ diagonal \in Diagonals
  /\ num_edits \in Int
  /\ last_distance \in [Diagonals -> Points]
  /\ script \in [Diagonals -> Seq(RawEdits)]
  /\ chain \in Seq(RawEdits)
  /\ edit_script \in Seq(Edits)
  /\ result \in Int

\* The distance at which diagonal k was last extended: the one being tried for
\* the diagonals already passed, the one before for those still to come.
Level(k) == IF k < diagonal /\ (distance - k) % 2 = 0 THEN distance ELSE distance - 1

\* The diagonals that hold a point while the search runs.
Live == {k \in Diagonals : /\ -Level(k) <= k
                           /\ k <= Level(k)
                           /\ (Level(k) - k) % 2 = 0}

\* The edit as make_edit_script would correct it alone.
Unit(edits) == [i \in DOMAIN edits |-> Condensed(edits[i], 1)]

\* The pool index and the diagonals an iteration touches stay inside the arrays
\* the function allocates: last_distance[center + k +- 1], the pool's chunks.
\* (shortest_edit_script_quadratic_space.c:85-131)
InBounds ==
  phase = "search" =>
    /\ Origin(diagonal) \in Diagonals
    /\ Origin(diagonal) \in Live
    /\ num_edits + 1 >= 0
    /\ (num_edits + 1) \div (MaxDistance + 1) < MaxDiagonals

\* The edits recorded for a diagonal lead from the start to the furthest point
\* on it, through equal elements only, and there is one for every edit of its
\* distance.  The back-pointers never mix the scripts of two diagonals.
ScriptsLead ==
  phase = "search" =>
    \A k \in Live :
      /\ Transforms(equal, Unit(script[k]), Start, last_distance[k])
      /\ Len(script[k]) = Level(k)

\* The greedy choice: no point further down a diagonal can be reached with as
\* many edits.
FurthestReaching ==
  phase = "search" =>
    \A k \in Live, p \in Grid(Start, End) :
      /\ (p.x - StartOne) - (p.y - StartTwo) = k
      /\ EditDistance(equal)[p] <= Level(k)
      => p.x <= last_distance[k].x

\* The chain handed to make_edit_script has as many edits as the edit distance
\* of the two parts, and no script has fewer.
ChainIsShortest ==
  phase = "condense" /\ edit_script = <<>> => Len(chain) = EditDistance(equal)[End]

\* The script returned turns the first part into the second: condensing the
\* chain loses no edit, moves none and bridges no unequal elements.
ScriptTransforms == phase = "done" => Transforms(equal, edit_script, Start, End)

\* The search finds a script before it runs out of distances: -2 is only
\* returned when there is no memory for the arrays.
NeverExhausted == result = -2 => distance = 0

\* A diagonal that is extended again ends strictly further down than it did two
\* edits earlier: the search never spends an edit on ground it already covered.
FrontierAdvances ==
  [][phase = "search" /\ diagonal \in 2 - distance .. distance - 2
       /\ script' # script
     => last_distance'[diagonal].x > last_distance[diagonal].x]_vars

\* Every call returns.
Termination == <>(phase \in {"done", "failed"})

\* The search together with make_edit_script keeps the promise of the service:
\* the condensed script transforms the parts, is as short as any, and has no two
\* edits that could have been one.
Service == INSTANCE EditScriptService WITH
  status <- IF phase = "done" THEN "answered"
            ELSE IF phase = "failed" THEN "failed" ELSE "pending",
  answer <- IF phase = "done" THEN edit_script ELSE <<>>

ImplementsService == Service!Spec
=============================================================================
