--------------------------- MODULE HybridEditScript ---------------------------
(***************************************************************************)
(* shortest_edit_script::compute: the divide and conquer search of         *)
(* shortest_edit_script_hybrid.c over the middle snakes of                 *)
(* shortest_edit_script_linear_space.c, merge_sequential_edits, and the    *)
(* pairing of a deletion and an insertion into a change.  With a threshold *)
(* of 0 it is shortest_edit_script_linear_space.  The quadratic search,    *)
(* which solves the small parts, is used by what it promises: any script   *)
(* of EditScriptService, or none when there is no memory.                  *)
(*                                                                         *)
(* The recursion is a stack of parts.  A part that is half of another must *)
(* produce an edit, since the caller links the two lists through their end *)
(* points unchecked.  One that produces none ends in "crashed" at once; in *)
(* the code it does when the second half has returned as well.             *)
(***************************************************************************)
EXTENDS EditLists

LOCAL INSTANCE SequencesExt

CONSTANTS
  SizeOne, SizeTwo,         \* size_one, size_two
  Thresholds,               \* the thresholds shortest_edit_script is given
  EditDistance(_, _),       \* the reference: for a relation and a corner, to every point
  ShortestScripts(_, _)     \* the scripts the quadratic search may return

Start == Point(0, 0)
End == Point(SizeOne, SizeTwo)

ASSUME SizesAssumption == SizeOne \in Nat /\ SizeTwo \in Nat

ASSUME ThresholdsAssumption == Thresholds \subseteq Nat

ASSUME EditDistanceAssumption ==
  \A e \in SUBSET Cells(Start, End) : \A from \in Grid(Start, End) :
    IsEditDistance(e, EditDistance(e, from), from, End)

\* The elements these edits delete and insert.
Total(es) ==
  LET total[n \in 0 .. Len(es)] == IF n = 0 THEN 0 ELSE total[n - 1] + es[n].length
  IN  total[Len(es)]

\* What the quadratic search promises of the scripts it returns.
ASSUME ShortestScriptsAssumption ==
  \A e \in SUBSET Cells(Start, End) : \A from \in Grid(Start, End) :
    LET Scripts == ShortestScripts(e, from)
        distance_to == EditDistance(e, from)
    IN  \A to \in Grid(from, End) : \A es \in Scripts[to] :
          /\ es \in Seq(Edits)
          /\ Transforms(e, es, from, to)
          /\ Total(es) = distance_to[to]

VARIABLES
  equal,          \* the cells for which compare() returns 0; never changes
  threshold,      \* the member of the same name; never changes
  phase,          \* where the functions are
  parts,          \* the parts still to be solved, the next one first
  distance,       \* compute_middle_snake: the number of edits being tried
  diagonal,       \* the diagonal being extended
  forward_paths,  \* the furthest points from the start of the part
  reverse_paths,  \* the furthest points from its end
  points,         \* the ends of the middle snake
  edit_distance,  \* the edit distance it was found at
  script,         \* the edits, in the order they are linked
  merged,         \* the edits merge_sequential_edits has passed
  edits,          \* the ses::edit_list
  failed          \* an allocation of the quadratic search failed

input == <<equal, threshold>>
paths == <<distance, diagonal, forward_paths, reverse_paths>>
snake == <<points, edit_distance>>
lists == <<merged, edits>>
vars == <<input, phase, parts, paths, snake, script, lists, failed>>
-----------------------------------------------------------------------------
Lengths == 0 .. (IF SizeOne < SizeTwo THEN SizeOne ELSE SizeTwo)

\* The end of the equal pairs from p on, before the corner to.
SlideDown(p, to) ==
  LET Same(q) == q.x < to.x /\ q.y < to.y /\ <<q.x, q.y>> \in equal
  IN  Along(p, CHOOSE n \in Lengths :
                 /\ \A i \in 0 .. n - 1 : Same(Along(p, i))
                 /\ ~ Same(Along(p, n)))

\* The beginning of the equal pairs that end at p, after the corner from.
SlideUp(p, from) ==
  LET Same(q) == q.x > from.x /\ q.y > from.y /\ <<q.x - 1, q.y - 1>> \in equal
  IN  Along(p, -(CHOOSE n \in Lengths :
                   /\ \A i \in 0 .. n - 1 : Same(Along(p, -i))
                   /\ ~ Same(Along(p, -n))))

\* ceil(n / 2.0)
HalfUp(n) == (n + 1) \div 2

\* A part of the two sequences, who solves it, and whether it is a half of a
\* part that was split.
Part(from, to, by, half) == [from |-> from, to |-> to, by |-> by, half |-> half]

From == parts[1].from
To == parts[1].to
LengthOne == To.x - From.x
LengthTwo == To.y - From.y

Init ==
  /\ equal \in SUBSET Cells(Start, End)
  /\ threshold \in Thresholds
  /\ phase = "start"
  /\ parts = <<>>
  /\ distance = 0 /\ diagonal = 0
  /\ forward_paths = <<>> /\ reverse_paths = <<>>
  /\ points = <<Start, End>> /\ edit_distance = 0
  /\ script = <<>> /\ merged = <<>> /\ edits = <<>>
  /\ failed = FALSE

\* shortest_edit_script_hybrid: what both sequences begin with is skipped, and
\* the rest is searched at once when it is small.
Begin ==
  /\ phase = "start"
  /\ phase' = "solve"
  /\ LET rest == SlideDown(Start, End)
         max_distance == HalfUp(SizeOne - rest.x + SizeTwo - rest.y) * 2
         by == IF max_distance < threshold THEN "quadratic" ELSE "halves"
     IN  parts' = <<Part(rest, End, by, FALSE)>>
  /\ UNCHANGED <<input, paths, snake, script, lists, failed>>

\* The part at hand yields these edits, which are linked to those before it.
Yield(es) ==
  /\ script' = script \o es
  /\ parts' = Tail(parts)
  /\ phase' = IF parts[1].half /\ es = <<>> THEN "crashed"
              ELSE IF Len(parts) = 1 THEN "merge" ELSE "solve"

\* shortest_edit_script_inner returns.
SolveAtOnce ==
  /\ phase = "solve" /\ parts[1].by = "quadratic"
  /\ \E es \in ShortestScripts(equal, From)[To] : Yield(es)
  /\ UNCHANGED <<input, paths, snake, lists, failed>>

\* It returns -1 or -2 and no edits, and nobody looks at what it returns.
SolveFails ==
  /\ phase = "solve" /\ parts[1].by = "quadratic"
  /\ failed' = TRUE
  /\ Yield(<<>>)
  /\ UNCHANGED <<input, paths, snake, lists>>

\* A part with one side empty is one edit, a part with both sides empty none.
OneSided ==
  /\ phase = "solve" /\ parts[1].by = "halves"
  /\ LengthOne = 0 \/ LengthTwo = 0
  /\ LET Rest(operation, n) ==
           IF n = 0 THEN <<>>
           ELSE <<[operation |-> operation, one |-> From.x, two |-> From.y, length |-> n]>>
     IN  Yield(Rest("SES_DELETE", LengthOne) \o Rest("SES_INSERT", LengthTwo))
  /\ UNCHANGED <<input, paths, snake, lists, failed>>
-----------------------------------------------------------------------------
Delta == LengthOne - LengthTwo
IsEven == Delta % 2 = 0
MaxDistance == HalfUp(LengthOne + LengthTwo) + 1

\* forward_paths and reverse_paths are indexed by diagonal + Center.
Center == (LengthOne + LengthTwo) * 2 + 1
Diagonals == -Center .. Center

BeginMiddleSnake ==
  /\ phase = "solve" /\ parts[1].by = "halves"
  /\ LengthOne > 0 /\ LengthTwo > 0
  /\ phase' = "forward"
  /\ distance' = 0 /\ diagonal' = 0
  /\ forward_paths' = [k \in Diagonals |-> From]
  /\ reverse_paths' = [k \in Diagonals |-> To]
  /\ UNCHANGED <<input, parts, snake, script, lists, failed>>

\* Mutant: the searches have to stop at the same point.
MeetExactly(p, q) == p = q

\* The two searches are on one diagonal and have met or passed one another.
Meet(p, q) == p.x - p.y = q.x - q.y /\ p.x >= q.x

\* compute_next_forward_path_snake: an edit first, then the equal pairs.
StartSnake ==
  IF \/ diagonal = -distance
     \/ /\ diagonal # distance
        /\ forward_paths[diagonal - 1].x < forward_paths[diagonal + 1].x
  THEN LET p == forward_paths[diagonal + 1]
       IN  Point(p.x, IF distance # 0 THEN p.y + 1 ELSE p.y)
  ELSE LET p == forward_paths[diagonal - 1] IN Point(p.x + 1, p.y)

\* compute_next_reverse_path_snake: the equal pairs first, then an edit.
EndSnake ==
  LET k == diagonal + Delta
      left == SlideUp(reverse_paths[k - 1], From)
      right == SlideUp(reverse_paths[k + 1], From)
  IN  IF distance = 0 THEN left
      ELSE IF diagonal = distance \/ (diagonal # -distance /\ right.x > left.x)
           THEN Point(left.x, left.y - 1)
           ELSE Point(right.x - 1, right.y)

\* Mutant: the distance is never counted up.
NextDiagonalAgain(next, d) ==
  IF diagonal - 2 >= -distance
  THEN diagonal' = diagonal - 2 /\ UNCHANGED <<phase, distance>>
  ELSE diagonal' = distance /\ distance' = distance /\ phase' = next

\* The loop over the diagonals, which ends in the phase next.
NextDiagonal(next, d) ==
  IF diagonal - 2 >= -distance
  THEN diagonal' = diagonal - 2 /\ UNCHANGED <<phase, distance>>
  ELSE diagonal' = d /\ distance' = d /\ phase' = next

Found(p, q, d) ==
  /\ phase' = "snake"
  /\ points' = <<p, q>>
  /\ edit_distance' = d
  /\ UNCHANGED <<distance, diagonal>>

ExtendForward ==
  /\ phase = "forward"
  /\ LET end == SlideDown(StartSnake, To)
         met == /\ ~ IsEven
                /\ diagonal \in Delta - (distance - 1) .. Delta + (distance - 1)
                /\ Meet(end, reverse_paths[diagonal])
     IN  /\ forward_paths' = [forward_paths EXCEPT ![diagonal] = end]
         /\ \/ met /\ Found(StartSnake, end, 2 * distance - 1)
            \/ ~ met /\ NextDiagonal("reverse", distance) /\ UNCHANGED snake
  /\ UNCHANGED <<input, parts, reverse_paths, script, lists, failed>>

\* exit(-2) follows when no distance is left.
ExtendReverse ==
  /\ phase = "reverse"
  /\ LET k == diagonal + Delta
         met == /\ IsEven
                /\ k \in -distance .. distance
                /\ Meet(forward_paths[k], EndSnake)
     IN  /\ reverse_paths' = [reverse_paths EXCEPT ![k] = EndSnake]
         /\ \/ met /\ Found(SlideUp(EndSnake, From), EndSnake, 2 * distance)
            \/ /\ ~ met
               /\ NextDiagonal(IF distance < MaxDistance THEN "forward" ELSE "exited",
                               distance + 1)
               /\ UNCHANGED snake
  /\ UNCHANGED <<input, parts, forward_paths, script, lists, failed>>
-----------------------------------------------------------------------------
\* Mutant: a part with a single edit is split as well.
SplitAny ==
  /\ phase = "snake" /\ edit_distance > 0
  /\ LET by == IF edit_distance < threshold THEN "quadratic" ELSE "halves"
     IN  parts' = <<Part(From, points[1], by, TRUE), Part(points[2], To, by, TRUE)>>
                  \o Tail(parts)
  /\ phase' = "solve"
  /\ UNCHANGED <<input, paths, snake, script, lists, failed>>

\* More than one edit: one half before the snake and one after it.
Split ==
  /\ phase = "snake" /\ edit_distance > 1
  /\ LET by == IF edit_distance < threshold THEN "quadratic" ELSE "halves"
     IN  parts' = <<Part(From, points[1], by, TRUE), Part(points[2], To, by, TRUE)>>
                  \o Tail(parts)
  /\ phase' = "solve"
  /\ UNCHANGED <<input, paths, snake, script, lists, failed>>

\* Mutant: the edit is placed on the snake it leads to.
SingleEditOnSnake ==
  [operation |-> IF LengthTwo < LengthOne THEN "SES_DELETE" ELSE "SES_INSERT",
   one |-> points[1].x, two |-> points[1].y, length |-> 1]

\* One edit: it is next to the snake, before it when the elements there differ.
SingleEdit ==
  LET p == points[1]
      q == points[2]
      Edit(operation, at) ==
        [operation |-> operation, one |-> at.x, two |-> at.y, length |-> 1]
  IN  IF LengthTwo < LengthOne
      THEN IF p.x >= To.x \/ (p.x > From.x /\ p.y >= From.y /\ <<p.x - 1, p.y>> \notin equal)
           THEN Edit("SES_DELETE", Left(p))
           ELSE Edit("SES_DELETE", Point(q.x + 1, q.y))
      ELSE IF p.y >= To.y \/ (p.x >= From.x /\ p.y > From.y /\ <<p.x, p.y - 1>> \notin equal)
           THEN Edit("SES_INSERT", Above(p))
           ELSE Edit("SES_INSERT", Point(q.x, q.y + 1))

LeaveSingle ==
  /\ phase = "snake" /\ edit_distance <= 1
  /\ Yield(<<SingleEdit>>)
  /\ UNCHANGED <<input, paths, snake, lists, failed>>
-----------------------------------------------------------------------------
\* Mutant: the length the edit has grown to is not counted.
SequentialToFirst(es, n) ==
  /\ es[n + 1].operation = es[1].operation
  /\ es[n + 1].one = IF es[1].operation = "SES_INSERT" THEN es[1].one
                     ELSE es[1].one + es[1].length

\* The next edit goes on where the first n of the list end.
Sequential(es, n) ==
  /\ es[n + 1].operation = es[1].operation
  /\ es[n + 1].one = IF es[1].operation = "SES_INSERT" THEN es[1].one
                     ELSE es[1].one + Total(SubSeq(es, 1, n))

\* merge_sequential_edits: one edit takes in those that continue it.
Merge ==
  /\ phase = "merge" /\ script # <<>>
  /\ \E n \in 1 .. Len(script) :
       /\ \A i \in 1 .. n - 1 : Sequential(script, i)
       /\ n < Len(script) => ~ Sequential(script, n)
       /\ merged' = Append(merged, [script[1] EXCEPT !.length = Total(SubSeq(script, 1, n))])
       /\ script' = SubSeq(script, n + 1, Len(script))
  /\ UNCHANGED <<input, phase, parts, paths, snake, edits, failed>>

Merged ==
  /\ phase = "merge" /\ script = <<>>
  /\ phase' = "collect"
  /\ UNCHANGED <<input, parts, paths, snake, script, lists, failed>>

\* Mutant: the insertion is looked for at the first deleted element.
IsChangeAtStart(es) ==
  /\ es[1].operation = "SES_DELETE"
  /\ Len(es) > 1
  /\ es[2].operation = "SES_INSERT"
  /\ es[1].one = es[2].one

\* is_change, of the first edit of a list.
IsChange(es) ==
  /\ es[1].operation = "SES_DELETE"
  /\ Len(es) > 1
  /\ es[2].operation = "SES_INSERT"
  /\ es[1].one + es[1].length = es[2].one

\* compute: a deletion and the insertion after it are one change.
Collect ==
  /\ phase = "collect" /\ merged # <<>>
  /\ LET e == merged[1]
     IN  IF IsChange(merged)
         THEN /\ edits' = Append(edits, SesEdit("CHANGE", e.one, e.length,
                                                merged[2].two, merged[2].length))
              /\ merged' = Tail(Tail(merged))
         ELSE /\ edits' = Append(edits,
                            IF e.operation = "SES_DELETE"
                            THEN SesEdit("DELETE", e.one, e.length, e.two, 0)
                            ELSE SesEdit("INSERT", e.one, 0, e.two, e.length))
              /\ merged' = Tail(merged)
  /\ UNCHANGED <<input, phase, parts, paths, snake, script, failed>>

Return ==
  /\ phase = "collect" /\ merged = <<>>
  /\ phase' = "done"
  /\ UNCHANGED <<input, parts, paths, snake, script, lists, failed>>

Next ==
  \/ Begin \/ SolveAtOnce \/ SolveFails \/ OneSided
  \/ BeginMiddleSnake \/ ExtendForward \/ ExtendReverse \/ Split \/ LeaveSingle
  \/ Merge \/ Merged \/ Collect \/ Return

\* A call runs until it returns, and no allocation has to fail for that.
Spec ==
  /\ Init /\ [][Next]_vars
  /\ WF_vars(\/ Begin \/ SolveAtOnce \/ OneSided
             \/ BeginMiddleSnake \/ ExtendForward \/ ExtendReverse \/ Split \/ LeaveSingle
             \/ Merge \/ Merged \/ Collect \/ Return)
-----------------------------------------------------------------------------
\* The edits the parts will take, counted from the last one.
ToSpend(e, ps) ==
  LET sum[n \in 0 .. Len(ps)] ==
        IF n = 0 THEN 0
        ELSE LET p == ps[Len(ps) + 1 - n] IN sum[n - 1] + EditDistance(e, p.from)[p.to]
  IN  sum[Len(ps)]

\* The snake lies on a shortest script of the part, in its middle: what is left
\* to edit before and after it adds up to the distance the searches met at, and
\* the halves differ by one edit at most.
SnakeInTheMiddle ==
  phase = "snake" =>
    LET before == EditDistance(equal, From)[points[1]]
        after == EditDistance(equal, points[2])[To]
    IN  /\ edit_distance = EditDistance(equal, From)[To]
        /\ Common(equal, points[1], points[2])
        /\ before + after = edit_distance
        /\ before - after \in {0, 1}

\* Nothing is lost between the halves: the edits found so far lead from the start
\* to the next part, only equal pairs lie between one part and the next, and with
\* the parts still to be solved no edit more than necessary will be spent.
PartsTile ==
  phase = "solve" /\ ~ failed =>
    /\ Transforms(equal, script, Start, From)
    /\ \A i \in 1 .. Len(parts) - 1 : Common(equal, parts[i].to, parts[i + 1].from)
    /\ parts[Len(parts)].to = End
    /\ Total(script) + ToSpend(equal, parts) = EditDistance(equal, Start)[End]

\* The link of two halves is never followed through a null pointer, and the
\* middle snake is never missed, unless memory was short.
NeverCrashes == phase \in {"crashed", "exited"} => failed

\* No deletion is left next to the insertion that replaces it: the callers look
\* for replaced elements in changes alone.
ChangesPaired ==
  phase = "done" =>
    \A i \in 1 .. Len(edits) - 1 :
      ~ /\ edits[i].operation = "DELETE"
        /\ edits[i + 1].operation = "INSERT"
        /\ edits[i].original_offset + edits[i].original_length = edits[i + 1].original_offset

\* The number of edits or an error code: when memory was short and the call
\* returns, it says so.  What compute sees is the length of the merged list.
\* (shortest_edit_script.h:43)
ErrorReported == phase = "done" => ~ failed

\* Every call returns, or ends the program.
Termination == <>(phase \in {"done", "crashed", "exited"})

\* A ses::edit as the edits of the C code it stands for.
Plain(e) ==
  LET Edit(operation, one, two, n) ==
        IF n = 0 THEN <<>>
        ELSE <<[operation |-> operation, one |-> one, two |-> two, length |-> n]>>
  IN  Edit("SES_DELETE", e.original_offset, e.modified_offset, e.original_length)
      \o Edit("SES_INSERT", e.original_offset + e.original_length,
              e.modified_offset, e.modified_length)

\* The edits returned, each change as the two edits it was made of.
Replayed == FlattenSeq([i \in DOMAIN edits |-> Plain(edits[i])])

Distances(e) == EditDistance(e, Start)

\* Divide and conquer keeps the promise of the quadratic search it is built on:
\* the list compute returns, with every change replayed as the two edits it was
\* made of, transforms the sequences, is as short as any and has no two edits
\* that could have been one.
Service == INSTANCE EditScriptService WITH
  StartOne <- 0, EndOne <- SizeOne, StartTwo <- 0, EndTwo <- SizeTwo,
  EditDistance <- Distances,
  status <- IF failed \/ phase \in {"crashed", "exited"} THEN "failed"
            ELSE IF phase = "done" THEN "answered" ELSE "pending",
  answer <- IF phase = "done" /\ ~ failed THEN Replayed ELSE <<>>

ImplementsService == Service!Spec
=============================================================================
