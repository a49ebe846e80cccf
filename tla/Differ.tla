-------------------------------- MODULE Differ --------------------------------
(***************************************************************************)
(* deltor and the differs: a recursion over the constructs of the two      *)
(* versions that writes the delta.  The calls that have not returned are a *)
(* stack of frames; a frame holds what its function needs when the one     *)
(* above it returns.  What is similar enough to be matched, converted or   *)
(* nested, and which of the shortest edit scripts is taken, is left open.  *)
(***************************************************************************)
EXTENDS ChangeStream, EditCorrections, Rules, Reader

LOCAL INSTANCE SequencesExt

CONSTANT Inputs  \* pairs of versions

VARIABLES
  out,      \* the output_stream
  calls,    \* the calls of differs, the innermost one last
  done,     \* the delta is complete
  readers   \* the readers of the two versions, who read along

vars == <<out, calls, done, readers>>
-----------------------------------------------------------------------------
(***************************************************************************)
(* The frames.                                                             *)
(***************************************************************************)

\* differ, or comment_differ: next is the number of the edit to be worked off, 0 as
\* long as there are none.
DifferCall(kind, original, modified) ==
  [kind |-> kind, original |-> original, modified |-> modified, edits |-> <<>>, next |-> 0,
   last_original |-> 0, last_modified |-> 0]

ManyCall(changes) == [kind |-> "many", changes |-> changes]

UnmatchedCall(original, modified) ==
  [kind |-> "unmatched", original |-> original, modified |-> modified,
   original_view |-> original, modified_view |-> modified]

PairCall(kind, original, modified) ==
  [kind |-> kind, original |-> original, modified |-> modified]

NestCall(operation, outer) == [kind |-> "nest", operation |-> operation, outer |-> outer]

Top == Last(calls)

Return == Front(calls)

\* What a step writes is read.
Read ==
  readers' = [side \in Sides |->
                ReadOn(readers[side], SubSeq(out'.unit, Len(out.unit) + 1, Len(out'.unit)))]

GoOn == Read /\ UNCHANGED done

Running(kinds) == ~ done /\ out.status = "running" /\ calls # <<>> /\ Top.kind \in kinds

Original == out.nodes["DELETE"]
Modified == out.nodes["INSERT"]

ByPair(original, modified) == [side \in Sides |-> IF side = "DELETE" THEN original ELSE modified]

Cursors(s) == s.last_output

\* Behind the n-th construct of a list.
EndOf(view, n) == view[n].end_position + 1
-----------------------------------------------------------------------------
(***************************************************************************)
(* differ::output: compute, correct, mark moves.                           *)
(***************************************************************************)
EqualPairs(f) ==
  {p \in Cells(Point(0, 0), Point(Len(f.original), Len(f.modified))) :
     EqualConstructs(Original, f.original[p[1] + 1], Modified, f.modified[p[2] + 1])}

\* edit2measure, and the sizes that correct asks for: a pair across one common
\* construct is compared only if it is three times as large.
MayBreak(f, es, k, n) ==
  LET s == Subject(es[k], es[k + 1])
      o == f.original[s.original_offset + n.x + 1]
      m == f.modified[s.modified_offset + n.y + 1]
      c == f.original[s.original_offset + Between(es[k]).x + 1]
      size == [o |-> Len(Terms(Original, o)), m |-> Len(Terms(Modified, m)), c |-> Len(Terms(Original, c))]
  IN  /\ Root(Original, o).name = Root(Modified, m).name
           \/ IsTagConvertible(Root(Original, o), Root(Modified, m))
      /\ size.o < 3 * size.m /\ size.m < 3 * size.o
      /\ size.o >= 3 * size.c /\ size.m >= 3 * size.c

\* The list, or what correct makes of it when it breaks it once.
Corrected(f, es) ==
  {es} \cup UNION {{Broken(EqualPairs(f), es, k, n) :
                      n \in {m \in Across(es[k], es[k + 1]) : MayBreak(f, es, k, m)}} :
                   k \in {l \in 1 .. Len(es) - 1 : IsCandidate(es[l], es[l + 1])}}

\* The constructs of a side that the edits delete or insert, but for texts.
Edited(nodes, view, es, side) ==
  LET of(e) == IF e.operation = "COMMON" THEN <<>>
               ELSE IF side = "DELETE"
               THEN SubSeq(view, e.original_offset + 1, e.original_offset + e.original_length)
               ELSE SubSeq(view, e.modified_offset + 1, e.modified_offset + e.modified_length)
  IN  SelectSeq(FlattenSeq([n \in DOMAIN es |-> of(es[n])]), LAMBDA c : ~ IsText(Root(nodes, c)))

MarkedAs(nodes, c, id) ==
  [nodes EXCEPT ![c.start_position + 1].move = id, ![c.end_position + 1].move = id]

\* Mutant: the number is not counted up.
MarkMoveAgain(s, o, m) ==
  IF Root(s.nodes["INSERT"], m).move # 0 \/ ~ EqualConstructs(s.nodes["DELETE"], o, s.nodes["INSERT"], m) THEN s
  ELSE [s EXCEPT !.move_id = 1,
                 !.nodes = [DELETE |-> MarkedAs(@["DELETE"], o, 1),
                            INSERT |-> MarkedAs(@["INSERT"], m, 1)]]

\* One pair of mark_moves.
MarkMove(s, o, m) ==
  IF Root(s.nodes["INSERT"], m).move # 0 \/ ~ EqualConstructs(s.nodes["DELETE"], o, s.nodes["INSERT"], m) THEN s
  ELSE [s EXCEPT !.move_id = @ + 1,
                 !.nodes = [DELETE |-> MarkedAs(@["DELETE"], o, s.move_id + 1),
                            INSERT |-> MarkedAs(@["INSERT"], m, s.move_id + 1)]]

\* mark_moves: all pairs of a deleted and an equal inserted construct.  The inserted
\* ones are looked up in a hash table, which has them in an order of its own.
MarkMoves(s, f, es, inserted) ==
  FoldLeft(LAMBDA t, o : FoldLeft(LAMBDA u, m : MarkMove(u, o, m), t, inserted),
           s, Edited(s.nodes["DELETE"], f.original, es, "DELETE"))

LookupOrders(f, es) == SetToSeqs(ToSet(Edited(Modified, f.modified, es, "INSERT")))

Compute ==
  /\ Running({"differ", "comment"}) /\ Top.next = 0
  /\ \E list \in EditListsOf(EqualPairs(Top), Point(0, 0), Point(Len(Top.original), Len(Top.modified))) :
     \E edits \in IF Top.kind = "differ" THEN Corrected(Top, list) ELSE {list} :
       /\ calls' = Append(Return, [Top EXCEPT !.edits = edits, !.next = 1])
       /\ \E inserted \in LookupOrders(Top, edits) :
            out' = IF Top.kind = "differ" THEN MarkMoves(out, Top, edits, inserted) ELSE out
  /\ GoOn
-----------------------------------------------------------------------------
(***************************************************************************)
(* differ::output and comment_differ::output: the edits.                   *)
(***************************************************************************)
Working(operations) ==
  /\ Running({"differ", "comment"})
  /\ Top.next \in DOMAIN Top.edits
  /\ Top.edits[Top.next].operation \in operations

Edit == Top.edits[Top.next]

\* Mutant: what is common before an insertion is not written first.
IsCommonBeforeDeletions(f, e) == e.operation \in {"DELETE", "CHANGE"} /\ f.last_original < e.original_offset

\* What is common before the edit has not been written yet.
IsCommonBefore(f, e) ==
  CASE e.operation = "COMMON" -> FALSE
    [] e.operation = "INSERT" /\ f.kind = "comment" -> e.original_offset # 0 /\ f.last_original <= e.original_offset
    [] e.operation = "INSERT" /\ f.kind = "differ" -> f.last_modified < e.modified_offset
    [] OTHER -> f.last_original < e.original_offset

CommonBefore(s, f, e) ==
  IF IsCommonBefore(f, e)
  THEN OutputCommon(s, ByPair(EndOf(f.original, e.original_offset), EndOf(f.modified, e.modified_offset)))
  ELSE s

\* The end of an edit on each side, 0 where it has no constructs.
EndsOf(f, e) ==
  ByPair(IF e.original_length = 0 THEN 0 ELSE EndOf(f.original, e.original_offset + e.original_length),
         IF e.modified_length = 0 THEN 0 ELSE EndOf(f.modified, e.modified_offset + e.modified_length))

\* The differ after the edit; a change of a comment is not taken note of, nor is a
\* pair that the corrector has made.
Updated(f, e) ==
  IF e.operation = "COMMON" \/ (f.kind = "comment" /\ e.operation = "CHANGE")
  THEN [f EXCEPT !.next = @ + 1]
  ELSE [f EXCEPT !.next = @ + 1,
                 !.last_original = e.original_offset + e.original_length,
                 !.last_modified = e.modified_offset + e.modified_length]

PureEdit ==
  /\ Working({"DELETE", "INSERT"}) \/ (Working({"CHANGE"}) /\ Top.kind = "comment")
  /\ out' = OutputChangeWhitespace(CommonBefore(out, Top, Edit), EndsOf(Top, Edit))
  /\ calls' = Append(Return, Updated(Top, Edit))
  /\ GoOn

\* The pairs of two lists of constructs, by number, that the change_matcher may match,
\* and how.
Verdict(o, m) ==
  CASE Root(Original, o).move # 0 \/ Root(Modified, m).move # 0 -> "NONE"
    [] Root(Original, o).name = Root(Modified, m).name -> "MATCH"
    [] IsTagConvertible(Root(Original, o), Root(Modified, m)) -> "CONVERT"
    [] OTHER -> "NONE"

\* The lists of changes that it may return: what is between two matches is unmatched.
ChangeLists(original, modified) ==
  LET Unmatched(x, y, u, v) ==
        IF x = u /\ y = v THEN <<>>
        ELSE <<[operation |-> "CHANGE", original |-> SubSeq(original, x + 1, u),
                modified |-> SubSeq(modified, y + 1, v)]>>
      L[x \in 0 .. Len(original), y \in 0 .. Len(modified)] ==
        {Unmatched(0, 0, x, y)} \cup
        UNION {{l \o <<[operation |-> Verdict(original[u], modified[v]),
                        original |-> <<original[u]>>, modified |-> <<modified[v]>>]>>
                  \o Unmatched(u, v, x, y) : l \in L[u - 1, v - 1]} :
               <<u, v>> \in {p \in (1 .. x) \X (1 .. y) : Verdict(original[p[1]], modified[p[2]]) # "NONE"}}
  IN  L[Len(original), Len(modified)]

ChangeEdit ==
  /\ Working({"CHANGE"}) /\ Top.kind = "differ"
  /\ out' = CommonBefore(out, Top, Edit)
  /\ \E changes \in ChangeLists(SubSeq(Top.original, Edit.original_offset + 1, Edit.original_offset + Edit.original_length),
                                SubSeq(Top.modified, Edit.modified_offset + 1, Edit.modified_offset + Edit.modified_length)) :
       calls' = Return \o <<Updated(Top, Edit), ManyCall(changes)>>
  /\ GoOn
-----------------------------------------------------------------------------
(***************************************************************************)
(* match_differ::output                                                    *)
(***************************************************************************)
\* Mutant: the blanks before the pair are left for later.
BeginMatchBeforeBlanks(s, o) ==
  [Output(s, Plain(<<DiffStart("COMMON"), Root(Original, o)>>, "COMMON"))
     EXCEPT !.last_output = [side \in Sides |-> @[side] + 1]]

BeginMatch(s, o) ==
  [Output(OutputAll(s, "COMMON"), Plain(<<DiffStart("COMMON"), Root(Original, o)>>, "COMMON"))
     EXCEPT !.last_output = [side \in Sides |-> @[side] + 1]]

MatchCalls(o, m) ==
  <<PairCall("match", o, m),
    DifferCall(IF Root(Original, o).name = "comment" THEN "comment" ELSE "differ",
               Children(Original, o), Children(Modified, m))>>

EndMatch ==
  /\ Running({"match"})
  /\ out' = Output(OutputCommon(out, ByPair(Top.original.end_position + 1, Top.modified.end_position + 1)),
                   Plain(<<DiffEnd("COMMON")>>, "COMMON"))
  /\ calls' = Return
  /\ GoOn

\* A pair that the corrector has made.
CommonEdit ==
  /\ Working({"COMMON"})
  /\ LET o == Top.original[Edit.original_offset + 1]
         m == Top.modified[Edit.modified_offset + 1]
     IN  IF IsText(Root(Original, o))
         THEN /\ out' = OutputCommon(out, EndsOf(Top, Edit))
              /\ calls' = Append(Return, Updated(Top, Edit))
         ELSE /\ out' = BeginMatch(out, o)
              /\ calls' = Return \o <<Updated(Top, Edit)>> \o MatchCalls(o, m)
  /\ GoOn

\* The end of differ::output and comment_differ::output.
EndDiffer ==
  /\ Running({"differ", "comment"}) /\ Top.next = Len(Top.edits) + 1
  /\ out' = IF Top.last_original < Len(Top.original)
            THEN OutputCommon(out, ByPair(EndOf(Top.original, Len(Top.original)), EndOf(Top.modified, Len(Top.modified))))
            ELSE out
  /\ calls' = Return
  /\ GoOn
-----------------------------------------------------------------------------
(***************************************************************************)
(* many_differ::output                                                     *)
(***************************************************************************)
Changing(operations) == Running({"many"}) /\ Top.changes[1].operation \in operations

\* The many_differ without its first change; it returns with its last.
NextChanges == IF Len(Top.changes) = 1 THEN Return ELSE Append(Return, ManyCall(Tail(Top.changes)))

MatchChange ==
  /\ Changing({"MATCH"})
  /\ LET o == Top.changes[1].original[1]
         m == Top.changes[1].modified[1]
     IN  IF IsText(Root(Original, o))
         THEN /\ out' = OutputChangeWhitespace(out, ByPair(o.end_position + 1, m.end_position + 1))
              /\ calls' = NextChanges
         ELSE /\ out' = BeginMatch(out, o)
              /\ calls' = NextChanges \o MatchCalls(o, m)
  /\ GoOn

Unmatch ==
  /\ Changing({"CHANGE"})
  /\ calls' = Append(NextChanges, UnmatchedCall(Top.changes[1].original, Top.changes[1].modified))
  /\ UNCHANGED out
  /\ GoOn
-----------------------------------------------------------------------------
(***************************************************************************)
(* convert_differ::output                                                  *)
(***************************************************************************)

\* How many nodes of a construct are its tags: two of an if_stmt, or more if
\* anything is before its if.
CollectStart(nodes, c) ==
  LET terms == Terms(nodes, c)
      ifs == {n \in DOMAIN terms : At(nodes, terms[n]).name = "if"}
  IN  IF Root(nodes, c).name = "if_stmt" THEN CHOOSE n \in ifs : \A k \in ifs : n <= k ELSE 1

\* And with the keyword, if it is not the same one: of the modified construct only
\* if the original one has one too.
WithKeywords(starts, original, modified) ==
  LET is_both == IsText(original) /\ IsText(modified)
      is_same == is_both /\ Same(original, modified)
  IN  ByPair(starts["DELETE"] + (IF IsText(original) /\ ~ is_same THEN 1 ELSE 0),
             starts["INSERT"] + (IF is_both /\ ~ is_same THEN 1 ELSE 0))

Collected(o, m) ==
  LET one == CollectStart(Original, o)
      two == CollectStart(Modified, m)
  IN  WithKeywords(ByPair(one, two), At(Original, Terms(Original, o)[one + 1]),
                   At(Modified, Terms(Modified, m)[two + 1]))

\* The first n terms of a construct; the cursor goes on by as many nodes.
OutputTerms(s, c, n, operation) ==
  LET terms == Terms(s.nodes[operation], c)
      t == Output(s, Forced(DiffStart(operation), operation)
                       \o Plain([k \in 1 .. n |-> At(s.nodes[operation], terms[k])], operation))
  IN  [t EXCEPT !.last_output[operation] = @ + n]

ConvertChange ==
  /\ Changing({"CONVERT"})
  /\ LET o == Top.changes[1].original[1]
         m == Top.changes[1].modified[1]
         n == Collected(o, m)
         Remaining(nodes, c, k) == Descendents(nodes, Terms(nodes, c)[k + 1], c.end_position)
     IN  /\ out' = OutputTerms(OutputTerms(OutputAll(out, "COMMON"), o, n["DELETE"], "DELETE"),
                               m, n["INSERT"], "INSERT")
         /\ calls' = NextChanges \o
              <<PairCall("convert", o, m),
                DifferCall("differ", Remaining(Original, o, n["DELETE"]), Remaining(Modified, m, n["INSERT"]))>>
  /\ GoOn

\* Mutant: what is left of the construct is written behind the end of its diff element.
EndSideAhead(s, c, operation) ==
  OutputChange(Output(s, Forced(DiffEnd(operation), operation)), [Cursors(s) EXCEPT ![operation] = c.end_position + 1])

\* What is left of a converted construct, and the end of its diff element.
EndSide(s, c, operation) ==
  LET ends == [Cursors(s) EXCEPT ![operation] = c.end_position + 1]
  IN  Leave(Output(OutputChange(s, ends), Forced(DiffEnd(operation), operation)), operation)

EndConvert ==
  /\ Running({"convert"})
  /\ out' = EndSide(EndSide(OutputAll(out, "COMMON"), Top.modified, "INSERT"), Top.original, "DELETE")
  /\ calls' = Return
  /\ GoOn
-----------------------------------------------------------------------------
(***************************************************************************)
(* many_differ::output_unmatched                                           *)
(***************************************************************************)
IsBoth == Top.original_view # <<>> /\ Top.modified_view # <<>>

\* What check_nestable may find in two views: the outer construct, and the
\* constructs from the first to the last one that nest in it.
Nestings ==
  LET o(x) == Top.original_view[x + 1]
      m(y) == Top.modified_view[y + 1]
      xs == 0 .. Len(Top.original_view) - 1
      ys == 0 .. Len(Top.modified_view) - 1
  IN  {[operation |-> "DELETE", outer |-> o(x), start |-> ByPair(x, y), end |-> ByPair(x + 1, z + 1)] :
         <<x, y, z>> \in {t \in xs \X ys \X ys :
                            /\ t[2] <= t[3]
                            /\ \A y \in {t[2], t[3]} : MayNest(Original, o(t[1]), Modified, m(y))}}
      \cup
      {[operation |-> "INSERT", outer |-> m(y), start |-> ByPair(x, y), end |-> ByPair(z + 1, y + 1)] :
         <<x, z, y>> \in {t \in xs \X xs \X ys :
                            /\ t[1] <= t[2]
                            /\ \A x \in {t[1], t[2]} : MayNest(Modified, m(t[3]), Original, o(x))}}

\* advance_to_child: the tag of a child that comes next, or where there is none the
\* last node of the element.
AdvanceToChild(nodes, i, type, name) ==
  LET Level(j) == Depth(nodes, i, j) - IF At(nodes, j).type = "END" THEN 1 ELSE 0
      tags == {j \in i .. Len(nodes) - 1 : At(nodes, j).type = type /\ At(nodes, j).name = name /\ Level(j) = 0}
      ends == {j \in i .. Len(nodes) - 1 : Level(j) < 0}
      Least(js) == CHOOSE j \in js : \A k \in js : j <= k
  IN  IF tags # {} /\ (ends = {} \/ Least(tags) < Least(ends)) THEN Least(tags) ELSE Least(ends) - 1

\* Where the nodes begin that the inner constructs are compared with, and where they
\* end.
NestBounds(nodes, outer) ==
  LET name == Root(nodes, outer).name
      term == Terms(nodes, outer)[2]
      Child(type, child) == AdvanceToChild(nodes, term, type, child)
      start == CASE name = "block_content" -> outer.start_position + 1
                 [] name = "if" -> Child("START", "block")
                 [] name = "while" -> Child("END", "condition") + 1
                 [] name = "for" -> Child("END", "control") + 1
                 [] name \in ClassTypes -> Child("START", "block") + 1
                 [] OTHER -> term
  IN  [start |-> start,
       end |-> IF name \in ClassTypes THEN AdvanceToChild(nodes, start - 1, "END", "block")
               ELSE outer.end_position]

\* The blanks before what nests, and behind it.
NestBlanks(s, outer, operation) ==
  IF Root(s.nodes[operation], outer).name = "block_content" THEN OutputPrefix(s) ELSE OutputAll(s, operation)

\* nest_differ::output, up to the differ.
BeginNest(s, outer, operation) ==
  LET t == OutputPrefix(s)
      start == NestBounds(s.nodes[operation], outer).start
  IN  NestBlanks(OutputChange(t, [Cursors(t) EXCEPT ![operation] = start]), outer, operation)

NestedIn(outer, operation) ==
  LET bounds == NestBounds(out.nodes[operation], outer)
  IN  Descendents(out.nodes[operation], bounds.start, bounds.end)

\* One round of the loop that finds something: what is before it goes out as
\* changed.
Nest ==
  /\ Running({"unmatched"}) /\ IsBoth
  /\ \E n \in Nestings :
       LET EndBefore(view, i) == IF i = 0 THEN 0 ELSE EndOf(view, i)
           pre == ByPair(EndBefore(Top.original_view, n.start["DELETE"]), EndBefore(Top.modified_view, n.start["INSERT"]))
           Part(view, side) == SubSeq(view, n.start[side] + 1, n.end[side])
           original == IF n.operation = "DELETE" THEN NestedIn(n.outer, "DELETE") ELSE Part(Top.original_view, "DELETE")
           modified == IF n.operation = "INSERT" THEN NestedIn(n.outer, "INSERT") ELSE Part(Top.modified_view, "INSERT")
           rest == [Top EXCEPT !.original_view = SubSeq(@, n.end["DELETE"] + 1, Len(@)),
                               !.modified_view = SubSeq(@, n.end["INSERT"] + 1, Len(@))]
       IN  /\ out' = BeginNest(OutputChange(out, pre), n.outer, n.operation)
           /\ calls' = Return \o <<rest, NestCall(n.operation, n.outer), DifferCall("differ", original, modified)>>
  /\ GoOn

EndNest ==
  /\ Running({"nest"})
  /\ LET s == NestBlanks(out, Top.outer, Top.operation)
     IN  out' = OutputChange(s, [Cursors(s) EXCEPT ![Top.operation] = Top.outer.end_position + 1])
  /\ calls' = Return
  /\ GoOn

\* How many of the first nodes of two constructs stay common: those of two names, and
\* the keyword of two returns or throws.
CommonOffset ==
  LET names == {Root(Original, Top.original_view[1]).name, Root(Modified, Top.modified_view[1]).name}
  IN  IF Len(Top.original_view) # 1 \/ Len(Top.modified_view) # 1 THEN 0
      ELSE IF names = {"name"} THEN 1
      ELSE IF names \in {{"return"}, {"throw"}} THEN 2
      ELSE 0

\* The end, whatever could nest: what is left goes out as changed.  A list that was
\* empty from the start has no end, its cursor stays.
FinishUnmatched ==
  /\ Running({"unmatched"})
  /\ LET Finish(view, side) == IF view = <<>> THEN Cursors(out)[side] ELSE EndOf(view, Len(view))
         finish == ByPair(Finish(Top.original, "DELETE"), Finish(Top.modified, "INSERT"))
         none == Top.original_view = <<>> /\ Top.modified_view = <<>>
         s == IF CommonOffset = 0 THEN out
              ELSE OutputReplaceInnerWhitespace(out, Top.original_view[1].start_position, finish, CommonOffset)
     IN  out' = OutputChange(IF none THEN s ELSE OutputPrefix(s), finish)
  /\ calls' = Return
  /\ GoOn
-----------------------------------------------------------------------------
(***************************************************************************)
(* deltor::create                                                          *)
(***************************************************************************)
Unit(nodes) == Construct(0, Len(nodes) - 1)

Init ==
  /\ out \in {Primed(nodes) : nodes \in Inputs}
  /\ calls = <<DifferCall("differ", Children(Original, Unit(Original)), Children(Modified, Unit(Modified)))>>
  /\ done = FALSE
  /\ readers = [side \in Sides |-> ReaderOf(side)]

EndDelta ==
  /\ ~ done /\ out.status = "running" /\ calls = <<>>
  /\ out' = EndUnit(OutputAll(out, "COMMON"))
  /\ done' = TRUE
  /\ UNCHANGED calls
  /\ Read

DifferStep == Compute \/ PureEdit \/ ChangeEdit \/ CommonEdit \/ EndDiffer
ManyStep == MatchChange \/ ConvertChange \/ Unmatch \/ Nest \/ FinishUnmatched
EndStep == EndMatch \/ EndConvert \/ EndNest \/ EndDelta

Terminated == done /\ UNCHANGED vars

Next == DifferStep \/ ManyStep \/ EndStep \/ Terminated

Spec == Init /\ [][Next]_vars
-----------------------------------------------------------------------------
\* What a version says, and what its reader has read of it.
Version == [side \in Sides |-> LET nodes == out.nodes[side] IN Said(Slice(nodes, 1, Len(nodes) - 1))]

Delivered == [side \in Sides |-> Said(readers[side].read)]

Service == INSTANCE DeltaService WITH version <- Version, read <- Delivered

\* At every step, and for both versions at once, what was written reads back as a
\* beginning of the version, and when the delta is complete as all of it.
\* (deltor.cpp:27-58; reader.hpp:33-88)
Delivers == Service!Spec

\* The walk of what is common never meets two nodes, or two characters, that differ:
\* the program does not end with "should never reach this state", and no walk goes
\* on for ever.  (common_stream.cpp:160-181, 274-277)
NeverFatal == out.status = "running"

\* When the children of a pair are compared, both cursors are behind its start tags:
\* nothing before the pair was left unwritten and nothing of it was written.
\* (match_differ.cpp:50-51)
CursorsMeetConstructs ==
  \A n \in 2 .. Len(calls) :
    (n = Len(calls) /\ calls[n - 1].kind = "match" /\ calls[n].next = 0) =>
      Cursors(out) = ByPair(calls[n - 1].original.start_position + 1, calls[n - 1].modified.start_position + 1)

\* A move number is that of one inserted construct, start and end, and of one deleted
\* construct at most, which is equal to it: a construct that equals several others
\* takes part in several moves, and only its last number stays.
\* (move_detector.cpp:117-152)
MovesAgree ==
  \A id \in 1 .. out.move_id :
    LET marked(side) == {i \in 0 .. Len(out.nodes[side]) - 1 : At(out.nodes[side], i).move = id}
        spans(side) == {c \in {ConstructAt(out.nodes[side], i) :
                                i \in {j \in marked(side) : At(out.nodes[side], j).type = "START"}} :
                          marked(side) = {c.start_position, c.end_position}}
    IN  /\ Cardinality(spans("INSERT")) = 1
        /\ marked("DELETE") # {} => Cardinality(spans("DELETE")) = 1
        /\ \A o \in spans("DELETE"), m \in spans("INSERT") : EqualConstructs(Original, o, Modified, m)

\* A complete delta reads back as both versions.  (test_read_unit.cpp:99-119)
ReadsBack == done => Delivered = Version

\* When the delta is complete nothing but the unit is open: every element that was
\* opened under an operation was closed, and no end was dropped.
\* (output_stream.cpp:124-130, 333-355)
AllClosed == done => Names(OpenTags(out.open_diff["OUTPUT"])) = <<"unit">> /\ ~ out.delay_ws_end
=============================================================================
