---------------------------- MODULE EditCorrections ----------------------------
(***************************************************************************)
(* What the edit_corrector does to an edit list: two short edits, and the  *)
(* one common construct between them, become a change, and a pair of it    *)
(* that lies across the common construct is compared instead.              *)
(***************************************************************************)
EXTENDS EditLists

CONSTANT LongEdit  \* an edit of more constructs is left alone: 3

ASSUME LongEditAssumption == LongEdit \in Nat

\* What is left of a change on one side of the pair that becomes common.
Rest(from, original, modified) ==
  IF original = 0 /\ modified = 0 THEN <<>>
  ELSE <<SesEdit(IF original = 0 THEN "INSERT" ELSE IF modified = 0 THEN "DELETE" ELSE "CHANGE",
                 from.x, original, from.y, modified)>>

\* split_change: the pair n of the edit e (counted from its start) becomes common,
\* what is before and behind it stays changed.
SplitChange(e, n) ==
  LET p == Point(e.original_offset + n.x, e.modified_offset + n.y)
  IN  Rest(Starts(e), n.x, n.y)
      \o <<SesEdit("COMMON", p.x, 1, p.y, 1)>>
      \o Rest(Along(p, 1), e.original_length - n.x - 1, e.modified_length - n.y - 1)

\* correct_common_inner: a change is split at the first equal pair within it.
CorrectCommonInner(equal, e) ==
  LET pairs == {n \in [x : 0 .. e.original_length - 1, y : 0 .. e.modified_length - 1] :
                  <<e.original_offset + n.x, e.modified_offset + n.y>> \in equal}
      First(n) == \A m \in pairs : n.x < m.x \/ (n.x = m.x /\ n.y <= m.y)
  IN  IF e.operation # "CHANGE" \/ pairs = {} THEN <<e>>
      ELSE SplitChange(e, CHOOSE n \in pairs : First(n))

\* Mutant: the length of an edit is counted whatever the edit is.
GapAtMostOne(e, f) == 1

\* The constructs between an edit and the next one.
Gap(e, f) ==
  f.original_offset
    - (e.original_offset + IF e.operation \in {"DELETE", "CHANGE"} THEN e.original_length ELSE 0)

Short(e) == e.original_length <= LongEdit /\ e.modified_length <= LongEdit

\* Two edits that may have been torn apart by one common construct.
IsCandidate(e, f) ==
  /\ e.operation # "COMMON" /\ Short(e)
  /\ f.operation # "COMMON" /\ Short(f)
  /\ e.operation = "CHANGE" \/ f.operation = "CHANGE" \/ e.operation # f.operation
  /\ Gap(e, f) = 1

\* Mutant: the offset of the side an edit leaves alone is not moved back.
SubjectOfNext(e, f) ==
  SesEdit("CHANGE",
          IF e.operation = "INSERT" THEN f.original_offset ELSE e.original_offset,
          (IF e.operation = "INSERT" THEN 0 ELSE e.original_length) + 1 + f.original_length,
          IF e.operation = "DELETE" THEN f.modified_offset ELSE e.modified_offset,
          (IF e.operation = "DELETE" THEN 0 ELSE e.modified_length) + 1 + f.modified_length)

\* Both edits and the construct between them as one change.
Subject(e, f) ==
  SesEdit("CHANGE",
          IF e.operation = "INSERT" THEN f.original_offset - 1 ELSE e.original_offset,
          (IF e.operation = "INSERT" THEN 0 ELSE e.original_length) + 1 + f.original_length,
          IF e.operation = "DELETE" THEN f.modified_offset - 1 ELSE e.modified_offset,
          (IF e.operation = "DELETE" THEN 0 ELSE e.modified_length) + 1 + f.modified_length)

\* Where the construct between them is in the change.
Between(e) ==
  Point(IF e.operation = "INSERT" THEN 0 ELSE e.original_length,
        IF e.operation = "DELETE" THEN 0 ELSE e.modified_length)

\* The pairs of the change of which one is before the common construct and the
\* other one behind it.
Across(e, f) ==
  LET s == Subject(e, f)
      c == Between(e)
  IN  {n \in [x : 0 .. s.original_length - 1, y : 0 .. s.modified_length - 1] :
         \/ n.x < c.x /\ n.y > c.y
         \/ n.x > c.x /\ n.y < c.y}

\* The list after its edits k and k + 1 are broken up for the pair n, and
\* correct_common has looked for equal pairs in the changes that are left.
Broken(equal, es, k, n) ==
  LET split == SplitChange(Subject(es[k], es[k + 1]), n)
  IN  SubSeq(es, 1, k - 1)
        \o CorrectCommonInner(equal, split[1]) \o <<split[2]>> \o CorrectCommonInner(equal, split[3])
        \o SubSeq(es, k + 2, Len(es))
=============================================================================
