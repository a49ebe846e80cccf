------------------------ MODULE MCShortestEditScript ------------------------
(***************************************************************************)
(* ShortestEditScript on every relation between two parts of a few         *)
(* elements that do not begin at 0.                                        *)
(***************************************************************************)
EXTENDS ShortestEditScript, FiniteSetsExt

\* The edit distance by its recurrence.
MCEditDistance(e) ==
  LET d[p \in Grid(Start, End)] ==
        IF p = Start THEN 0
        ELSE Min(   {d[Left(q)] + 1 : q \in {r \in {p} : ByDeletion(Start, r)}}
               \cup {d[Above(q)] + 1 : q \in {r \in {p} : ByInsertion(Start, r)}}
               \cup {d[Diagonal(q)] : q \in {r \in {p} : ByMatch(e, Start, r)}})
  IN  d
=============================================================================
