-------------------------- MODULE MCHybridEditScript --------------------------
(***************************************************************************)
(* HybridEditScript on every relation between two sequences of a few       *)
(* elements, with a threshold that leaves some parts to the quadratic      *)
(* search and one that leaves it none.                                     *)
(***************************************************************************)
EXTENDS HybridEditScript, FiniteSetsExt

LOCAL INSTANCE SequencesExt
LOCAL INSTANCE TLC

\* The points of the grid but the first, row by row.
Onwards(from, to) ==
  LET width == to.x - from.x + 1
  IN  [i \in 1 .. width * (to.y - from.y + 1) - 1 |->
         Point(from.x + (i % width), from.y + (i \div width))]

\* A value for every point of the grid, from the values of those before it.
Tabulate(from, first, Entry(_, _)) ==
  FoldLeft(LAMBDA table, p : table @@ (p :> Entry(table, p)), from :> first, Onwards(from, End))

\* The edit distance from one corner to every point, by its recurrence.
MCEditDistance(e, from) ==
  LET Entry(d, p) ==
        Min(   (IF ByDeletion(from, p) THEN {d[Left(p)] + 1} ELSE {})
            \cup (IF ByInsertion(from, p) THEN {d[Above(p)] + 1} ELSE {})
            \cup (IF ByMatch(e, from, p) THEN {d[Diagonal(p)]} ELSE {}))
  IN  Tabulate(from, 0, Entry)

\* The edit appended to a script, as part of its last edit if it continues it.
Extended(es, operation, p) ==
  LET e == [operation |-> operation, one |-> p.x, two |-> p.y, length |-> 1]
  IN  IF es # <<>> /\ es[Len(es)].operation = operation /\ After(es[Len(es)]) = p
      THEN [es EXCEPT ![Len(es)].length = @ + 1]
      ELSE Append(es, e)

\* Those of the scripts that spend least.
Cheapest(scripts) == {es \in scripts : \A fs \in scripts : Total(es) <= Total(fs)}

\* Every condensed script of minimal length: the promise of the quadratic search.
MCShortestScripts(e, from) ==
  LET S[p \in Grid(from, End)] ==
        IF p = from THEN {<<>>}
        ELSE UNION {Cheapest(scripts) : scripts \in
               {     {Extended(es, "SES_DELETE", Left(p)) :
                        es \in IF ByDeletion(from, p) THEN S[Left(p)] ELSE {}}
                \cup {Extended(es, "SES_INSERT", Above(p)) :
                        es \in IF ByInsertion(from, p) THEN S[Above(p)] ELSE {}}
                \cup (IF ByMatch(e, from, p) THEN S[Diagonal(p)] ELSE {})}}
  IN  S
=============================================================================
