------------------------------- MODULE EditLists -------------------------------
(***************************************************************************)
(* ses::edit_list, which the differs work off: a deletion with the         *)
(* insertion that follows it is one change, and a pair of constructs that  *)
(* the edit_corrector wants compared is an edit of its own (COMMON).       *)
(***************************************************************************)
EXTENDS EditScripts

LOCAL INSTANCE FiniteSetsExt

SesEdits ==
  [operation : {"DELETE", "INSERT", "CHANGE", "COMMON"},
   original_offset : Nat, original_length : Nat, modified_offset : Nat, modified_length : Nat]

\* ses::edit
SesEdit(operation, one, original, two, modified) ==
  [operation |-> operation, original_offset |-> one, original_length |-> original,
   modified_offset |-> two, modified_length |-> modified]

Starts(e) == Point(e.original_offset, e.modified_offset)

Ends(e) == Point(e.original_offset + e.original_length, e.modified_offset + e.modified_length)

\* The lengths that go with an operation.
WellFormed(e) ==
  \/ e.operation = "DELETE" /\ e.original_length > 0 /\ e.modified_length = 0
  \/ e.operation = "INSERT" /\ e.original_length = 0 /\ e.modified_length > 0
  \/ e.operation = "CHANGE" /\ e.original_length > 0 /\ e.modified_length > 0
  \/ e.operation = "COMMON" /\ e.original_length = 1 /\ e.modified_length = 1

\* What no edit covers behind the n-th one: where it begins, and where it ends.
Behind(es, n, from) == IF n = 0 THEN from ELSE Ends(es[n])

Ahead(es, n, to) == IF n = Len(es) THEN to ELSE Starts(es[n + 1])

\* The edits follow one another from one corner to the other, and what none of
\* them covers is equal, pair by pair.
Tiles(equal, es, from, to) ==
  \A n \in 0 .. Len(es) : Common(equal, Behind(es, n, from), Ahead(es, n, to))

\* A list of edits that leads from one corner to the other.
IsEditList(equal, es, from, to) ==
  /\ es \in Seq(SesEdits)
  /\ \A n \in 1 .. Len(es) : WellFormed(es[n])
  /\ Tiles(equal, es, from, to)
-----------------------------------------------------------------------------
\* The steps of the scripts that lead to p: the points where they leave the
\* diagonals are enough to tell their edits.
StepDistances(equal, from, to) ==
  LET d[p \in Grid(from, to)] ==
        IF p = from THEN 0
        ELSE Min(   {d[Left(q)] + 1 : q \in {r \in {p} : ByDeletion(from, r)}}
               \cup {d[Above(q)] + 1 : q \in {r \in {p} : ByInsertion(from, r)}}
               \cup {d[Diagonal(q)] : q \in {r \in {p} : ByMatch(equal, from, r)}})
  IN  d

\* The list with an element of one side deleted or inserted at the point p.
Deleted(es, p) ==
  IF es # <<>> /\ Ends(es[Len(es)]) = p /\ es[Len(es)].operation = "DELETE"
  THEN [es EXCEPT ![Len(es)].original_length = @ + 1]
  ELSE Append(es, SesEdit("DELETE", p.x, 1, p.y, 0))

Inserted(es, p) ==
  IF es # <<>> /\ Ends(es[Len(es)]) = p
  THEN [es EXCEPT ![Len(es)].operation = IF @ = "DELETE" THEN "CHANGE" ELSE @,
                  ![Len(es)].modified_length = @ + 1]
  ELSE Append(es, SesEdit("INSERT", p.x, 0, p.y, 1))

\* What compute may return: the edit list of any shortest script.
EditListsOf(equal, from, to) ==
  LET d == StepDistances(equal, from, to)
      S[p \in Grid(from, to)] ==
        IF p = from THEN {<<>>}
        ELSE UNION (   {{Deleted(es, Left(q)) : es \in S[Left(q)]} :
                          q \in {r \in {p} : ByDeletion(from, r) /\ d[r] = d[Left(r)] + 1}}
                  \cup {{Inserted(es, Above(q)) : es \in S[Above(q)]} :
                          q \in {r \in {p} : ByInsertion(from, r) /\ d[r] = d[Above(r)] + 1}}
                  \cup {S[Diagonal(q)] :
                          q \in {r \in {p} : ByMatch(equal, from, r) /\ d[r] = d[Diagonal(r)]}})
  IN  S[to]
=============================================================================
