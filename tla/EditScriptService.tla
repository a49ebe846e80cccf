-------------------------- MODULE EditScriptService --------------------------
(***************************************************************************)
(* What the functions of shortest_edit_script.h promise their callers: one *)
(* answer, which is either an error or a script that turns the first part  *)
(* into the second with as few edits as possible.  How it is found is left *)
(* to the algorithms that implement it.                                    *)
(***************************************************************************)
EXTENDS EditScripts, FiniteSets

CONSTANTS StartOne, EndOne, StartTwo, EndTwo, EditDistance(_)

VARIABLES
  equal,   \* the cells whose elements are equal
  status,  \* "pending", "answered" or "failed"
  answer   \* the script

Start == Point(StartOne, StartTwo)
End == Point(EndOne, EndTwo)

\* The elements a script deletes and inserts.
Total(es) == Cardinality(UNION {{i} \X (1 .. es[i].length) : i \in DOMAIN es})

\* Two neighbouring edits that one edit could replace.
Mergeable(e, f) == e.operation = f.operation /\ After(e) = Before(f)

IsShortest(es) ==
  /\ Transforms(equal, es, Start, End)
  /\ Total(es) = EditDistance(equal)[End]
  /\ \A i \in 1 .. Len(es) - 1 : ~ Mergeable(es[i], es[i + 1])

Init ==
  /\ equal \in SUBSET Cells(Start, End)
  /\ status = "pending"
  /\ answer = <<>>

Answer ==
  /\ status = "pending"
  /\ status' = "answered"
  /\ IsShortest(answer')
  /\ UNCHANGED equal

Fail ==
  /\ status = "pending"
  /\ status' = "failed"
  /\ UNCHANGED <<equal, answer>>

Next == Answer \/ Fail

Spec == Init /\ [][Next]_<<equal, status, answer>>
=============================================================================
