-------------------------------- MODULE Reader --------------------------------
(***************************************************************************)
(* reader: one version read back from a delta.  The handler is called for  *)
(* every tag and text of the unit; it keeps a stack of the operations it   *)
(* is in and copies what belongs to its own operation or to both.          *)
(***************************************************************************)
EXTENDS OutputStream

LOCAL INSTANCE SequencesExt

ReaderOf(operation) == [operation |-> operation, op_mode |-> <<"COMMON">>, read |-> <<>>]

\* string_to_operation
OperationOf(name) ==
  IF \E operation \in DiffOperations : DiffName[operation] = name
  THEN CHOOSE operation \in DiffOperations : DiffName[operation] = name
  ELSE "NONE"

IsDiff(node) == node.name = "diff:ws" \/ OperationOf(node.name) # "NONE"

InOperation(r) == Last(r.op_mode) \in {"COMMON", r.operation}

StartElement(r, node) ==
  IF node.name = "diff:ws" THEN r
  ELSE IF IsDiff(node) THEN [r EXCEPT !.op_mode = Append(@, OperationOf(node.name))]
  ELSE IF InOperation(r) THEN [r EXCEPT !.read = Append(@, node)]
  ELSE r

\* Mutant: the operation of a diff element that ends goes on.
EndElementWithoutPop(r, node) ==
  IF ~ IsDiff(node) /\ InOperation(r) THEN [r EXCEPT !.read = Append(@, node)] ELSE r

EndElement(r, node) ==
  IF node.name = "diff:ws" THEN r
  ELSE IF IsDiff(node) THEN [r EXCEPT !.op_mode = Front(@)]
  ELSE IF InOperation(r) THEN [r EXCEPT !.read = Append(@, node)]
  ELSE r

CharactersUnit(r, node) == IF InOperation(r) THEN [r EXCEPT !.read = Append(@, node)] ELSE r

\* A reader after it has read one more node, and after it has read nodes.
ReadNode(r, node) ==
  IF node.type = "START" THEN StartElement(r, node)
  ELSE IF node.type = "END" THEN EndElement(r, node)
  ELSE CharactersUnit(r, node)

ReadOn(reader, nodes) ==
  LET read[n \in 0 .. Len(nodes)] ==
        IF n = 0 THEN reader ELSE ReadNode(read[n - 1], nodes[n])
  IN  read[Len(nodes)]

Reading(operation, nodes) == ReadOn(ReaderOf(operation), nodes)
=============================================================================
