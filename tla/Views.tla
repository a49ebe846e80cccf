-------------------------------- MODULE Views --------------------------------
(***************************************************************************)
(* view_t as the client sees it: the tags and texts of a delta go to the   *)
(* view that was asked for, and behind the last one it is reset.           *)
(***************************************************************************)
EXTENDS Nodes

CONSTANTS UnsignedWidth, SizeWidth

Unified == INSTANCE UnifiedView
SideBySide == INSTANCE SideBySideView
LOCAL Common == INSTANCE View

\* No view: deltas are written to the archive.
NoView == [kind |-> "none"]

Dispatch(v, unified, side_by_side) == IF v.kind = "unified" THEN unified ELSE side_by_side

Reset(v) == Dispatch(v, Unified!Reset(v), SideBySide!Reset(v))

\* startUnit and endUnit; transform resets the view when the parser has returned.
StartUnit(v) ==
  LET entered == Common!Entered(v, "COMMON")
  IN  Dispatch(v, entered, SideBySide!StartUnit(entered))

EndUnit(v) == Reset(Common!Left(Dispatch(v, Unified!EndUnit(v), SideBySide!EndUnit(v))))

StartElement(v, name) ==
  LET opened == Common!OpenElement(v, name)
  IN  Dispatch(v, Unified!StartElement(opened, name), SideBySide!StartElement(opened, name))

EndElement(v, name) ==
  LET closed == Common!CloseElement(v, name)
  IN  Dispatch(v, Unified!EndElement(closed, name), SideBySide!EndElement(closed, name))

\* charactersUnit
Characters(v, content) == Dispatch(v, Unified!Characters(v, content), SideBySide!Characters(v, content))

Handle(v, node) ==
  CASE node.type = "START" /\ node.name = "unit" -> StartUnit(v)
    [] node.type = "END" /\ node.name = "unit" -> EndUnit(v)
    [] node.type = "START" /\ node.name # "unit" -> StartElement(v, node.name)
    [] node.type = "END" /\ node.name # "unit" -> EndElement(v, node.name)
    [] OTHER -> Characters(v, node.content)
=============================================================================
