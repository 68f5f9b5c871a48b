---------------------------- MODULE MCMultiCursor ----------------------------
(* Small instances of MultiCursor and MultiCursorProps for TLC. *)
EXTENDS MultiCursorProps

ShortWords == <<<<1>>, <<1, Blank, 1>>>>
WordOrNone == {NoSel, [s |-> At(1, 0), e |-> At(1, 1)]}
NoProposals == {}
=============================================================================
