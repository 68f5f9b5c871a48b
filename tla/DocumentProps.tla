---------------------------- MODULE DocumentProps ----------------------------
(***************************************************************************)
(* What the editing commands, the markers and the undo history of a        *)
(* document promise, over Document.                                        *)
(***************************************************************************)
EXTENDS Document

\* HistoryBounded: the groups that can be undone or redone are never more than
\* max_undo_steps_, although undo() and redo() move groups between the stacks
\* without looking at the limit that end_edit_group() enforces.
HistoryBounded == Len(undoStack) + Len(redoStack) <= MaxUndo

\* A place of the text ls: a gap of one of its rows.
InPlace(p, ls) == p.y \in DOMAIN ls /\ p.x \in 0..Len(ls[p.y])

\* InText: the cursor and each marker that is set are at places of the text, which
\* has a row then.  notify_cursor_changed, which follows each command, indexes lines_
\* by their rows without a check; a column beyond its row is cut off at each use, so
\* that what is edited there is not at the place that is shown.
InText ==
    /\ ~crashed
    /\ InPlace(cur, lines)
    /\ \A q \in {sel.s, sel.e} \ {NoMark} : InPlace(q, lines)

\* StaysInText: typing, deleting, marking, blocks and the edits of agents leave the
\* cursor and the markers in the text when they found them there, whatever was done
\* before.  The formatter and undo move no marker with the text they put there.
StaysInText ==
    [][InText /\ (Typing \/ Deleting \/ Marking \/ Blocks \/ ApplyAgentEdits) => InText']_vars

\* UndoTakesBack: however groups were coalesced, nested or merged, k undos give
\* the text from before the last k groups (get_lines_at_undo shows it in the
\* undo view; undo() itself uses the same loop without range checks).
UndoTakesBack ==
    \A k \in 1..Len(undoStack) : LinesAtUndo(k) = undoStack[Len(undoStack) - k + 1].was

\* UndoSteps: undo() restores the text and puts the cursor inside it.
UndoSteps ==
    [][Undo => ~crashed' /\ lines' = Last(undoStack).was /\ cur'.y \in DOMAIN lines']_vars

\* RedoReapplies: redo gives back the text that undo took away
\* (docs/keybindings.md: re-applies the last undone operation).
RedoReapplies ==
    redoStack # <<>> =>
        LET g == Last(redoStack) IN ~Reverted(g).bad /\ Reverted(g).ls = g.was

-----------------------------------------------------------------------------
Chars(ls) == UNION {{ls[y][i] : i \in DOMAIN ls[y]} : y \in DOMAIN ls}

\* The character c of the text ls stands before the place p.
StandsBefore(ls, c, p) ==
    \E y \in DOMAIN ls : \E i \in DOMAIN ls[y] :
        ls[y][i] = c /\ (y < p.y \/ (y = p.y /\ i <= p.x))

Occurrences(ls) == LET t == FlattenSeq(ls) IN [c \in Chars(ls) |-> Cardinality({i \in DOMAIN t : t[i] = c})]

\* The characters that can be followed: a copied block repeats some.
Singles(ls) == {c \in Chars(ls) : Occurrences(ls)[c] = 1}

\* No character that survives the step has moved across the marker.
Keeps(m, n) ==
    m = NoMark \/ /\ n # NoMark
                  /\ \A c \in Singles(lines) \cap Singles(lines') :
                       StandsBefore(lines, c, m) <=> StandsBefore(lines', c, n)

Between(c, ms) == ~StandsBefore(lines, c, ms.s) /\ StandsBefore(lines, c, ms.e)

\* MarkersFollow: a command moves each marker with the characters around it, and
\* clears the markers only when nothing is left between them
\* (docs/design-selection.md, 3.2).  Deleting a line clears a lone marker.
Half == (sel.s = NoMark) # (sel.e = NoMark)

MarkersFollow ==
    [][Typing \/ Deleting \/ DeleteSelection =>
         \/ Keeps(sel.s, sel'.s) /\ Keeps(sel.e, sel'.e)
         \/ /\ sel' = NoSel /\ NoMark \notin {sel.s, sel.e}
            /\ \A c \in Singles(lines) \cap Chars(lines') : ~Between(c, sel)
         \/ sel' = NoSel /\ Half /\ DeleteLine]_vars

Enclosed(ls, ms) == FlattenSeq(Block([ls |-> ls, sel |-> ms, cur |-> ms.s, acts |-> <<>>]))
Blocked(c)       == Cardinality({i \in DOMAIN Enclosed(lines, sel) : Enclosed(lines, sel)[i] = c})

EnclosesBlock == HasSelection(sel') /\ Enclosed(lines', sel') = Enclosed(lines, sel)

MovesWhole ==
    /\ Occurrences(lines') = Occurrences(lines)
    /\ \/ WholeLines(Working) /\ sel.e.y = Len(lines) /\ ~Precedes(cur, sel.s)
       \/ \A c \in {d \in Chars(lines) : ~Between(d, sel)} :
            StandsBefore(lines', c, sel'.s) <=> StandsBefore(lines, c, cur)

CopiesWhole == \A c \in Chars(lines) : Occurrences(lines')[c] = Occurrences(lines)[c] + Blocked(c)

\* BlockKeepsText: moving a block loses and repeats no character and puts it where the
\* cursor was among the other characters; copying adds it once, at the cursor; either
\* way the markers enclose the block afterwards.  Left out: whole lines at the end of
\* the text with the cursor in them or at their end, which move_selection puts in front
\* of the line before them.
BlockKeepsText ==
    [][/\ MoveSelection => EnclosesBlock /\ MovesWhole
       /\ CopySelection => EnclosesBlock /\ CopiesWhole]_vars
=============================================================================
