---------------------------- MODULE MultiCursor -----------------------------
(***************************************************************************)
(* Editing at several carets at once: document_multicursor.cpp, over the   *)
(* text, the single cursor and the undo history of Document.               *)
(*                                                                         *)
(* While carets exist, typing, backspace, delete and the horizontal arrows *)
(* go to them and every other key to the single cursor (window.cpp); those *)
(* do not move the carets, which may then stand beyond a line or the text. *)
(***************************************************************************)
EXTENDS Document

CONSTANTS
    Marked,         \* the markers, none or some, when the keys start
    MaxChosen       \* bound: edits made when carets are chosen for the last time

ASSUME MultiAssumption == MaxChosen \in Nat

VARIABLES
    carets,     \* multi_cursors_, sorted; s < e when the word is selected
    word        \* multi_cursor_word_, empty when there are no carets

multiVars == <<vars, carets, word>>

Caret(occ, off, selected) ==
    [y |-> occ.y, x |-> occ.s + off,
     s |-> IF selected THEN occ.s ELSE 0, e |-> IF selected THEN occ.e ELSE 0]

Point(c, x)  == [c EXCEPT !.x = x, !.s = 0, !.e = 0]
Spanning(c)  == c.s < c.e
FileOrder(a, b) == a.y < b.y \/ (a.y = b.y /\ a.x < b.x)
Sorted(cs)   == SortSeq(cs, FileOrder)
FirstOf(is)  == CHOOSE i \in is : \A j \in is : i <= j

-----------------------------------------------------------------------------
(* Choosing the carets: the word under the cursor, its next occurrence, or *)
(* all of them, each at one offset within the word.                        *)

\* Every character but this one is part of a word.
Blank == 0

\* The words of the text are the longest spans of word characters.
Spans == UNION {[y : {y}, s : 0..Len(lines[y]), e : 1..Len(lines[y])] : y \in DOMAIN lines}

IsWord(o) ==
    LET l == lines[o.y] IN
    /\ o.s < o.e /\ \A i \in (o.s + 1)..o.e : l[i] # Blank
    /\ o.s > 0 => l[o.s] = Blank
    /\ o.e < Len(l) => l[o.e + 1] = Blank

Spelled(o) == SubSeq(lines[o.y], o.s + 1, o.e)

\* A cursor at the end of the line is on the word before it.
UnderCursor(o) == o.y = cur.y /\ o.s <= cur.x /\ (cur.x < o.e \/ (cur.x = o.e /\ cur.x = Len(lines[o.y])))

\* get_scope_occurrences: the places of the word chosen before, or else of that under
\* the cursor, in the whole text, in file order.
Occs ==
    LET words  == {o \in Spans : IsWord(o)}
        here   == {o \in words : UnderCursor(o)}
        target == IF word # <<>> THEN word ELSE IF here = {} THEN <<>> ELSE Spelled(CHOOSE o \in here : TRUE)
    IN SetToSortSeq({o \in words : Spelled(o) = target}, LAMBDA a, b : a.y < b.y \/ (a.y = b.y /\ a.s < b.s))

ChosenAt(occs, is, off) == [k \in DOMAIN is |-> Caret(occs[is[k]], off, HasSelection(sel))]

\* The offset of the cursor in the first occurrence it touches.
CursorOffset(occs) ==
    LET here == {i \in DOMAIN occs : occs[i].y = cur.y /\ cur.x \in occs[i].s..occs[i].e}
    IN IF here = {} THEN 0 ELSE cur.x - occs[FirstOf(here)].s

CanChoose(occs) == "multi" \in Ops /\ edits <= MaxChosen /\ occs # <<>>

Choose(occs, cs) ==
    /\ carets' = Sorted(cs)
    /\ word' = Spelled(occs[1])
    /\ UNCHANGED <<lines, sel, stacks, crashed, edits>>

\* select_all_scope_highlights
SelectAll ==
    LET occs == Occs IN
    /\ CanChoose(occs)
    /\ Choose(occs, ChosenAt(occs, [i \in DOMAIN occs |-> i], CursorOffset(occs)))
    /\ UNCHANGED cur

\* select_next_scope_highlight, the first time: not at the end of a line, where the key
\* deletes.
SelectFirst ==
    LET occs == Occs
        here == {i \in DOMAIN occs : UnderCursor(occs[i])}
    IN /\ carets = <<>>
       /\ CanChoose(occs)
       /\ cur.x < Len(lines[cur.y])
       /\ Choose(occs, ChosenAt(occs, <<FirstOf(here)>>, cur.x - occs[FirstOf(here)].s))
       /\ UNCHANGED cur

\* Mutant: the new caret stands at the start of the word.
FirstOffsetNone(occs) == 0

\* The offset of the first caret from the first occurrence on its row.
FirstOffset(occs) ==
    LET c == carets[1]
        onRow == {i \in DOMAIN occs : occs[i].y = c.y}
    IN IF onRow = {} THEN 0 ELSE c.x - occs[FirstOf(onRow)].s

\* The occurrence o has no caret yet, at the offset of the others.
Free(o, off) ==
    \A k \in DOMAIN carets :
        carets[k].y = o.y => carets[k].x # o.s + off /\ ~(Spanning(carets[k]) /\ carets[k].s = o.s)

Behind(o) == FileOrder(Last(carets), [y |-> o.y, x |-> o.s])

\* select_next_scope_highlight: the occurrence after the last caret that has none, else
\* the first.
SelectNext ==
    LET occs == Occs
        off  == FirstOffset(occs)
        free == {i \in DOMAIN occs : Free(occs[i], off)}
        next == FirstOf(IF \E i \in free : Behind(occs[i]) THEN {i \in free : Behind(occs[i])} ELSE free)
    IN /\ carets # <<>>
       /\ CanChoose(occs)
       /\ Len(carets) < Len(occs)
       /\ free # {}
       /\ Choose(occs, carets \o ChosenAt(occs, <<next>>, off))
       /\ cur' = At(occs[next].y, occs[next].s + off)

-----------------------------------------------------------------------------
(* One keystroke at all carets.  On each line the carets are taken in      *)
(* ascending order; r holds the line so far, the shift of what is to come, *)
(* and the carets done.                                                    *)

\* A caret with a selection has its place where that starts.
StartOf(k) == IF Spanning(k) THEN k.s ELSE k.x

\* Removing at a negative column does nothing; inserting there is at the start.
Gone(l, from, to) == IF from < 0 THEN l ELSE Before(l, from) \o After(l, to)
With(l, x, c)     == Before(l, x) \o <<c>> \o After(l, x)

\* Mutant: the shift forgets that a selected word was removed.
TypeAtUnshifted(r, k) ==
    LET from == StartOf(k) + r.shift
        row  == IF Spanning(k) THEN Gone(r.row, from, k.e + r.shift) ELSE r.row
    IN [row |-> With(row, from, NextChar), done |-> Append(r.done, Point(k, from + 1)),
        shift |-> r.shift + 1]

TypeAt(r, k) ==
    LET from == StartOf(k) + r.shift
        row  == IF Spanning(k) THEN Gone(r.row, from, k.e + r.shift) ELSE r.row
    IN [row |-> With(row, from, NextChar), done |-> Append(r.done, Point(k, from + 1)),
        shift |-> r.shift + 1 - (k.e - k.s)]

BackspaceAt(r, k) ==
    LET at == k.x + r.shift IN
    IF Spanning(k)
    THEN [row |-> Gone(r.row, k.s + r.shift, k.e + r.shift),
          done |-> Append(r.done, Point(k, k.s + r.shift)), shift |-> r.shift - (k.e - k.s)]
    ELSE IF at > 0
    THEN [row |-> Gone(r.row, at - 1, at), done |-> Append(r.done, Point(k, at - 1)),
          shift |-> r.shift - 1]
    ELSE [r EXCEPT !.done = Append(@, Point(k, 0))]

DeleteAt(r, k) ==
    LET at == k.x + r.shift IN
    IF Spanning(k)
    THEN [row |-> Gone(r.row, k.s + r.shift, k.e + r.shift),
          done |-> Append(r.done, Point(k, k.s + r.shift)), shift |-> r.shift - (k.e - k.s)]
    ELSE IF at < Len(r.row)
    THEN [row |-> Gone(r.row, at, at + 1), done |-> Append(r.done, Point(k, at)),
          shift |-> r.shift - 1]
    ELSE [r EXCEPT !.done = Append(@, Point(k, at))]

OnRow(y) ==
    SortSeq(SelectSeq(carets, LAMBDA k : k.y = y), LAMBDA a, b : StartOf(a) < StartOf(b))

\* The row y after the keystroke, with the shift and the carets done.
EditedRow(y, op) ==
    FoldLeft(LAMBDA r, k : CASE op = "type" -> TypeAt(r, k)
                             [] op = "backspace" -> BackspaceAt(r, k)
                             [] OTHER -> DeleteAt(r, k),
             [row |-> lines[y], shift |-> 0, done |-> <<>>], OnRow(y))

RowsEdited == {carets[i].y : i \in DOMAIN carets} \cap DOMAIN lines

\* The carets after the keystroke: those on lines that no longer exist stay.
Moved(op) ==
    Sorted(FlattenSeq([i \in 1..Len(lines) |->
                         IF i \in RowsEdited THEN EditedRow(i, op).done ELSE <<>>])
             \o SelectSeq(carets, LAMBDA k : k.y \notin DOMAIN lines))

\* The single cursor follows the first caret on its line, or the first of all.
Follow(cs) ==
    LET mine == {i \in DOMAIN cs : cs[i].y = cur.y}
        c    == IF mine = {} THEN cs[1] ELSE cs[FirstOf(mine)]
    IN At(c.y, c.x)

\* No marker is adjusted.  One replace_line is recorded for each line.
Keystroke(op, type) ==
    LET ls  == [y \in DOMAIN lines |-> IF y \in RowsEdited THEN EditedRow(y, op).row ELSE lines[y]]
        was == [i \in 1..Cardinality(RowsEdited) |->
                  LET y == SetToSortSeq(RowsEdited, <)[i] IN Act("replace", y, lines[y])]
        to  == Follow(Moved(op))
    IN /\ op \in Ops
       /\ carets # <<>>
       /\ carets' = Moved(op)
       /\ Store(type, [Working EXCEPT !.ls = ls, !.acts = was, !.cur = to], to, sel)
       /\ UNCHANGED <<crashed, word>>

MultiType      == Keystroke("type", "typing")
MultiBackspace == Keystroke("backspace", "backspace")
MultiDelete    == Keystroke("delete", "backspace")

\* Bound: how far to the right a caret may drift.
MaxColumn == Len(Text[1])

\* move_multi_cursor: a caret stops at column 0, and nowhere on the right.
MoveMulti ==
    \E dx \in {-1, 1} :
      LET step(k) == IF Spanning(k) THEN Point(k, IF dx < 0 THEN k.s ELSE k.e)
                     ELSE Point(k, Larger(k.x + dx, 0))
          cs == [i \in DOMAIN carets |-> step(carets[i])]
      IN /\ (IF dx < 0 THEN "left" ELSE "right") \in Ops
         /\ carets # <<>>
         /\ dx < 0 \/ \A i \in DOMAIN carets : carets[i].x < MaxColumn
         /\ carets' = cs
         /\ cur' = Follow(cs)
         /\ UNCHANGED <<lines, sel, stacks, crashed, edits, word>>

ClearMulti ==
    /\ carets # <<>>
    /\ carets' = <<>> /\ word' = <<>>
    /\ UNCHANGED vars

-----------------------------------------------------------------------------
\* The loaded text, with markers set in it or not.
MultiInit ==
    /\ lines = Text
    /\ cur = At(1, 0)
    /\ sel \in Marked
    /\ undoStack = <<>> /\ redoStack = <<>>
    /\ crashed = FALSE
    /\ edits = 0
    /\ carets = <<>> /\ word = <<>>

\* The keys that go to the single cursor in either case.
SingleKeys == SplitLine \/ DeleteLine \/ MoveCursor \/ SetSelectionStart \/ SetSelectionEnd \/ Undo

\* The cursor followed a caret to a row that is gone: the next command for the
\* single cursor indexes lines_ by it.
BelowText ==
    /\ cur.y \notin DOMAIN lines
    /\ crashed' = TRUE
    /\ UNCHANGED <<lines, cur, sel, stacks, edits>>

MultiNext ==
    /\ ~crashed
    /\ \/ SelectAll \/ SelectFirst \/ SelectNext
       \/ MultiType \/ MultiBackspace \/ MultiDelete
       \/ MoveMulti \/ ClearMulti
       \/ BelowText /\ UNCHANGED <<carets, word>>
       \/ cur.y \in DOMAIN lines /\ SingleKeys /\ UNCHANGED <<carets, word>>
       \/ /\ carets = <<>> /\ cur.y \in DOMAIN lines
          /\ InsertChar \/ Backspace \/ DeleteChar
          /\ UNCHANGED <<carets, word>>

MultiSpec == MultiInit /\ [][MultiNext]_multiVars
=============================================================================
