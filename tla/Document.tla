------------------------------ MODULE Document ------------------------------
(***************************************************************************)
(* The text of one document, its cursor, its two block markers and its     *)
(* undo history: document_edit.cpp, document_selection.cpp,                *)
(* document_undo.cpp, document_nav.cpp, document_format.cpp and            *)
(* apply_external_edits_json of document.cpp.                              *)
(*                                                                         *)
(* Each public method holds the document's mutex from beginning to end, so *)
(* one action is one method.  The exception is format_range, which gives   *)
(* the mutex up while clang-format runs: here nobody edits meanwhile.  A   *)
(* method works on a working copy, the record d of text, cursor, markers   *)
(* and the edit_actions recorded so far, and Commit stores it the way      *)
(* end_edit_group does.  A character is a number that occurs once unless a *)
(* block copy repeats it, so that a property can follow it.  Rows count    *)
(* from 1 (row 0 is the code's -1, no marker), and column x is the gap     *)
(* after x characters.                                                     *)
(***************************************************************************)
EXTENDS Integers, Sequences, FiniteSets, SequencesExt

CONSTANTS
    Text,           \* the text loaded from the file
    Ops,            \* the commands in use
    AgentEdits,     \* the edits an agent may propose: see ApplyEdit
    MaxEdits,       \* bound: edits made
    MaxUndo         \* max_undo_steps_

Row == Seq(Nat)

EditKinds == {"add", "replace", "remove"}

ASSUME DocumentAssumption ==
    /\ Text \in Seq(Row) /\ Text # <<>>
    /\ AgentEdits \subseteq Seq([kind : EditKinds, y : Nat \ {0}, gone : Nat, new : Seq(Row)])
    /\ MaxEdits \in Nat /\ MaxUndo \in Nat \ {0}

VARIABLES
    lines,      \* lines_
    cur,        \* cursor_y_, cursor_x_
    sel,        \* the markers selection_start_ and selection_end_
    undoStack,  \* undo_stack_, the newest group last
    redoStack,  \* redo_stack_
    crashed,    \* an index outside lines_ was used
    edits       \* edits made so far; also names the next character typed

stacks == <<undoStack, redoStack>>
vars   == <<lines, cur, sel, stacks, crashed, edits>>

NoMark == [y |-> 0, x |-> 0]
NoSel  == [s |-> NoMark, e |-> NoMark]
At(row, col) == [y |-> row, x |-> col]

-----------------------------------------------------------------------------
(* Lines: line.cpp.  Columns outside the line are clamped, as there.       *)

Smaller(m, n) == IF m < n THEN m ELSE n
Larger(m, n)  == IF m > n THEN m ELSE n

\* split_at: the characters before and those after a column.
Before(l, col) == SubSeq(l, 1, Smaller(col, Len(l)))
After(l, col)  == SubSeq(l, Smaller(Larger(col, 0), Len(l)) + 1, Len(l))

Rows(ls, from, to) == SubSeq(ls, from, to)

\* The rows from..to of ls replaced by the rows of block.
Splice(ls, from, to, block) ==
    Rows(ls, 1, from - 1) \o block \o Rows(ls, to + 1, Len(ls))

-----------------------------------------------------------------------------
(* Markers.  Each adjust_selection_for_... moves both and then sanitizes.   *)

Precedes(m, n) == m.y < n.y \/ (m.y = n.y /\ m.x < n.x)

HasSelection(ms) == ms.s # NoMark /\ ms.e # NoMark /\ Precedes(ms.s, ms.e)

Sanitize(ms) ==
    IF ms.s # NoMark /\ ms.e # NoMark /\ ~Precedes(ms.s, ms.e) THEN NoSel ELSE ms

\* to[m] is where the marker m goes.
Adjust(ms, to) == Sanitize([s |-> to[ms.s], e |-> to[ms.e]])

\* Mutant: the call is left out.
ForInsertForgotten(ms, at, n) == ms

ForInsert(ms, at, n) ==
    Adjust(ms, [m \in {ms.s, ms.e} |-> IF m.y = at.y /\ m.x >= at.x THEN At(m.y, m.x + n) ELSE m])

ForDelete(ms, at, n) ==
    Adjust(ms, [m \in {ms.s, ms.e} |-> IF m.y = at.y /\ m.x > at.x
                                      THEN At(m.y, Larger(m.x - n, at.x)) ELSE m])

ForSplit(ms, at) ==
    Adjust(ms, [m \in {ms.s, ms.e} |-> IF m.y = at.y /\ m.x >= at.x THEN At(m.y + 1, m.x - at.x)
                                      ELSE IF m.y > at.y THEN At(m.y + 1, m.x) ELSE m])

\* Row y joins row y - 1, which has n characters.
ForJoin(ms, y, n) ==
    Adjust(ms, [m \in {ms.s, ms.e} |-> IF m.y = y THEN At(y - 1, m.x + n)
                                      ELSE IF m.y > y THEN At(m.y - 1, m.x) ELSE m])

\* adjust_selection_for_line_delete, with the lines as they are at the call: a
\* marker on the last row moves to the end of the one before.  One marker that
\* is not set clears the other.
ForLineDelete(ms, ls, y) ==
    LET to == [m \in {ms.s, ms.e} |->
                 IF m.y = y
                 THEN IF y < Len(ls) THEN At(y, 0)
                      ELSE IF y - 1 \in DOMAIN ls THEN At(y - 1, Len(ls[y - 1])) ELSE NoMark
                 ELSE IF m.y > y THEN At(m.y - 1, m.x) ELSE m]
    IN IF NoMark \in {to[ms.s], to[ms.e]} THEN NoSel ELSE Adjust(ms, to)

-----------------------------------------------------------------------------
(* Edit groups: begin_edit_group, record_action, end_edit_group.           *)

Working == [ls |-> lines, cur |-> cur, sel |-> sel, acts |-> <<>>]

Act(kind, y, saved) == [kind |-> kind, y |-> y, saved |-> saved]

\* A second replace_line of the same line in a row is not recorded again.
Record(d, kind, y) ==
    IF kind = "replace" /\ d.acts # <<>>
         /\ Last(d.acts).kind = "replace" /\ Last(d.acts).y = y
    THEN d
    ELSE [d EXCEPT !.acts =
            Append(@, Act(kind, y, IF kind = "insert" THEN <<>> ELSE d.ls[y]))]

\* The text line y had is saved by one of the actions.
Saves(acts, y) == \E i \in DOMAIN acts : acts[i].kind = "replace" /\ acts[i].y = y

\* Mutant: nothing is taken over when the group saved a line already.
FoldedNone(acts, new) == acts

\* The actions of a group that is merged into the one before it: the text a line
\* had is saved once.
Folded(acts, new) ==
    LET upTo[k \in 0..Len(new)] ==
          IF k = 0 THEN acts
          ELSE IF new[k].kind = "replace" /\ Saves(upTo[k - 1], new[k].y) THEN upTo[k - 1]
          ELSE Append(upTo[k - 1], new[k])
    IN upTo[Len(new)]

Mergeable(last, g) ==
    /\ g.type # "none" /\ last.type = g.type
    /\ last.after = g.before
    /\ last.acts # <<>>
    /\ last.acts[1].y = g.acts[1].y

Merged(last, g) == [last EXCEPT !.acts = Folded(@, g.acts), !.after = g.after]

\* Mutant: no limit on the number of groups.
PushedUnbounded(stack, g) == Append(stack, g)

\* The undo stack with g on it.  g.was is history: the text the group is to bring
\* back.
Pushed(stack, g) ==
    IF stack # <<>> /\ Mergeable(Last(stack), g)
    THEN [stack EXCEPT ![Len(stack)] = Merged(@, g)]
    ELSE IF Len(stack) = MaxUndo THEN Append(Tail(stack), g) ELSE Append(stack, g)

\* end_edit_group with d as it is then, and what the method sets afterwards.
Store(type, d, curAfter, selAfter) ==
    /\ edits < MaxEdits
    /\ edits' = edits + 1
    /\ lines' = d.ls
    /\ cur' = curAfter
    /\ sel' = selAfter
    /\ IF d.acts = <<>> THEN UNCHANGED stacks
       ELSE /\ undoStack' = Pushed(undoStack,
                 [acts |-> d.acts, before |-> cur, after |-> d.cur, type |-> type,
                  was |-> lines])
            /\ redoStack' = <<>>

\* notify_cursor_changed, at the end of a method, indexes lines_ by the row of the
\* cursor and of each marker that is set.
OffText(ls, c, m) ==
    \/ c.y \notin DOMAIN ls
    \/ \E q \in {m.s, m.e} \ {NoMark} : q.y \notin DOMAIN ls

Commit(type, d, curAfter, selAfter) ==
    /\ Store(type, d, curAfter, selAfter)
    /\ crashed' = OffText(d.ls, curAfter, selAfter)

Edit(op, type, d) == op \in Ops /\ Commit(type, d, d.cur, d.sel)

\* break_undo_coalescing: the newest group takes in no more.
Uncoalesced(stack) ==
    IF stack = <<>> THEN stack ELSE [stack EXCEPT ![Len(stack)].type = "none"]

-----------------------------------------------------------------------------
(* Typing and deleting: document_edit.cpp.                                 *)

NextChar == 1000 + edits

\* The character c at the cursor; "nl" splits the line there.
Put(d, c) ==
    LET y == d.cur.y  x == d.cur.x  r == Record(d, "replace", y)
    IN [r EXCEPT !.ls[y] = Before(@, x) \o <<c>> \o After(@, x),
                 !.sel = ForInsert(@, d.cur, 1),
                 !.cur = At(y, x + 1)]

Split(d) ==
    LET y == d.cur.y  x == d.cur.x  r == Record(d, "replace", y)
        s == [r EXCEPT !.ls = Splice(@, y, y, <<Before(d.ls[y], x), After(d.ls[y], x)>>),
                       !.sel = ForSplit(@, d.cur),
                       !.cur = At(y + 1, 0)]
    IN Record(s, "insert", y + 1)

\* n characters removed at the place p.
Cut(d, p, n) ==
    LET r == Record(d, "replace", p.y)
    IN [r EXCEPT !.ls[p.y] = Before(@, p.x) \o After(@, p.x + n),
                 !.sel = ForDelete(@, p, n),
                 !.cur = p]

\* Row y joined to the one before it; the cursor ends at the seam.
Join(d, y) ==
    LET r == Record(Record(d, "replace", y - 1), "delete", y)
        n == Len(d.ls[y - 1])
    IN [r EXCEPT !.ls = Splice(@, y - 1, y, <<@[y - 1] \o @[y]>>),
                 !.sel = ForJoin(@, y, n),
                 !.cur = At(y - 1, n)]

InsertChar == Edit("type", "typing", Put(Working, NextChar))
SplitLine  == Edit("enter", "none", Split(Working))

\* insert_text: the pasted text is <<char, newline, newline, char>> here.
InsertText ==
    Edit("paste", "none", Put(Split(Split(Put(Working, NextChar))), NextChar + 500))

Backspace ==
    \/ cur.x > 0 /\ Edit("backspace", "backspace", Cut(Working, At(cur.y, cur.x - 1), 1))
    \/ cur.x <= 0 /\ cur.y > 1 /\ Edit("backspace", "backspace", Join(Working, cur.y))

DeleteChar ==
    \/ cur.x < Len(lines[cur.y]) /\ Edit("delete", "backspace", Cut(Working, cur, 1))
    \/ /\ cur.x >= Len(lines[cur.y]) /\ cur.y < Len(lines)
       /\ Edit("delete", "backspace", Join(Working, cur.y + 1))

\* delete_to_eol, delete_to_bol, delete_word_forward and delete_word_backward:
\* what is cut on the row depends on the words in it; at the row's end the word
\* commands join.
CutRow ==
    \/ \E n \in 1..Len(lines[cur.y]) : cur.x + n <= Len(lines[cur.y])
                                       /\ Edit("cut", "none", Cut(Working, cur, n))
    \/ \E x \in 0..(cur.x - 1) : Edit("cut", "none", Cut(Working, At(cur.y, x), cur.x - x))

JoinByWord ==
    \/ /\ cur.x >= Len(lines[cur.y]) /\ cur.y < Len(lines)
       /\ Edit("cut", "none", Join(Working, cur.y + 1))
    \/ cur.x = 0 /\ cur.y > 1 /\ Edit("cut", "backspace", Join(Working, cur.y))

\* replace_current, with the cursor at the start of a match of n characters.
ReplaceCurrent ==
    \E n \in 1..(Len(lines[cur.y]) - cur.x) : \E new \in {<<>>, <<NextChar>>} :
      LET d == Record(Working, "replace", cur.y)  y == cur.y  x == cur.x IN
      Edit("replace", "typing",
        [d EXCEPT !.ls[y] = Before(@, x) \o new \o After(@, x + n),
                  !.sel = ForInsert(ForDelete(@, cur, n), cur, Len(new)),
                  !.cur = At(y, x + Len(new))])

\* Mutant: the cursor stays on the row after the last.
DeleteLineStaying ==
    LET r == Record(Working, "delete", cur.y)
    IN /\ Len(lines) > 1
       /\ Edit("line", "delete_line",
            [r EXCEPT !.ls = Splice(@, cur.y, cur.y, <<>>),
                      !.sel = ForLineDelete(@, lines, cur.y),
                      !.cur = At(cur.y, 0)])

DeleteLine ==
    \/ /\ Len(lines) = 1
       /\ Edit("line", "delete_line",
            [Record(Working, "replace", 1) EXCEPT !.ls[1] = <<>>, !.sel = NoSel, !.cur = At(1, 0)])
    \/ /\ Len(lines) > 1
       /\ Edit("line", "delete_line",
            [Record(Working, "delete", cur.y)
               EXCEPT !.ls = Splice(@, cur.y, cur.y, <<>>),
                      !.sel = ForLineDelete(@, lines, cur.y),
                      !.cur = At(Smaller(cur.y, Len(lines) - 1), 0)])

-----------------------------------------------------------------------------
(* Markers and blocks: document_selection.cpp.                             *)

\* Cursor commands and marking: all break the coalescing of undo groups.
Settle(newCur, newSel) ==
    /\ cur' = newCur /\ sel' = newSel
    /\ undoStack' = Uncoalesced(undoStack)
    /\ UNCHANGED <<lines, redoStack, crashed, edits>>

MoveCursor ==
    "move" \in Ops /\ \E y \in DOMAIN lines : \E x \in 0..Len(lines[y]) : Settle(At(y, x), sel)

SetSelectionStart == "mark" \in Ops /\ Settle(cur, Sanitize([sel EXCEPT !.s = cur]))
SetSelectionEnd   == "mark" \in Ops /\ Settle(cur, Sanitize([sel EXCEPT !.e = cur]))
ClearSelection    == "mark" \in Ops /\ Settle(cur, NoSel)

\* has_selection_unlocked, and the bounds every block command checks.
BlockReady(d) == HasSelection(d.sel) /\ {d.sel.s.y, d.sel.e.y} \subseteq DOMAIN d.ls

\* get_selection_block
Block(d) ==
    LET s == d.sel.s  e == d.sel.e
    IN IF s.y = e.y THEN <<After(Before(d.ls[s.y], e.x), s.x)>>
       ELSE <<After(d.ls[s.y], s.x)>> \o Rows(d.ls, s.y + 1, e.y - 1)
              \o <<Before(d.ls[e.y], e.x)>>

WholeLines(d) ==
    LET s == d.sel.s  e == d.sel.e
    IN s.x = 0 /\ e.x > 0 /\ e.x = Len(d.ls[e.y]) /\ e.y - s.y + 1 < Len(d.ls)

\* The rows from..to recorded as deleted, the last one first.
RecordGone(d, from, to) ==
    [d EXCEPT !.acts = @ \o [i \in 1..Larger(to - from + 1, 0) |->
                               Act("delete", to + 1 - i, d.ls[to + 1 - i])]]

\* delete_selection_unlocked up to its end_edit_group: the cursor has not moved.
Excised(d) ==
    LET s == d.sel.s  e == d.sel.e
    IN IF WholeLines(d)
       THEN [RecordGone(d, s.y, e.y) EXCEPT !.ls = Splice(@, s.y, e.y, <<>>)]
       ELSE [RecordGone(Record(d, "replace", s.y), s.y + 1, e.y)
               EXCEPT !.ls = Splice(@, s.y, e.y, <<Before(d.ls[s.y], s.x) \o After(d.ls[e.y], e.x)>>)]

\* Its rest: the cursor to the start marker, and no markers.
AfterExcision(d, x) ==
    [x EXCEPT !.cur = At(Smaller(d.sel.s.y, Len(x.ls)), d.sel.s.x), !.sel = NoSel]

DeleteSelection ==
    LET x == Excised(Working) IN
    /\ BlockReady(Working)
    /\ "block" \in Ops
    /\ Commit("none", x, AfterExcision(Working, x).cur, NoSel)

\* insert_block
InsertBlock(d, block, whole) ==
    LET y == d.cur.y  x == d.cur.x  n == Len(block)
        inserted(k) == [i \in 1..k |-> Act("insert", y + i, <<>>)]
    IN IF whole
       THEN [d EXCEPT !.ls = Splice(@, y, y - 1, block),
                      !.acts = @ \o [i \in 1..n |-> Act("insert", y + i - 1, <<>>)],
                      !.cur = At(y + n - 1, Len(block[n]))]
       ELSE LET r == Record(d, "replace", y)
                head == Before(d.ls[y], x)
                tail == After(d.ls[y], x)
            IN IF n = 1
               THEN [r EXCEPT !.ls[y] = head \o block[1] \o tail,
                              !.cur = At(y, x + Len(block[1]))]
               ELSE [r EXCEPT !.ls = Splice(@, y, y, <<head \o block[1]>> \o Rows(block, 2, n - 1)
                                                       \o <<block[n] \o tail>>),
                              !.acts = @ \o inserted(n - 1)
                                         \o <<Act("replace", y + n - 1, block[n])>>,
                              !.cur = At(y + n - 1, Len(block[n]))]

\* Where copy_selection and move_selection put the markers: around the block.
Around(p, block, whole) ==
    [s |-> p,
     e |-> At(p.y + Len(block) - 1,
              IF Len(block) = 1 /\ ~whole THEN p.x + Len(block[1]) ELSE Len(Last(block)))]

CopySelection ==
    LET whole == WholeLines(Working) /\ cur.x = 0
        block == Block(Working)
    IN /\ BlockReady(Working)
       /\ "copy" \in Ops
       /\ Commit("none", InsertBlock(Working, block, whole), cur, Around(cur, block, whole))

\* Mutant: the target is not moved up by the rows that are taken out above it.
MoveTargetUnshifted(d) == d.cur

\* Where the block goes once it is taken out of the text.
MoveTarget(d) ==
    LET s == d.sel.s  e == d.sel.e  t == d.cur
        gone == IF WholeLines(d) THEN e.y - s.y + 1 ELSE e.y - s.y
    IN IF t.y > e.y THEN At(t.y - gone, t.x)
       ELSE IF t.y = e.y /\ t.x >= e.x THEN At(s.y, s.x + (t.x - e.x))
       ELSE IF Precedes(t, s) THEN t ELSE s

MoveSelection ==
    LET d == Working
        t == MoveTarget(d)
        x == Excised(d)
        y == Smaller(t.y, Len(x.ls))
        f == At(y, Smaller(t.x, Len(x.ls[y])))
        whole == WholeLines(d) /\ f.x = 0
    IN /\ BlockReady(d)
       /\ "copy" \in Ops
       /\ Commit("none", InsertBlock([x EXCEPT !.cur = f], Block(d), whole),
                 f, Around(f, Block(d), whole))

-----------------------------------------------------------------------------
(* Formatting, agent edits, and the lines of a running command.            *)

\* format_range and format_paragraph: the rows from..to are replaced by those
\* the formatter makes of them, joined or taken apart.  No marker is adjusted.
\* format_range reads the rows in one locked section and replaces them in another, with
\* only their bounds checked again; the two are one step here, so that what an edit in
\* between loses is not modelled.
Formatted(rows) ==
    {<<FlattenSeq(rows)>>} \cup {[i \in 1..Len(r) |-> <<r[i]>>] : r \in {FlattenSeq(rows)} \ {<<>>}}

FormatRange ==
    \E from \in DOMAIN lines : \E to \in from..Len(lines) :
      \E new \in Formatted(Rows(lines, from, to)) :
        LET n == Len(new) IN
        Edit("format", "none",
          [Working EXCEPT !.ls = Splice(@, from, to, new),
                          !.acts = [i \in 1..n |-> Act("insert", from + i - 1, <<>>)]
                                   \o [i \in 1..(to - from + 1) |->
                                         Act("delete", from + n, lines[from + i - 1])],
                          !.cur = At(from, 0)])

\* One edit of apply_external_edits_json: gone rows at row y are removed and the
\* rows new inserted there; the kind "add" removes none.
Shifted(p, y, gone, added) ==
    LET q == IF gone = 0 THEN p
             ELSE IF p.y >= y + gone THEN At(p.y - gone, p.x)
             ELSE IF p.y >= y THEN At(y, 0) ELSE p
    IN IF added > 0 /\ q.y > y THEN At(q.y + added, q.x) ELSE q

ApplyEdit(d, e) ==
    LET last == IF e.kind = "add" THEN Len(d.ls) + 1 ELSE Len(d.ls)
        gone == IF e.kind = "add" THEN 0 ELSE Smaller(e.gone, Len(d.ls) + 1 - e.y)
        Shift(p) == IF p = NoMark THEN p ELSE Shifted(p, e.y, gone, Len(e.new))
    IN IF e.y > last THEN d
       ELSE [d EXCEPT !.ls = Splice(@, e.y, e.y + gone - 1, e.new),
                      !.acts = @ \o [i \in 1..gone |-> Act("delete", e.y, d.ls[e.y + i - 1])]
                                 \o [i \in 1..Len(e.new) |-> Act("insert", e.y + i - 1, <<>>)],
                      !.cur = Shift(@),
                      !.sel = [s |-> Shift(@.s), e |-> Shift(@.e)]]

\* clamp_coords
Clamped(ls, p) ==
    IF p = NoMark THEN p
    ELSE LET y == Smaller(p.y, Len(ls)) IN At(y, Smaller(p.x, Len(ls[y])))

\* The edits of one proposal come in the order of descending lines.  When all
\* lines are removed the clamping reads lines_[-1].
Proposed(es) ==
    LET upTo[k \in 0..Len(es)] == IF k = 0 THEN Working ELSE ApplyEdit(upTo[k - 1], es[k])
    IN upTo[Len(es)]

ApplyAgentEdits ==
    \E es \in AgentEdits :
      LET d == Proposed(es) IN
      /\ "agent" \in Ops
      /\ IF d.ls = <<>>
         THEN crashed' = TRUE /\ UNCHANGED <<lines, cur, sel, stacks, edits>>
         ELSE LET c == Clamped(d.ls, d.cur)
                  m == [s |-> Clamped(d.ls, d.sel.s), e |-> Clamped(d.ls, d.sel.e)]
              IN Commit("none", [d EXCEPT !.cur = c, !.sel = m], c, m)

-----------------------------------------------------------------------------
(* undo() and redo(): document_undo.cpp.                                   *)

\* One recorded action taken back, in the loop both methods run.  The inverse is
\* recorded in front, which is the std::reverse after the loop.
Revertible(ls, a) ==
    IF a.kind = "delete" THEN a.y \in 1..(Len(ls) + 1) ELSE a.y \in DOMAIN ls

\* Mutant: the inverse of an insertion does not save the line.
RevertForgetting(d, a) ==
    IF ~Revertible(d.ls, a) THEN [d EXCEPT !.bad = TRUE]
    ELSE CASE a.kind = "replace" ->
                [d EXCEPT !.ls[a.y] = a.saved, !.acts = <<Act("replace", a.y, d.ls[a.y])>> \o @]
           [] a.kind = "insert" ->
                [d EXCEPT !.ls = Splice(@, a.y, a.y, <<>>),
                          !.acts = <<Act("delete", a.y, <<>>)>> \o @]
           [] OTHER ->
                [d EXCEPT !.ls = Splice(@, a.y, a.y - 1, <<a.saved>>),
                          !.acts = <<Act("insert", a.y, <<>>)>> \o @]

Revert(d, a) ==
    IF d.bad \/ ~Revertible(d.ls, a) THEN [d EXCEPT !.bad = TRUE]
    ELSE CASE a.kind = "replace" ->
                [d EXCEPT !.ls[a.y] = a.saved,
                          !.acts = <<Act("replace", a.y, d.ls[a.y])>> \o @]
           [] a.kind = "insert" ->
                LET rest == Splice(d.ls, a.y, a.y, <<>>) IN
                [d EXCEPT !.ls = rest,
                          !.sel = ForLineDelete(@, rest, a.y),
                          !.acts = <<Act("delete", a.y, d.ls[a.y])>> \o @]
           [] OTHER ->
                [d EXCEPT !.ls = Splice(@, a.y, a.y - 1, <<a.saved>>),
                          !.acts = <<Act("insert", a.y, <<>>)>> \o @]

Untouched == [ls |-> lines, sel |-> sel, acts |-> <<>>, bad |-> FALSE]

\* Mutant: the loop runs forwards.
RevertedForwards(g) ==
    LET after[k \in 0..Len(g.acts)] == IF k = 0 THEN Untouched ELSE Revert(after[k - 1], g.acts[k])
    IN after[Len(g.acts)]

Reverted(g) ==
    LET n == Len(g.acts)
        after[k \in 0..n] == IF k = 0 THEN Untouched ELSE Revert(after[k - 1], g.acts[n + 1 - k])
    IN after[n]

InverseGroup(g, d) ==
    [acts |-> d.acts, before |-> g.after, after |-> g.before, type |-> "none", was |-> lines]

\* Mutant: the cursor stays where it is.
TakeBackStaying(g) ==
    /\ lines' = Reverted(g).ls
    /\ sel' = Reverted(g).sel
    /\ crashed' = (Reverted(g).bad \/ OffText(Reverted(g).ls, cur, Reverted(g).sel))
    /\ UNCHANGED <<cur, edits>>

\* The newest group of one stack is taken back and its inverse put on the other.
TakeBack(g) ==
    /\ lines' = Reverted(g).ls
    /\ sel' = Reverted(g).sel
    /\ cur' = g.before
    /\ crashed' = (Reverted(g).bad \/ OffText(Reverted(g).ls, g.before, Reverted(g).sel))
    /\ UNCHANGED edits

Undo ==
    /\ "undo" \in Ops
    /\ undoStack # <<>>
    /\ TakeBack(Last(undoStack))
    /\ undoStack' = Front(undoStack)
    /\ redoStack' = Append(redoStack, InverseGroup(Last(undoStack), Reverted(Last(undoStack))))

Redo ==
    /\ "redo" \in Ops
    /\ redoStack # <<>>
    /\ TakeBack(Last(redoStack))
    /\ redoStack' = Front(redoStack)
    /\ undoStack' = Append(undoStack, InverseGroup(Last(redoStack), Reverted(Last(redoStack))))

\* get_lines_at_undo: the same loop on a copy of the text, which skips an index
\* that is out of range.
RevertText(ls, a) ==
    CASE a.kind = "replace" -> IF a.y \in DOMAIN ls THEN [ls EXCEPT ![a.y] = a.saved] ELSE ls
      [] a.kind = "insert" -> IF a.y \in DOMAIN ls THEN Splice(ls, a.y, a.y, <<>>) ELSE ls
      [] OTHER -> IF a.y <= Len(ls) + 1 THEN Splice(ls, a.y, a.y - 1, <<a.saved>>) ELSE ls

TextBefore(ls, acts) ==
    LET n == Len(acts)
        after[k \in 0..n] == IF k = 0 THEN ls ELSE RevertText(after[k - 1], acts[n + 1 - k])
    IN after[n]

LinesAtUndo(k) ==
    LET shown[i \in 0..k] ==
          IF i = 0 THEN lines
          ELSE TextBefore(shown[i - 1], undoStack[Len(undoStack) + 1 - i].acts)
    IN shown[k]

-----------------------------------------------------------------------------
Init ==
    /\ lines = Text
    /\ cur = At(1, 0)
    /\ sel = NoSel
    /\ undoStack = <<>> /\ redoStack = <<>>
    /\ crashed = FALSE
    /\ edits = 0

Typing   == InsertChar \/ SplitLine \/ InsertText \/ ReplaceCurrent
Deleting == Backspace \/ DeleteChar \/ CutRow \/ JoinByWord \/ DeleteLine
Marking  == MoveCursor \/ SetSelectionStart \/ SetSelectionEnd \/ ClearSelection
Blocks   == DeleteSelection \/ CopySelection \/ MoveSelection

Next ==
    /\ ~crashed
    /\ Typing \/ Deleting \/ Marking \/ Blocks \/ FormatRange \/ ApplyAgentEdits \/ Undo \/ Redo

Spec == Init /\ [][Next]_vars
=============================================================================
