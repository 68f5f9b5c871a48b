------------------------------ MODULE CodeReview ------------------------------
(* Review comments on the lines of an open file (codereview_manager.cpp).  The editing
   commands tell the manager of each line they insert or delete (document_edit.cpp,
   document.cpp); undo, redo and the block commands do not.  Loading and saving the file
   compare each comment with the text of its line.

   A row is its line object and its text, a sequence of words; a word stands for five
   characters or more, so that containing it is a match. *)
EXTENDS Naturals, SequencesExt

CONSTANTS ReviewText,  \* the rows of the file
          MaxComments, \* bound: comments made
          MaxChanged   \* bound: commands and other steps

\* A file is a sequence of rows, a row a sequence of words.
ASSUME ReviewTextAssumption == ReviewText \in Seq(Seq(Nat))

Live(c) == c.state # "stale"

VARIABLES
  rows,     \* lines_: records [line, text]
  made,     \* line objects made so far
  earlier,  \* what one undo gives back: rows from before the last command
  file,     \* the file's rows
  comments, \* items_: [on (line_number), text (line_content), state, line (history: the
            \* line object it is on as far as the manager was told, or 0)]
  review,   \* review.json
  created, changed

reviewVars == <<rows, made, earlier, file, comments, review, created, changed>>

TextsOf(rs)  == [y \in DOMAIN rs |-> rs[y].text]
Opened(ts)   == [y \in DOMAIN ts |-> [line |-> y, text |-> ts[y]]]
NewLine      == made + 1
Counted      == changed < MaxChanged /\ changed' = changed + 1

-----------------------------------------------------------------------------
(* The manager *)

\* Mutant: the comment on the row itself stays.
LineInsertedBehind(cs, y) ==
    [k \in DOMAIN cs |-> IF Live(cs[k]) /\ cs[k].on > y THEN [cs[k] EXCEPT !.on = @ + 1] ELSE cs[k]]

\* on_line_inserted at row y, on_line_deleted of row y.
LineInserted(cs, y) ==
    [k \in DOMAIN cs |-> IF Live(cs[k]) /\ cs[k].on >= y THEN [cs[k] EXCEPT !.on = @ + 1] ELSE cs[k]]

LineDeleted(cs, y) ==
    [k \in DOMAIN cs |->
        IF ~Live(cs[k]) \/ cs[k].on < y THEN cs[k]
        ELSE IF cs[k].on = y THEN [cs[k] EXCEPT !.state = "stale"]
        ELSE [cs[k] EXCEPT !.on = @ - 1]]

Within(a, b)  == \E i, j \in DOMAIN b : a = SubSeq(b, i, j)
Matching(a, b) == a # <<>> /\ b # <<>> /\ (Within(a, b) \/ Within(b, a))

\* verify_line_contents: a comment that matches the text of its row is on that row.
Verified(cs, rs) ==
    [k \in DOMAIN cs |->
        IF ~Live(cs[k]) \/ cs[k].on = 0 THEN cs[k]
        ELSE IF cs[k].on \in DOMAIN rs /\ Matching(cs[k].text, rs[cs[k].on].text)
             THEN [cs[k] EXCEPT !.line = rs[cs[k].on].line]
             ELSE [cs[k] EXCEPT !.state = "stale", !.line = 0]]

Verify(cs, rs) ==
    /\ comments' = Verified(cs, rs)
    /\ review' = IF \E k \in DOMAIN cs : cs[k].state # comments'[k].state THEN comments' ELSE review

\* A command the manager is not told of: where the comments are is anybody's guess.
Untold(cs) == [k \in DOMAIN cs |-> [cs[k] EXCEPT !.line = 0]]

\* create_code_review_item: the text is the one the agent gives, else that of the line in
\* the file, not in the editor.
CreatesComment(y, given) ==
    /\ created < MaxComments /\ created' = created + 1
    /\ LET text == IF given = <<>> /\ y \in DOMAIN file THEN file[y] ELSE given
           line == IF TextsOf(rows) = file /\ y \in DOMAIN rows THEN rows[y].line ELSE 0
       IN comments' = Append(comments, [on |-> y, text |-> text, state |-> "new", line |-> line])
    /\ review' = comments'
    /\ UNCHANGED <<rows, made, earlier, file, changed>>

\* A state set from outside: between stale and live the place is not followed.
Becomes(k, state) ==
    /\ comments' = [comments EXCEPT ![k].state = state,
                                    ![k].line = IF Live(comments[k]) /\ state # "stale" THEN @ ELSE 0]
    /\ review' = comments' /\ Counted
    /\ UNCHANGED <<rows, made, earlier, file, created>>

Updates(k, state) == Becomes(k, state)

Confirms(k) ==
    \/ comments[k].state = "new" /\ Becomes(k, "confirmed")
    \/ comments[k].state = "resolved" /\ Becomes(k, "verified-fixed")

\* What is verified is not resolved again; what is stale is, and is live then.
Resolves(k) == comments[k].state # "verified-fixed" /\ Becomes(k, "resolved")

ClearsAll ==
    /\ comments # <<>> /\ Counted
    /\ comments' = <<>> /\ review' = <<>>
    /\ UNCHANGED <<rows, made, earlier, file, created>>

-----------------------------------------------------------------------------
(* The document's commands *)

RowOut(rs, y)      == SubSeq(rs, 1, y - 1) \o SubSeq(rs, y + 1, Len(rs))
RowIn(rs, y, row) == SubSeq(rs, 1, y - 1) \o <<row>> \o SubSeq(rs, y, Len(rs))
Row(line, text)     == [line |-> line, text |-> text]

Commands(rs, cs, lines) ==
    /\ Counted /\ rows' = rs /\ comments' = cs /\ made' = made + lines /\ earlier' = rows
    /\ UNCHANGED <<file, review, created>>

\* Typing in a row, or deleting from it.
EditsRow(y, text) == Commands([rows EXCEPT ![y].text = text], comments, 0)

\* split_line and a line break in insert_text: the line keeps what is before the cursor.
Splits(y, x) ==
    LET t == rows[y].text IN
    Commands(RowIn([rows EXCEPT ![y].text = SubSeq(t, 1, x)], y + 1, Row(NewLine, SubSeq(t, x + 1, Len(t)))),
             LineInserted(comments, y + 1), 1)

\* backspace, delete_char and the deletion of words at the seam of rows y and y + 1.
JoinsRows(y) ==
    /\ y < Len(rows)
    /\ Commands(RowOut([rows EXCEPT ![y].text = @ \o rows[y + 1].text], y + 1), LineDeleted(comments, y + 1), 0)

\* delete_line; the only line is emptied.
DeletesLine(y) ==
    IF Len(rows) = 1 THEN Commands([rows EXCEPT ![1].text = <<>>], comments, 0)
    ELSE Commands(RowOut(rows, y), LineDeleted(comments, y), 0)

\* apply_external_edits_json, one edit: rows y..y+n-1 are removed, one by one; a row is
\* added before y; or both.
RowsOut(y, n) ==
    LET out[i \in 0..n] ==
          IF i = 0 THEN [rows |-> rows, comments |-> comments]
          ELSE [rows |-> RowOut(out[i - 1].rows, y), comments |-> LineDeleted(out[i - 1].comments, y)]
    IN  out[n]

AgentRemoves(y, n) ==
    /\ y + n - 1 <= Len(rows) /\ n < Len(rows)
    /\ LET r == RowsOut(y, n) IN Commands(r.rows, r.comments, 0)

AgentAdds(y, text) == Commands(RowIn(rows, y, Row(NewLine, text)), LineInserted(comments, y), 1)

AgentReplaces(y, n, text) ==
    /\ y + n - 1 <= Len(rows)
    /\ LET r == RowsOut(y, n)
       IN  Commands(RowIn(r.rows, y, Row(NewLine, text)), LineInserted(r.comments, y), 1)

\* Block deletion joins the ends of rows a and b and tells nobody; so do moves.
BlockDeletes(a, b) ==
    /\ a < b
    /\ Commands(SubSeq(rows, 1, a) \o SubSeq(rows, b + 1, Len(rows)), Untold(comments), 0)

\* undo() and redo(): the rows of earlier, and nobody is told.
TakesBack ==
    /\ earlier # rows /\ Commands(earlier, Untold(comments), 0)

-----------------------------------------------------------------------------
(* Files *)

\* save_to_file
SavesRows ==
    /\ Counted /\ file' = TextsOf(rows)
    /\ Verify(comments, rows)
    /\ UNCHANGED <<rows, made, earlier, created>>

\* Another program, or a commit of git that is checked out, takes a row away.
OthersWrite(y) ==
    /\ Counted /\ Len(file) > 1 /\ file' = RowOut(file, y)
    /\ UNCHANGED <<rows, made, earlier, comments, review, created>>

\* load_from_file: the document has new lines.
LoadsRows(cs) ==
    /\ rows' = Opened(file) /\ made' = Len(file) /\ earlier' = Opened(file)
    /\ Verify(Untold(cs), Opened(file))
    /\ UNCHANGED <<file, created>>

ReloadsRows == Counted /\ TextsOf(rows) # file /\ LoadsRows(comments)

\* The editor ends and starts again: load_project reads review.json, then the document
\* is opened.
RestartsEditor == Counted /\ LoadsRows(review)

-----------------------------------------------------------------------------
ReviewInit ==
    /\ rows = Opened(ReviewText) /\ made = Len(ReviewText) /\ earlier = rows
    /\ file = ReviewText /\ comments = <<>> /\ review = <<>> /\ created = 0 /\ changed = 0

NewText == <<0>>

ManagerNext ==
    \/ \E y \in 0..Len(file) + 1, given \in {<<>>, NewText} : CreatesComment(y, given)
    \/ \E k \in DOMAIN comments :
         \/ \E state \in {"new", "stale"} : Updates(k, state)
         \/ Confirms(k) \/ Resolves(k)
    \/ ClearsAll

EditNext ==
    \/ \E y \in DOMAIN rows :
         \/ \E text \in {<<>>, NewText \o rows[y].text} : EditsRow(y, text)
         \/ \E x \in 0..Len(rows[y].text) : Splits(y, x)
         \/ JoinsRows(y) \/ DeletesLine(y)
         \/ \E n \in 1..2 : AgentRemoves(y, n) \/ AgentReplaces(y, n, NewText)
         \/ \E b \in DOMAIN rows : BlockDeletes(y, b)
    \/ \E y \in 1..Len(rows) + 1 : AgentAdds(y, NewText)
    \/ TakesBack

StoreNext == SavesRows \/ ReloadsRows \/ RestartsEditor \/ \E y \in DOMAIN file : OthersWrite(y)

ReviewNext == ManagerNext \/ EditNext \/ StoreNext
ReviewSpec == ReviewInit /\ [][ReviewNext]_reviewVars

-----------------------------------------------------------------------------
\* CommentFollows: as long as the manager is told of the changes, a live comment is on
\* the line object it was made on, whatever is inserted, split, joined and removed around
\* it, and a comment is stale only when that line is gone (src/src/document.md:24, 29:
\* listeners "automatically adjust line annotations as the user inserts or deletes lines").
CommentFollows ==
    \A k \in DOMAIN comments : LET c == comments[k] IN
        c.line # 0 =>
          IF Live(c) THEN c.on \in DOMAIN rows /\ rows[c.on].line = c.line
          ELSE \A y \in DOMAIN rows : rows[y].line # c.line
=============================================================================
