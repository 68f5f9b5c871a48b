-------------------------- MODULE MultiCursorProps --------------------------
(* What editing at several carets promises, over MultiCursor. *)
EXTENDS MultiCursor

D == INSTANCE DocumentProps

\* The carets in the text, by index, and whether they are in the order of the text,
\* no two in one place (words and carets that are moved together may not be).
InPlace  == {i \in DOMAIN carets : carets[i].y \in DOMAIN lines /\ carets[i].x \in 0..Len(lines[carets[i].y])}
AllInPlace == InPlace = DOMAIN carets
Ordered    == \A i \in 2..Len(carets) : FileOrder(carets[i - 1], carets[i])

Start(k) == IF Spanning(k) THEN k.s ELSE k.x

\* The characters of a row, by index, that the keystroke F removes, and the row
\* without them.
Removed(F(_), y)   == UNION {F(carets[i]) : i \in {j \in DOMAIN carets : carets[j].y = y}}
Without(row, gone) ==
    FoldLeft(LAMBDA kept, i : IF i \in gone THEN kept ELSE Append(kept, row[i]),
             <<>>, [i \in DOMAIN row |-> i])

Selected(k) == IF Spanning(k) THEN (k.s + 1)..k.e ELSE {}
Preceding(k) == IF Spanning(k) THEN Selected(k) ELSE {k.x} \ {0}
Following(k) == IF Spanning(k) THEN Selected(k) ELSE {k.x + 1} \cap DOMAIN lines[k.y]

\* Where a caret stands once the characters are gone.
Fallen(k, F(_)) == Start(k) - Cardinality({i \in Removed(F, k.y) : i <= Start(k)})

RemovesAtOnce(F(_)) ==
    /\ \A y \in DOMAIN lines : lines'[y] = Without(lines[y], Removed(F, y))
    /\ carets' = [i \in DOMAIN carets |-> Point(carets[i], Fallen(carets[i], F))]

\* How many carets of its row a caret is behind, itself included.
RankOf(i) == Cardinality({j \in 1..i : carets[j].y = carets[i].y})

TypesAtOnce ==
    /\ carets' = [i \in DOMAIN carets |-> Point(carets[i], Fallen(carets[i], Selected) + RankOf(i))]
    /\ \A i \in DOMAIN carets : lines'[carets[i].y][carets'[i].x] = NextChar
    /\ \A y \in DOMAIN lines :
         SelectSeq(lines'[y], LAMBDA c : c # NextChar) = Without(lines[y], Removed(Selected, y))

\* MultiAtOnce: a keystroke at carets in order has the effect of all carets at once,
\* whatever their number on a line: typing removes the selected words and puts the
\* character once in front of each caret, backspace and delete remove the one character
\* next to each of them, or the selected words.
MultiAtOnce ==
    [][AllInPlace /\ Ordered =>
         /\ MultiType => TypesAtOnce
         /\ MultiBackspace => RemovesAtOnce(Preceding)
         /\ MultiDelete => RemovesAtOnce(Following)
      ]_multiVars

\* MultiUndo: the keystrokes at all lines, and their merging with what was typed
\* before, are taken back together (docs/design.md: compound atomic undo).
MultiUndo == D!UndoTakesBack

\* SelectsAlike: carets that stand at one place within the occurrences they were
\* chosen on are joined by carets at the same place (docs/keybindings.md: select
\* the next occurrence of the word), if the first of them is on the first
\* occurrence of its line.
Alike(occs, cs) ==
    \E off \in 0..(occs[1].e - occs[1].s) : \A k \in DOMAIN cs : \E i \in DOMAIN occs :
        cs[k].y = occs[i].y /\ cs[k].x = occs[i].s + off

FirstOnItsRow(occs) == carets = <<>> \/ FirstOffset(occs) \in 0..(occs[1].e - occs[1].s)

SelectsAlike ==
    [][SelectAll \/ SelectFirst \/ SelectNext =>
         LET occs == Occs IN Alike(occs, carets) /\ FirstOnItsRow(occs) => Alike(occs, carets')
      ]_multiVars
=============================================================================
