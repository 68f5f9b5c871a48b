------------------------------ MODULE HexEdit ------------------------------
(* The hex editor: its keys (ui/hex_editor_window.cpp) and the undo of a binary document
   (binary_document.cpp).  A byte is a pair of nibbles; one typed nibble leaves a group
   of changes open, which the second one, or any other key, closes. *)
EXTENDS Naturals, Sequences, SequencesExt

CONSTANTS Nibbles, \* values of a nibble
          Loaded,  \* the bytes of the file at first
          MaxKeys, \* bound: keys that change bytes
          MaxSize  \* bound: bytes

VARIABLES
  bytes,    \* data_
  onFile,   \* the file
  base,     \* history: what was loaded last
  open,     \* binary_current_group_
  undoable, \* binary_undo_stack_
  redoable, \* binary_redo_stack_
  offset,   \* cursor_offset_
  nibble,   \* nibble_focus_
  hexFocus, \* hex_focus_
  keys

hexVars == <<bytes, onFile, base, open, undoable, redoable, offset, nibble, hexFocus, keys>>

Zero == <<0, 0>>

ASSUME HexAssumption == 0 \in Nibbles /\ Loaded \in Seq(Nibbles \X Nibbles)

-----------------------------------------------------------------------------
(* Edits of bytes; [data, group] with the changes recorded in the open group *)

SetByte(e, i, b) ==
    IF i > Len(e.data) \/ e.data[i] = b THEN e
    ELSE [data |-> [e.data EXCEPT ![i] = b],
          group |-> Append(e.group, [at |-> i, old |-> e.data[i], new |-> b, grows |-> FALSE])]

AppendByte(e, b) ==
    [data |-> Append(e.data, b),
     group |-> Append(e.group, [at |-> Len(e.data) + 1, old |-> Zero, new |-> b, grows |-> TRUE])]

\* A key at the end of the data makes a byte first.
Room == IF offset = Len(bytes) THEN AppendByte([data |-> bytes, group |-> open], Zero)
        ELSE [data |-> bytes, group |-> open]

\* break_undo_coalescing, of an open group g
Closed(g) ==
    IF g = <<>> THEN UNCHANGED <<undoable, redoable>> /\ open' = g
    ELSE undoable' = Append(undoable, g) /\ redoable' = <<>> /\ open' = <<>>

\* Applying a change, and taking it back.
Reapply(data, c) == IF c.grows THEN Append(data, c.new)
                    ELSE IF c.at <= Len(data) THEN [data EXCEPT ![c.at] = c.new] ELSE data
Revoke(c, data)  == IF c.grows THEN IF data = <<>> THEN data ELSE Front(data)
                    ELSE IF c.at <= Len(data) THEN [data EXCEPT ![c.at] = c.old] ELSE data
Reapplied(data, g) ==
    LET after[k \in 0..Len(g)] == IF k = 0 THEN data ELSE Reapply(after[k - 1], g[k])
    IN  after[Len(g)]
Revoked(data, g) ==
    LET without[k \in 0..Len(g)] ==
          IF k = 0 THEN data ELSE Revoke(g[Len(g) + 1 - k], without[k - 1])
    IN  without[Len(g)]

-----------------------------------------------------------------------------
(* Keys *)

\* A hexadecimal digit: the high nibble, then the low one, which closes the group.
Digit(n) ==
    /\ hexFocus /\ offset <= Len(bytes) /\ keys < MaxKeys /\ keys' = keys + 1
    /\ offset = Len(bytes) => Len(bytes) < MaxSize
    /\ LET room == Room
           b == room.data[offset + 1]
           e == SetByte(room, offset + 1, IF nibble = 0 THEN <<n, b[2]>> ELSE <<b[1], n>>)
       IN /\ bytes' = e.data
          /\ IF nibble = 0 THEN open' = e.group /\ nibble' = 1 /\ UNCHANGED <<offset, undoable, redoable>>
             ELSE Closed(e.group) /\ nibble' = 0 /\ offset' = offset + 1
    /\ UNCHANGED <<onFile, base, hexFocus>>

Character(b) ==
    /\ ~hexFocus /\ offset <= Len(bytes) /\ keys < MaxKeys /\ keys' = keys + 1
    /\ offset = Len(bytes) => Len(bytes) < MaxSize
    /\ LET e == SetByte(Room, offset + 1, b)
       IN bytes' = e.data /\ Closed(e.group) /\ offset' = offset + 1
    /\ UNCHANGED <<onFile, base, nibble, hexFocus>>

Left == \* and backspace, which deletes nothing
    /\ IF hexFocus /\ nibble = 1 THEN nibble' = 0 /\ UNCHANGED offset
       ELSE IF offset = 0 THEN UNCHANGED <<nibble, offset>>
       ELSE offset' = offset - 1 /\ nibble' = IF hexFocus THEN 1 ELSE nibble
    /\ Closed(open)
    /\ UNCHANGED <<bytes, onFile, base, hexFocus, keys>>

Right ==
    /\ IF hexFocus /\ nibble = 0 THEN nibble' = 1 /\ UNCHANGED offset
       ELSE IF offset >= Len(bytes) THEN UNCHANGED <<nibble, offset>>
       ELSE offset' = offset + 1 /\ nibble' = IF hexFocus THEN 0 ELSE nibble
    /\ Closed(open)
    /\ UNCHANGED <<bytes, onFile, base, hexFocus, keys>>

\* Up, down, page up and down; home and end.
Leaps(to, n) ==
    /\ to <= Len(bytes) /\ offset' = to /\ nibble' = n
    /\ Closed(open)
    /\ UNCHANGED <<bytes, onFile, base, hexFocus, keys>>

Tab ==
    /\ hexFocus' = ~hexFocus /\ nibble' = 0
    /\ Closed(open)
    /\ UNCHANGED <<bytes, onFile, base, offset, keys>>

-----------------------------------------------------------------------------
(* Undo, redo, save and load, from the menu: the cursor stays *)

Undo ==
    /\ IF open = <<>> /\ undoable = <<>> THEN UNCHANGED <<bytes, undoable, redoable, open>>
       ELSE LET g == IF open # <<>> THEN open ELSE Last(undoable) IN
            /\ bytes' = Revoked(bytes, g)
            /\ undoable' = IF open # <<>> THEN undoable ELSE Front(undoable)
            /\ redoable' = IF open # <<>> THEN <<g>> ELSE Append(redoable, g)
            /\ open' = <<>>
    /\ UNCHANGED <<onFile, base, offset, nibble, hexFocus, keys>>

\* Mutant: redo forgets the open group.
RedoneOpen == <<>>

\* redo leaves the open group open: it will be closed above what is redone.
RedoneGroup == open

Redo ==
    /\ redoable # <<>>
    /\ bytes' = Reapplied(bytes, Last(redoable))
    /\ undoable' = Append(undoable, Last(redoable)) /\ redoable' = Front(redoable)
    /\ open' = RedoneGroup
    /\ UNCHANGED <<onFile, base, offset, nibble, hexFocus, keys>>

\* A save leaves the open group open too.
SavesBytes ==
    /\ onFile' = bytes
    /\ UNCHANGED <<bytes, base, open, undoable, redoable, offset, nibble, hexFocus, keys>>

LoadsBytes ==
    /\ bytes' = onFile /\ base' = onFile /\ open' = <<>> /\ undoable' = <<>> /\ redoable' = <<>>
    /\ UNCHANGED <<onFile, offset, nibble, hexFocus, keys>>

-----------------------------------------------------------------------------
HexInit ==
    /\ bytes = Loaded /\ onFile = Loaded /\ base = Loaded /\ open = <<>> /\ undoable = <<>> /\ redoable = <<>>
    /\ offset = 0 /\ nibble = 0 /\ hexFocus = TRUE /\ keys = 0

HexNext ==
    \/ \E n \in Nibbles : Digit(n) \/ \E m \in Nibbles : Character(<<n, m>>)
    \/ Left \/ Right \/ Tab \/ Undo \/ Redo \/ SavesBytes \/ LoadsBytes
    \/ \E to \in 0..MaxSize, n \in {0, 1} : Leaps(to, n)

HexSpec == HexInit /\ [][HexNext]_hexVars

-----------------------------------------------------------------------------
\* UndoesToLoaded: undoing everything gives the bytes that were loaded, however typed
\* nibbles, undos and redos followed each other.
AllUndone ==
    LET n == Len(undoable)
        undone[k \in 0..n] ==
          IF k = 0 THEN Revoked(bytes, open) ELSE Revoked(undone[k - 1], undoable[n + 1 - k])
    IN  undone[n]
UndoesToLoaded == AllUndone = base
=============================================================================
