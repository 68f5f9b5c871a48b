--------------------------- MODULE DocumentProofs ---------------------------
(***************************************************************************)
(* The undo history of Document, for any text, commands and proposals:     *)
(* it stays within max_undo_steps_, and undo takes everything back.        *)
(*                                                                         *)
(* For the limit no step of the argument looks at the text: a command      *)
(* leaves the stacks alone, breaks the coalescing, closes a group, undoes  *)
(* or redoes (StackSteps), and each of these keeps the sum of the two      *)
(* lengths within the limit.                                               *)
(*                                                                         *)
(* For undo the invariant HistoryKept says that the groups of the stack    *)
(* lead back from one text to another; each command keeps it (...Keeps).   *)
(*                                                                         *)
(* For the cursor and the markers the invariant is PlacesKept, of the      *)
(* document and of the places its groups keep (...Places).                 *)
(*                                                                         *)
(* For redo the invariant is RedoKept, that the groups of both stacks are  *)
(* of a kind that may be reverted in either order (...Turns).              *)
(***************************************************************************)
EXTENDS TextProofs

\* The stacks are sequences of groups of some kind, and within the limit.
Stacked(S) == undoStack \in Seq(S) /\ redoStack \in Seq(S)
HistoryInv == (\E S : Stacked(S)) /\ HistoryBounded

Unrecorded == UNCHANGED stacks
Closes     == \E g : undoStack' = Pushed(undoStack, g) /\ redoStack' = <<>>
Breaks     == undoStack' = Uncoalesced(undoStack) /\ UNCHANGED redoStack

\* A command that ends in end_edit_group closes a group or records nothing.
LEMMA CommitCloses ==
    ASSUME NEW type, NEW d, NEW c, NEW m, Commit(type, d, c, m)
    PROVE  Unrecorded \/ Closes
BY Zenon DEF Commit, Store, Unrecorded, Closes

\* So does each editing command.
LEMMA EditCloses ==
    ASSUME NEW op, NEW type, NEW d, Edit(op, type, d)
    PROVE  Unrecorded \/ Closes
BY CommitCloses, Zenon DEF Edit

\* What the commands do to the two stacks.
LEMMA StackSteps ==
    ASSUME Next
    PROVE  Unrecorded \/ Closes \/ Breaks \/ Undo \/ Redo
<1>1. CASE Typing
  BY <1>1, EditCloses, Zenon DEF Typing, InsertChar, SplitLine, InsertText, ReplaceCurrent
<1>2. CASE Deleting
  BY <1>2, EditCloses, Zenon DEF Deleting, Backspace, DeleteChar, CutRow, JoinByWord, DeleteLine
<1>3. CASE Marking
  BY <1>3, Zenon DEF Marking, MoveCursor, SetSelectionStart, SetSelectionEnd, ClearSelection,
                     Settle, Breaks
<1>4. CASE Blocks
  BY <1>4, CommitCloses, Zenon DEF Blocks, DeleteSelection, CopySelection, MoveSelection
<1>5. CASE FormatRange
  BY <1>5, EditCloses, Zenon DEF FormatRange
<1>6. CASE ApplyAgentEdits
  BY <1>6, CommitCloses, Zenon DEF ApplyAgentEdits, Unrecorded
<1>7. QED
  BY <1>1, <1>2, <1>3, <1>4, <1>5, <1>6, Zenon DEF Next

-----------------------------------------------------------------------------
\* A sequence over S is one over every larger set.
LEMMA Wider ==
    ASSUME NEW S, NEW T, S \subseteq T, NEW s \in Seq(S)
    PROVE  s \in Seq(T)
OBVIOUS

\* The last element replaced by g.
LEMMA LastReplaced ==
    ASSUME NEW S, NEW s \in Seq(S), s # <<>>, NEW g
    PROVE  /\ [s EXCEPT ![Len(s)] = g] \in Seq(S \cup {g})
           /\ Len([s EXCEPT ![Len(s)] = g]) = Len(s)
<1>1. s \in Seq(S \cup {g}) /\ Len(s) \in 1..Len(s)
  BY Wider
<1>2. QED
  BY <1>1, ExceptSeq

\* Closing a group makes the undo stack one longer at most, and never longer than
\* the limit.
LEMMA PushedBounded ==
    ASSUME NEW S, NEW s \in Seq(S), Len(s) <= MaxUndo, NEW g
    PROVE  \E T : Pushed(s, g) \in Seq(T) /\ Len(Pushed(s, g)) <= MaxUndo
<1>0. MaxUndo \in Nat \ {0}
  BY DocumentAssumption
<1>1. CASE s # <<>> /\ Mergeable(Last(s), g)
  <2>1. Pushed(s, g) = [s EXCEPT ![Len(s)] = Merged(s[Len(s)], g)]
    BY <1>1, Zenon DEF Pushed
  <2>2. Pushed(s, g) \in Seq(S \cup {Merged(s[Len(s)], g)}) /\ Len(Pushed(s, g)) = Len(s)
    BY <1>1, <2>1, LastReplaced
  <2>3. QED
    BY <2>2
<1>2. CASE ~(s # <<>> /\ Mergeable(Last(s), g)) /\ Len(s) = MaxUndo
  <2>1. Pushed(s, g) = Append(Tail(s), g)
    BY <1>2, Zenon DEF Pushed
  <2>2. s # <<>> /\ s \in Seq(S \cup {g})
    BY <1>0, <1>2, Wider
  <2>3. Tail(s) \in Seq(S \cup {g}) /\ Len(Tail(s)) = MaxUndo - 1
    BY <1>2, <2>2
  <2>4. Append(Tail(s), g) \in Seq(S \cup {g}) /\ Len(Append(Tail(s), g)) = MaxUndo
    BY <1>0, <2>3
  <2>5. QED
    BY <1>0, <2>1, <2>4
<1>3. CASE ~(s # <<>> /\ Mergeable(Last(s), g)) /\ Len(s) # MaxUndo
  <2>1. Pushed(s, g) = Append(s, g)
    BY <1>3, Zenon DEF Pushed
  <2>2. s \in Seq(S \cup {g})
    BY Wider
  <2>3. Append(s, g) \in Seq(S \cup {g}) /\ Len(Append(s, g)) = Len(s) + 1
    BY <2>2
  <2>4. QED
    BY <1>0, <1>3, <2>1, <2>3
<1>4. QED
  BY <1>1, <1>2, <1>3

\* Breaking the coalescing keeps the number of groups.
LEMMA UncoalescedKeeps ==
    ASSUME NEW S, NEW s \in Seq(S)
    PROVE  \E g : Uncoalesced(s) \in Seq(S \cup {g}) /\ Len(Uncoalesced(s)) = Len(s)
<1>1. CASE s = <<>>
  <2>1. Uncoalesced(s) = s
    BY <1>1 DEF Uncoalesced
  <2>2. QED
    BY <2>1, Wider
<1>2. CASE s # <<>>
  <2> DEFINE g == [s[Len(s)] EXCEPT !.type = "none"]
  <2>1. Uncoalesced(s) = [s EXCEPT ![Len(s)] = g]
    BY <1>2, Zenon DEF Uncoalesced
  <2> HIDE DEF g
  <2>2. Uncoalesced(s) \in Seq(S \cup {g}) /\ Len(Uncoalesced(s)) = Len(s)
    BY <1>2, <2>1, LastReplaced
  <2>3. QED
    BY <2>2
<1>3. QED
  BY <1>1, <1>2

\* The length of a sequence without its last element.
LEMMA OneLess ==
    ASSUME NEW n \in Nat, n >= 1
    PROVE  (IF 1 <= n - 1 THEN (n - 1) - 1 + 1 ELSE 0) = n - 1
OBVIOUS

\* A group taken from one stack and its inverse put on the other.
LEMMA Transferred ==
    ASSUME NEW W, NEW s \in Seq(W), s # <<>>, NEW t \in Seq(W), NEW g \in W
    PROVE  /\ Front(s) \in Seq(W) /\ Append(t, g) \in Seq(W)
           /\ Len(Front(s)) + Len(Append(t, g)) = Len(s) + Len(t)
<1>1. Len(s) >= 1
  OBVIOUS
<1>2. Front(s) \in Seq(W) /\ Len(Front(s)) = Len(s) - 1
  <2>1. Front(s) = SubSeq(s, 1, Len(s) - 1)
    BY Zenon DEF Front
  <2>2. /\ Len(s) \in Nat /\ Len(s) - 1 \in Int /\ 1 \in Int
        /\ \A i \in 1..(Len(s) - 1) : s[i] \in W
    BY <1>1
  <2>3. /\ SubSeq(s, 1, Len(s) - 1) \in Seq(W)
        /\ Len(SubSeq(s, 1, Len(s) - 1)) = IF 1 <= Len(s) - 1 THEN (Len(s) - 1) - 1 + 1 ELSE 0
    BY <2>2, SubSeqProperties
  <2>4. QED
    BY <1>1, <2>1, <2>2, <2>3, OneLess, Zenon
<1>3. Append(t, g) \in Seq(W) /\ Len(Append(t, g)) = Len(t) + 1
  BY <1>1
<1>4. QED
  BY <1>1, <1>2, <1>3

-----------------------------------------------------------------------------
\* The invariant holds of the loaded document ...
LEMMA HistoryInit == Init => HistoryInv
<1> SUFFICES ASSUME Init PROVE HistoryInv
  OBVIOUS
<1>1. Stacked({}) /\ Len(undoStack) = 0 /\ Len(redoStack) = 0
  BY DEF Init, Stacked
<1>2. QED
  BY <1>1, DocumentAssumption DEF HistoryInv, HistoryBounded

\* ... and every command keeps it.
LEMMA HistoryStep == HistoryInv /\ [Next]_vars => HistoryInv'
<1> SUFFICES ASSUME HistoryInv, [Next]_vars PROVE HistoryInv'
  OBVIOUS
<1>0. PICK S : undoStack \in Seq(S) /\ redoStack \in Seq(S)
  BY DEF HistoryInv, Stacked
<1>1. /\ Len(undoStack) \in Nat /\ Len(redoStack) \in Nat
      /\ Len(undoStack) + Len(redoStack) <= MaxUndo
      /\ MaxUndo \in Nat
  BY <1>0, DocumentAssumption DEF HistoryInv, HistoryBounded
<1>2. CASE Unrecorded \/ UNCHANGED vars
  <2>1. undoStack' = undoStack /\ redoStack' = redoStack
    BY <1>2 DEF Unrecorded, vars, stacks
  <2>2. QED
    BY <1>0, <1>1, <2>1 DEF HistoryInv, HistoryBounded, Stacked
<1>3. CASE Closes
  <2>1. PICK g : undoStack' = Pushed(undoStack, g) /\ redoStack' = <<>>
    BY <1>3 DEF Closes
  <2>2. Len(undoStack) <= MaxUndo
    BY <1>1
  <2>3. PICK T : Pushed(undoStack, g) \in Seq(T) /\ Len(Pushed(undoStack, g)) <= MaxUndo
    BY <1>0, <2>2, PushedBounded
  <2>4. undoStack' \in Seq(T) /\ redoStack' \in Seq(T) /\ Len(undoStack') <= MaxUndo /\ Len(redoStack') = 0
    BY <2>1, <2>3
  <2>5. QED
    BY <1>1, <2>4 DEF HistoryInv, HistoryBounded, Stacked
<1>4. CASE Breaks
  <2>1. PICK g : /\ undoStack' \in Seq(S \cup {g}) /\ Len(undoStack') = Len(undoStack)
    BY <1>0, <1>4, UncoalescedKeeps DEF Breaks
  <2>2. redoStack' = redoStack /\ redoStack \in Seq(S \cup {g})
    BY <1>0, <1>4, Wider DEF Breaks
  <2>3. QED
    BY <1>1, <2>1, <2>2 DEF HistoryInv, HistoryBounded, Stacked
<1>5. CASE Undo
  <2> DEFINE g == InverseGroup(Last(undoStack), Reverted(Last(undoStack)))
  <2>1. undoStack # <<>> /\ undoStack' = Front(undoStack) /\ redoStack' = Append(redoStack, g)
    BY <1>5, Zenon DEF Undo
  <2> HIDE DEF g
  <2>2. /\ undoStack' \in Seq(S \cup {g}) /\ redoStack' \in Seq(S \cup {g})
        /\ Len(undoStack') + Len(redoStack') = Len(undoStack) + Len(redoStack)
    <3> DEFINE W == S \cup {g}
    <3>1. undoStack \in Seq(W) /\ redoStack \in Seq(W) /\ g \in W
      BY <1>0, Wider
    <3>0. undoStack # <<>>
      BY <2>1
    <3> HIDE DEF W
    <3>2. /\ Front(undoStack) \in Seq(W) /\ Append(redoStack, g) \in Seq(W)
          /\ Len(Front(undoStack)) + Len(Append(redoStack, g)) = Len(undoStack) + Len(redoStack)
      BY <3>0, <3>1, Transferred
    <3> QED
      BY <2>1, <3>2 DEF W
  <2>3. QED
    BY <1>1, <2>2 DEF HistoryInv, HistoryBounded, Stacked
<1>6. CASE Redo
  <2> DEFINE g == InverseGroup(Last(redoStack), Reverted(Last(redoStack)))
  <2>1. redoStack # <<>> /\ redoStack' = Front(redoStack) /\ undoStack' = Append(undoStack, g)
    BY <1>6, Zenon DEF Redo
  <2> HIDE DEF g
  <2>2. /\ undoStack' \in Seq(S \cup {g}) /\ redoStack' \in Seq(S \cup {g})
        /\ Len(redoStack') + Len(undoStack') = Len(redoStack) + Len(undoStack)
    <3> DEFINE W == S \cup {g}
    <3>1. undoStack \in Seq(W) /\ redoStack \in Seq(W) /\ g \in W
      BY <1>0, Wider
    <3>0. redoStack # <<>>
      BY <2>1
    <3> HIDE DEF W
    <3>2. /\ Front(redoStack) \in Seq(W) /\ Append(undoStack, g) \in Seq(W)
          /\ Len(Front(redoStack)) + Len(Append(undoStack, g)) = Len(redoStack) + Len(undoStack)
      BY <3>0, <3>1, Transferred
    <3> QED
      BY <2>1, <3>2 DEF W
  <2>3. Len(undoStack') \in Nat /\ Len(redoStack') \in Nat
    BY <2>2
  <2>4. QED
    BY <1>1, <2>2, <2>3 DEF HistoryInv, HistoryBounded, Stacked
<1>7. QED
  BY <1>2, <1>3, <1>4, <1>5, <1>6, StackSteps

\* Never more groups than max_undo_steps_ can be undone or redone, although undo()
\* and redo() push without looking at the limit (document_undo.cpp).
THEOREM HistoryLimit == Spec => []HistoryBounded
<1>1. HistoryInv => HistoryBounded
  BY DEF HistoryInv
<1>2. QED
  BY <1>1, HistoryInit, HistoryStep, PTL DEF Spec

-----------------------------------------------------------------------------
(* Taking back all of the history. *)

Types  == {"typing", "backspace", "delete_line", "none"}
Groups == [acts : Acts, before : Places, after : Places, type : Types, was : Texts]

\* What is known of a group that leads to the text t.
Kept(g, t) ==
  Trail(g.was, g.acts, t) /\ g.before.y \in DOMAIN g.was /\ Shaped(g.type, g.acts, t)

\* Each group leads from the text before it to that before the next group.
Chain(stack, ls) == \A k \in 1..Len(stack) : Kept(stack[k], Follows(stack, ls, k))

LEMMA StackHas ==
  ASSUME NEW stack \in Seq(Groups)
  PROVE  /\ Len(stack) \in Nat /\ DOMAIN stack = 1..Len(stack)
         /\ \A k \in 1..Len(stack) : stack[k] \in Groups
         /\ stack # <<>> => Len(stack) \in 1..Len(stack) /\ Last(stack) = stack[Len(stack)]
BY DEF Last

\* break_undo_coalescing.
LEMMA UncoalescedChain ==
  ASSUME NEW stack \in Seq(Groups), NEW ls, Chain(stack, ls)
  PROVE  Uncoalesced(stack) \in Seq(Groups) /\ Chain(Uncoalesced(stack), ls)
<1> DEFINE n == Len(stack)
           g == [stack[n] EXCEPT !.type = "none"]
           s == [stack EXCEPT ![n] = g]
<1>1. CASE stack = <<>>
  BY <1>1 DEF Uncoalesced
<1>2. CASE stack # <<>>
  <2>1. n \in 1..n /\ n \in Nat /\ DOMAIN stack = 1..n /\ stack[n] \in Groups
    BY <1>2, StackHas
  <2>2. g \in Groups /\ g.type = "none" /\ g.was = stack[n].was /\ g.acts = stack[n].acts
        /\ g.before = stack[n].before
    BY <2>1 DEF Groups, Types
  <2> HIDE DEF g
  <2>3. s \in Seq(Groups) /\ Len(s) = n /\ \A k \in 1..n : s[k] = IF k = n THEN g ELSE stack[k]
    BY <2>1, <2>2
  <2>4. Uncoalesced(stack) = s
    BY <1>2, Zenon DEF Uncoalesced, g
  <2> HIDE DEF s, n
  <2>5. \A k \in 1..n : Follows(s, ls, k) = Follows(stack, ls, k)
    <3> SUFFICES ASSUME NEW k \in 1..n PROVE Follows(s, ls, k) = Follows(stack, ls, k)
      OBVIOUS
    <3>1. CASE k = n
      BY <2>3, <3>1 DEF Follows, n
    <3>2. CASE k # n
      <4>1. k + 1 \in 1..n
        BY <2>1, <3>2
      <4>2. s[k + 1].was = stack[k + 1].was
        BY <2>2, <2>3, <4>1
      <4> QED
        BY <2>3, <3>2, <4>2 DEF Follows, n
    <3> QED
      BY <3>1, <3>2
  <2>6. \A k \in 1..n : Kept(stack[k], Follows(stack, ls, k))
    BY DEF Chain, n
  <2>7. \A k \in 1..n : Kept(s[k], Follows(stack, ls, k))
    BY <2>2, <2>3, <2>6 DEF Kept, Shaped
  <2>8. Chain(s, ls)
    BY <2>3, <2>5, <2>7 DEF Chain
  <2> QED
    BY <2>3, <2>4, <2>8
<1> QED
  BY <1>1, <1>2

\* The oldest group dropped.
LEMMA TailKeeps ==
  ASSUME NEW stack \in Seq(Groups), stack # <<>>, NEW ls, Chain(stack, ls)
  PROVE  Tail(stack) \in Seq(Groups) /\ Chain(Tail(stack), ls)
<1> DEFINE n == Len(stack)
           s == Tail(stack)
<1>1. n \in Nat \ {0} /\ s \in Seq(Groups) /\ Len(s) = n - 1 /\ \A k \in 1..n - 1 : s[k] = stack[k + 1]
  OBVIOUS
<1> HIDE DEF s, n
<1>2. ASSUME NEW k \in 1..n - 1 PROVE Kept(s[k], Follows(s, ls, k))
  <2>1. k + 1 \in 1..n /\ s[k] = stack[k + 1]
    BY <1>1
  <2>2. Follows(s, ls, k) = Follows(stack, ls, k + 1)
    <3>1. CASE k = n - 1
      BY <1>1, <3>1 DEF Follows, n
    <3>2. CASE k # n - 1
      <4>1. k + 1 \in 1..n - 1 /\ k + 1 # n
        BY <1>1, <3>2
      <4> QED
        BY <1>1, <3>2, <4>1 DEF Follows, n
    <3> QED
      BY <3>1, <3>2
  <2> QED
    BY <2>1, <2>2 DEF Chain, n
<1> QED
  BY <1>1, <1>2 DEF Chain, s

\* The newest group taken back.
LEMMA FrontKeeps ==
  ASSUME NEW stack \in Seq(Groups), stack # <<>>, NEW ls, Chain(stack, ls)
  PROVE  Front(stack) \in Seq(Groups) /\ Chain(Front(stack), Last(stack).was) /\ Kept(Last(stack), ls)
<1> DEFINE n == Len(stack)
           s == Front(stack)
           t == Last(stack).was
<1>1. n \in Nat \ {0} /\ Last(stack) = stack[n] /\ n \in 1..n
  BY StackHas
<1>2. s \in Seq(Groups) /\ Len(s) = n - 1 /\ \A k \in 1..n - 1 : s[k] = stack[k]
  <2>1. 1 \in Nat \ {0} /\ n - 1 \in Nat /\ 1 <= n - 1 + 1 /\ n - 1 <= Len(stack) /\ n - 1 + 1 - 1 = n - 1
    BY <1>1
  <2>2. /\ SubSeq(stack, 1, n - 1) \in Seq(Groups) /\ Len(SubSeq(stack, 1, n - 1)) = n - 1 + 1 - 1
        /\ \A k \in 1..n - 1 + 1 - 1 : SubSeq(stack, 1, n - 1)[k] = stack[1 + k - 1]
    BY <2>1, Slice
  <2>3. s = SubSeq(stack, 1, n - 1)
    BY DEF Front
  <2>4. \A k \in 1..n - 1 : 1 + k - 1 = k
    OBVIOUS
  <2> HIDE DEF s, n
  <2> QED
    BY <2>1, <2>2, <2>3, <2>4
<1> HIDE DEF s, n, t
<1>3. ASSUME NEW k \in 1..n - 1 PROVE Kept(s[k], Follows(s, t, k))
  <2>1. k \in 1..n /\ s[k] = stack[k] /\ k # n /\ k + 1 \in 1..n
    BY <1>1, <1>2
  <2>2. Follows(stack, ls, k) = stack[k + 1].was
    BY <2>1 DEF Follows, n
  <2>3. Follows(s, t, k) = stack[k + 1].was
    <3>1. CASE k = n - 1
      <4>1. k + 1 = n
        BY <1>1, <3>1
      <4> QED
        BY <1>1, <1>2, <3>1, <4>1 DEF Follows, t
    <3>2. CASE k # n - 1
      <4>1. k + 1 \in 1..n - 1
        BY <1>1, <3>2
      <4> QED
        BY <1>2, <3>2, <4>1 DEF Follows
    <3> QED
      BY <3>1, <3>2
  <2>4. Kept(stack[k], Follows(stack, ls, k))
    BY <2>1 DEF Chain, n
  <2> QED
    BY <2>1, <2>2, <2>3, <2>4
<1>4. Kept(stack[n], ls)
  <2>1. Follows(stack, ls, n) = ls
    BY DEF Follows, n
  <2> QED
    BY <1>1, <2>1 DEF Chain, n
<1> QED
  BY <1>1, <1>2, <1>3, <1>4 DEF Chain, s, t

\* A group put on top.
LEMMA AppendKeeps ==
  ASSUME NEW stack \in Seq(Groups), NEW b, Chain(stack, b), NEW g \in Groups, g.was = b, NEW c, Kept(g, c)
  PROVE  Append(stack, g) \in Seq(Groups) /\ Chain(Append(stack, g), c)
<1> DEFINE n == Len(stack)
           s == Append(stack, g)
<1>1. n \in Nat /\ s \in Seq(Groups) /\ Len(s) = n + 1 /\ s[n + 1] = g /\ \A k \in 1..n : s[k] = stack[k]
  OBVIOUS
<1> HIDE DEF s, n
<1>2. ASSUME NEW k \in 1..n PROVE Kept(s[k], Follows(s, c, k))
  <2>1. k # n + 1 /\ Follows(s, c, k) = s[k + 1].was
    BY <1>1 DEF Follows
  <2>2. Follows(stack, b, k) = s[k + 1].was
    <3>1. CASE k = n
      BY <1>1, <3>1 DEF Follows, n
    <3>2. CASE k # n
      <4>1. k + 1 \in 1..n
        BY <1>1, <3>2
      <4> QED
        BY <1>1, <3>2, <4>1 DEF Follows, n
    <3> QED
      BY <3>1, <3>2
  <2> QED
    BY <1>1, <2>1, <2>2 DEF Chain, n
<1>3. Kept(s[n + 1], Follows(s, c, n + 1))
  BY <1>1 DEF Follows
<1>4. \A k \in 1..n + 1 : k = n + 1 \/ k \in 1..n
  BY <1>1
<1> QED
  BY <1>1, <1>2, <1>3, <1>4 DEF Chain, s

\* A group merged into the newest one.
LEMMA MergedKeeps ==
  ASSUME NEW stack \in Seq(Groups), stack # <<>>, NEW b, Chain(stack, b),
         NEW g \in Groups, g.was = b, NEW c, Trail(b, g.acts, c), Fresh(g.type, g.acts, b, c),
         Mergeable(Last(stack), g),
         NEW s, s = [stack EXCEPT ![Len(stack)] = Merged(@, g)]
  PROVE  s \in Seq(Groups) /\ Chain(s, c)
<1> DEFINE n == Len(stack)
           l == stack[n]
           F == Folded(l.acts, g.acts)
           m == Merged(l, g)
           q == [l EXCEPT !.acts = F]
<1>1. /\ n \in 1..n /\ n \in Nat /\ DOMAIN stack = 1..n /\ l \in Groups /\ Last(stack) = l
      /\ \A k \in 1..n : stack[k] \in Groups
  BY StackHas
<1>2. Kept(l, b)
  BY <1>1 DEF Chain, Follows
<1>3. g.type # "none" /\ l.type = g.type /\ l.acts[1].y = g.acts[1].y
  BY <1>1 DEF Mergeable
<1>4. l.type \in {"typing", "backspace", "delete_line"} /\ l.acts \in Acts /\ g.acts \in Acts
  BY <1>1, <1>3 DEF Groups, Types
<1>5. F \in Acts /\ Trail(l.was, F, c) /\ Shaped(l.type, F, c)
  <2>1. Trail(l.was, l.acts, b) /\ Shaped(l.type, l.acts, b)
    BY <1>2 DEF Kept
  <2>2. Fresh(l.type, g.acts, b, c)
    BY <1>3
  <2> DEFINE T == l.type
             P == l.acts
             Q == g.acts
             a == l.was
  <2>3. /\ T \in {"typing", "backspace", "delete_line"} /\ P \in Acts /\ Q \in Acts
        /\ Trail(a, P, b) /\ Shaped(T, P, b) /\ Trail(b, Q, c) /\ Fresh(T, Q, b, c) /\ P[1].y = Q[1].y
    BY <1>3, <1>4, <2>1, <2>2
  <2> HIDE DEF l, T, P, Q, a
  <2>4. Folded(P, Q) \in Acts /\ Trail(a, Folded(P, Q), c) /\ Shaped(T, Folded(P, Q), c)
    BY ONLY <2>3, FoldedTrail
  <2> QED
    BY <2>4 DEF T, P, Q, a
<1>6. m = [q EXCEPT !.after = g.after]
  BY Zenon DEF Merged
<1> HIDE DEF F, m
<1>7. q \in Groups /\ q.acts = F /\ q.before = l.before /\ q.type = l.type /\ q.was = l.was
  BY <1>1, <1>5 DEF Groups
<1> HIDE DEF q, l
<1>8. m \in Groups /\ m.acts = F /\ m.before = l.before /\ m.type = l.type /\ m.was = l.was
  BY <1>6, <1>7 DEF Groups
<1>9. Kept(m, c)
  BY <1>2, <1>5, <1>8 DEF Kept
<1>10. s = [stack EXCEPT ![n] = m]
  BY Zenon DEF m, l
<1>11. s \in Seq(Groups) /\ Len(s) = n /\ \A k \in 1..n : s[k] = IF k = n THEN m ELSE stack[k]
  BY <1>1, <1>8, <1>10
<1> HIDE DEF n
<1>12. ASSUME NEW k \in 1..n PROVE Kept(s[k], Follows(s, c, k))
  <2>1. CASE k = n
    <3>1. Follows(s, c, k) = c /\ s[k] = m
      BY <1>11, <2>1 DEF Follows
    <3> QED
      BY <1>9, <3>1
  <2>2. CASE k # n
    <3>1. k + 1 \in 1..n
      BY <1>1, <2>2
    <3>2. Follows(s, c, k) = s[k + 1].was /\ s[k] = stack[k]
      BY <1>11, <2>2 DEF Follows
    <3>3. Follows(stack, b, k) = stack[k + 1].was
      BY <2>2 DEF Follows, n
    <3>4. s[k + 1].was = stack[k + 1].was
      BY <1>8, <1>11, <3>1 DEF l
    <3> QED
      BY <3>2, <3>3, <3>4 DEF Chain, n
  <2> QED
    BY <2>1, <2>2
<1> QED
  BY <1>11, <1>12 DEF Chain

\* A new group on the undo stack.
LEMMA PushedKeeps ==
  ASSUME NEW stack \in Seq(Groups), NEW b, Chain(stack, b),
         NEW g \in Groups, g.was = b, NEW c, Trail(b, g.acts, c), Fresh(g.type, g.acts, b, c),
         g.before.y \in DOMAIN b
  PROVE  Pushed(stack, g) \in Seq(Groups) /\ Chain(Pushed(stack, g), c)
<1> DEFINE s == [stack EXCEPT ![Len(stack)] = Merged(@, g)]
<1>1. Kept(g, c)
  BY FreshIsShaped DEF Kept
<1>2. CASE stack # <<>> /\ Mergeable(Last(stack), g)
  <2>1. Pushed(stack, g) = s
    BY <1>2, Zenon DEF Pushed
  <2>2. s \in Seq(Groups) /\ Chain(s, c)
    BY <1>2, MergedKeeps
  <2> QED
    BY <2>1, <2>2
<1>3. CASE ~(stack # <<>> /\ Mergeable(Last(stack), g))
  <2>1. Pushed(stack, g) = IF Len(stack) = MaxUndo THEN Append(Tail(stack), g) ELSE Append(stack, g)
    BY <1>3, Zenon DEF Pushed
  <2>2. Append(stack, g) \in Seq(Groups) /\ Chain(Append(stack, g), c)
    BY <1>1, AppendKeeps
  <2>3. CASE Len(stack) = MaxUndo
    <3>1. stack # <<>>
      BY <2>3, DocumentAssumption
    <3>2. Tail(stack) \in Seq(Groups) /\ Chain(Tail(stack), b)
      BY <3>1, TailKeeps
    <3>3. Append(Tail(stack), g) \in Seq(Groups) /\ Chain(Append(Tail(stack), g), c)
      BY <1>1, <3>2, AppendKeeps
    <3> QED
      BY <2>1, <2>3, <3>3
  <2>4. CASE Len(stack) # MaxUndo
    BY <2>1, <2>2, <2>4
  <2> QED
    BY <2>3, <2>4
<1> QED
  BY <1>2, <1>3

-----------------------------------------------------------------------------
(* The invariant. *)

Typed ==
  /\ lines \in Texts /\ cur \in Places /\ sel \in Marks
  /\ undoStack \in Seq(Groups) /\ crashed \in BOOLEAN /\ edits \in Nat

\* The variables are typed, the places are on rows, and the history leads back.
HistoryKept ==
  /\ Typed
  /\ crashed \/ ~OffText(lines, cur, sel)
  /\ Chain(undoStack, lines)

LEMMA CommitKeeps ==
  ASSUME HistoryKept, ~crashed, NEW d, Since(lines, d), NEW type \in Types,
         d.acts # <<>> => Fresh(type, d.acts, lines, d.ls),
         NEW c \in Places, NEW m \in Marks, Commit(type, d, c, m)
  PROVE  HistoryKept'
<1> DEFINE g == [acts |-> d.acts, before |-> cur, after |-> d.cur, type |-> type, was |-> lines]
<1>1. /\ lines \in Texts /\ cur \in Places /\ undoStack \in Seq(Groups) /\ edits \in Nat
      /\ cur.y \in DOMAIN lines /\ Chain(undoStack, lines)
  BY DEF HistoryKept, Typed, OffText
<1>2. d.ls \in Texts /\ d.cur \in Places /\ d.acts \in Acts /\ Trail(lines, d.acts, d.ls)
  BY CopyHas
<1>3. edits' = edits + 1 /\ lines' = d.ls /\ cur' = c /\ sel' = m /\ crashed' = OffText(d.ls, c, m)
  BY Zenon DEF Commit, Store
<1>4. undoStack' \in Seq(Groups) /\ Chain(undoStack', d.ls)
  <2>1. CASE d.acts = <<>>
    <3>1. undoStack' = undoStack
      BY <2>1 DEF Commit, Store, stacks
    <3>2. d.ls = lines
      BY <1>2, <2>1, TrailNone
    <3> QED
      BY <1>1, <3>1, <3>2
  <2>2. CASE d.acts # <<>>
    <3>1. undoStack' = Pushed(undoStack, g)
      BY <2>2, Zenon DEF Commit, Store
    <3>2. g \in Groups
      BY <1>1, <1>2 DEF Groups
    <3>3. g.was = lines /\ g.acts = d.acts /\ g.type = type /\ g.before = cur
      OBVIOUS
    <3> HIDE DEF g
    <3>4. Pushed(undoStack, g) \in Seq(Groups) /\ Chain(Pushed(undoStack, g), d.ls)
      BY <1>1, <1>2, <2>2, <3>2, <3>3, PushedKeeps
    <3> QED
      BY <3>1, <3>4
  <2> QED
    BY <2>1, <2>2
<1>5. Typed'
  <2>1. crashed' \in BOOLEAN
    BY <1>3 DEF OffText
  <2> QED
    BY <1>1, <1>2, <1>3, <1>4, <2>1 DEF Typed
<1>6. crashed' \/ ~OffText(lines', cur', sel')
  BY <1>3
<1> QED
  BY <1>3, <1>4, <1>5, <1>6 DEF HistoryKept

-----------------------------------------------------------------------------
(* Every command keeps the history, from the first to the last. *)

LEMMA WorkingSince ==
  ASSUME HistoryKept, ~crashed
  PROVE  /\ Since(lines, Working) /\ lines \in Texts /\ cur \in Places /\ sel \in Marks /\ edits \in Nat
         /\ Working.ls = lines /\ Working.cur = cur /\ Working.sel = sel /\ Working.acts = <<>>
         /\ cur.y \in DOMAIN lines /\ OnText(sel, lines) /\ NextChar \in Nat
         /\ DOMAIN lines = 1..Len(lines) /\ Len(lines) \in Nat /\ cur.y \in Int /\ cur.x \in Int
         /\ Working = [ls |-> lines, cur |-> cur, sel |-> sel, acts |-> <<>>]
<1>1. lines \in Texts /\ cur \in Places /\ sel \in Marks /\ edits \in Nat
  BY DEF HistoryKept, Typed
<1>2. cur.y \in DOMAIN lines /\ OnText(sel, lines)
  BY DEF HistoryKept, OffText, OnText
<1>3. Since(lines, Working)
  BY <1>1, TrailNone DEF Since, Copies, Working, Acts
<1>4. NextChar \in Nat /\ DOMAIN lines = 1..Len(lines) /\ Len(lines) \in Nat /\ cur.y \in Int /\ cur.x \in Int
  BY <1>1 DEF NextChar, Texts, Places
<1> QED
  BY <1>1, <1>2, <1>3, <1>4 DEF Working

LEMMA EditKeeps ==
  ASSUME HistoryKept, ~crashed, NEW d, Since(lines, d), NEW type \in Types,
         d.acts # <<>> => Fresh(type, d.acts, lines, d.ls), NEW op, Edit(op, type, d)
  PROVE  HistoryKept'
<1>1. d.cur \in Places /\ d.sel \in Marks
  BY CopyHas
<1>2. Commit(type, d, d.cur, d.sel)
  BY DEF Edit
<1> QED
  BY <1>1, <1>2, CommitKeeps

\* An edit that merges with no other.
LEMMA PlainEditKeeps ==
  ASSUME HistoryKept, ~crashed, NEW d, Since(lines, d), NEW op, Edit(op, "none", d)
  PROVE  HistoryKept'
<1>1. Fresh("none", d.acts, lines, d.ls) /\ "none" \in Types
  BY DEF Fresh, Types
<1> QED
  BY <1>1, EditKeeps

\* An edit that replaces one row.
LEMMA RowEditKeeps ==
  ASSUME HistoryKept, ~crashed, NEW d, Since(lines, d), NEW type \in {"typing", "backspace"},
         NEW y \in DOMAIN lines, Alone(Working, d, Act("replace", y, lines[y])),
         NEW op, Edit(op, type, d)
  PROVE  HistoryKept'
<1> DEFINE e == Act("replace", y, lines[y])
<1>1. lines \in Texts /\ Working.acts = <<>>
  BY WorkingSince
<1>2. e \in Actions /\ e.kind = "replace"
  BY <1>1 DEF Act, Actions, Kinds, Texts
<1>3. d.acts = <<e>>
  BY <1>1 DEF Alone
<1> HIDE DEF e
<1>4. Fresh(type, d.acts, lines, d.ls)
  BY <1>2, <1>3 DEF Fresh, Replaces
<1>5. type \in Types
  BY DEF Types
<1> QED
  BY <1>4, <1>5, EditKeeps

LEMMA JoinEditKeeps ==
  ASSUME HistoryKept, ~crashed, NEW y \in DOMAIN lines, y - 1 \in DOMAIN lines,
         NEW type \in {"backspace", "none"}, NEW op, Edit(op, type, Join(Working, y))
  PROVE  HistoryKept'
<1> DEFINE d == Join(Working, y)
           e == Act("replace", y - 1, lines[y - 1])
           f == Act("delete", y, lines[y])
<1>1. /\ lines \in Texts /\ Since(lines, Working) /\ Working.ls = lines /\ Working.acts = <<>> /\ y \in Int
  BY WorkingSince
<1>2. Since(lines, d) /\ d.acts = Append(<<e>>, f)
  BY <1>1, JoinOn
<1>3. e \in Actions /\ f \in Actions /\ e.kind = "replace" /\ f.kind = "delete" /\ f.y = e.y + 1
  BY <1>1 DEF Act, Actions, Kinds, Texts
<1> HIDE DEF e, f
<1>4. Fresh(type, d.acts, lines, d.ls)
  BY <1>2, <1>3 DEF Fresh, ReplacesAndJoins
<1>5. type \in Types
  BY DEF Types
<1> HIDE DEF d
<1>6. Edit(op, type, d)
  BY DEF d
<1> QED
  BY <1>2, <1>4, <1>5, <1>6, EditKeeps

-----------------------------------------------------------------------------
(* Each command keeps it. *)

LEMMA InsertCharKeeps ==
  ASSUME HistoryKept, ~crashed, InsertChar PROVE HistoryKept'
<1> DEFINE d == Put(Working, NextChar)
<1>1. Since(lines, d) /\ Alone(Working, d, Act("replace", cur.y, lines[cur.y]))
  BY WorkingSince, PutOn
<1>2. Edit("type", "typing", d)
  BY DEF InsertChar
<1> HIDE DEF d
<1> QED
  BY <1>1, <1>2, RowEditKeeps, WorkingSince

LEMMA SplitLineKeeps ==
  ASSUME HistoryKept, ~crashed, SplitLine PROVE HistoryKept'
<1> DEFINE d == Split(Working)
<1>1. Since(lines, d)
  BY WorkingSince, SplitOn
<1>2. Edit("enter", "none", d)
  BY DEF SplitLine
<1> HIDE DEF d
<1> QED
  BY <1>1, <1>2, PlainEditKeeps

LEMMA InsertTextKeeps ==
  ASSUME HistoryKept, ~crashed, InsertText PROVE HistoryKept'
<1> DEFINE p == Put(Working, NextChar)
           q == Split(p)
           r == Split(q)
           c == NextChar + 500
           d == Put(r, c)
<1>1. Edit("paste", "none", d)
  BY DEF InsertText
<1>2. NextChar \in Nat /\ c \in Nat
  BY WorkingSince
<1>3. Since(lines, p) /\ p.cur.y \in DOMAIN p.ls
  BY WorkingSince, PutOn
<1> HIDE DEF p
<1>4. Since(lines, q) /\ q.cur.y \in DOMAIN q.ls
  BY <1>3, SplitOn
<1> HIDE DEF q
<1>5. Since(lines, r) /\ r.cur.y \in DOMAIN r.ls
  BY <1>4, SplitOn
<1> HIDE DEF c, r
<1>6. Since(lines, d)
  BY <1>2, <1>5, PutOn
<1> HIDE DEF d
<1> QED
  BY <1>1, <1>6, PlainEditKeeps

LEMMA CutKeeps ==
  ASSUME HistoryKept, ~crashed, NEW x \in Int, NEW n \in Int, NEW p, p = At(cur.y, x),
         NEW op, NEW type \in {"backspace", "none"}, Edit(op, type, Cut(Working, p, n))
  PROVE  HistoryKept'
<1> DEFINE d == Cut(Working, p, n)
<1>1. p \in Places /\ p.y = cur.y
  BY WorkingSince, AtTyped
<1>2. Since(lines, d) /\ Alone(Working, d, Act("replace", cur.y, lines[cur.y]))
  BY <1>1, WorkingSince, CutOn
<1>3. Edit(op, type, d)
  OBVIOUS
<1> HIDE DEF d
<1>4. CASE type = "backspace"
  BY <1>2, <1>3, <1>4, RowEditKeeps, WorkingSince
<1>5. CASE type = "none"
  BY <1>2, <1>3, <1>5, PlainEditKeeps
<1> QED
  BY <1>4, <1>5

LEMMA BackspaceKeeps ==
  ASSUME HistoryKept, ~crashed, Backspace PROVE HistoryKept'
<1>1. /\ cur.x \in Int /\ cur.y \in Int /\ cur.y \in DOMAIN lines
      /\ DOMAIN lines = 1..Len(lines) /\ Len(lines) \in Nat
  BY WorkingSince
<1>2. CASE cur.x > 0 /\ Edit("backspace", "backspace", Cut(Working, At(cur.y, cur.x - 1), 1))
  <2>1. cur.x - 1 \in Int /\ 1 \in Int
    BY <1>1
  <2> QED
    BY <1>2, <2>1, CutKeeps
<1>3. CASE cur.x <= 0 /\ cur.y > 1 /\ Edit("backspace", "backspace", Join(Working, cur.y))
  <2>1. cur.y - 1 \in DOMAIN lines
    BY <1>1, <1>3
  <2> QED
    BY <1>1, <1>3, <2>1, JoinEditKeeps
<1> QED
  BY <1>2, <1>3 DEF Backspace

LEMMA DeleteCharKeeps ==
  ASSUME HistoryKept, ~crashed, DeleteChar PROVE HistoryKept'
<1>1. /\ cur \in Places /\ cur.x \in Int /\ cur.y \in Int /\ cur.y \in DOMAIN lines
      /\ DOMAIN lines = 1..Len(lines) /\ Len(lines) \in Nat
  BY WorkingSince
<1>2. CASE cur.x < Len(lines[cur.y]) /\ Edit("delete", "backspace", Cut(Working, cur, 1))
  <2>1. cur = At(cur.y, cur.x) /\ 1 \in Int
    BY <1>1 DEF Places, At
  <2> QED
    BY <1>1, <1>2, <2>1, CutKeeps
<1>3. CASE /\ cur.x >= Len(lines[cur.y]) /\ cur.y < Len(lines)
           /\ Edit("delete", "backspace", Join(Working, cur.y + 1))
  <2> DEFINE y == cur.y + 1
  <2>1. y \in DOMAIN lines /\ y - 1 \in DOMAIN lines
    BY <1>1, <1>3
  <2>2. Edit("delete", "backspace", Join(Working, y))
    BY <1>3
  <2> HIDE DEF y
  <2> QED
    BY <2>1, <2>2, JoinEditKeeps
<1> QED
  BY <1>2, <1>3 DEF DeleteChar

LEMMA CutRowKeeps ==
  ASSUME HistoryKept, ~crashed, CutRow PROVE HistoryKept'
<1>1. cur \in Places /\ cur.x \in Int /\ cur = At(cur.y, cur.x)
  BY WorkingSince DEF Places, At
<1>2. CASE \E n \in 1..Len(lines[cur.y]) : cur.x + n <= Len(lines[cur.y]) /\ Edit("cut", "none", Cut(Working, cur, n))
  <2>1. PICK n \in 1..Len(lines[cur.y]) : Edit("cut", "none", Cut(Working, cur, n))
    BY <1>2
  <2>2. n \in Int
    OBVIOUS
  <2> QED
    BY <1>1, <2>1, <2>2, CutKeeps
<1>3. CASE \E x \in 0..(cur.x - 1) : Edit("cut", "none", Cut(Working, At(cur.y, x), cur.x - x))
  <2>1. PICK x \in 0..(cur.x - 1) : Edit("cut", "none", Cut(Working, At(cur.y, x), cur.x - x))
    BY <1>3
  <2>2. x \in Int /\ cur.x - x \in Int
    BY <1>1
  <2> QED
    BY <2>1, <2>2, CutKeeps
<1> QED
  BY <1>2, <1>3 DEF CutRow

LEMMA JoinByWordKeeps ==
  ASSUME HistoryKept, ~crashed, JoinByWord PROVE HistoryKept'
<1>1. /\ cur.x \in Int /\ cur.y \in Int /\ cur.y \in DOMAIN lines
      /\ DOMAIN lines = 1..Len(lines) /\ Len(lines) \in Nat
  BY WorkingSince
<1>2. CASE /\ cur.x >= Len(lines[cur.y]) /\ cur.y < Len(lines)
           /\ Edit("cut", "none", Join(Working, cur.y + 1))
  <2> DEFINE y == cur.y + 1
  <2>1. y \in DOMAIN lines /\ y - 1 \in DOMAIN lines
    BY <1>1, <1>2
  <2>2. Edit("cut", "none", Join(Working, y))
    BY <1>2
  <2> HIDE DEF y
  <2> QED
    BY <2>1, <2>2, JoinEditKeeps
<1>3. CASE cur.x = 0 /\ cur.y > 1 /\ Edit("cut", "backspace", Join(Working, cur.y))
  <2>1. cur.y - 1 \in DOMAIN lines
    BY <1>1, <1>3
  <2> QED
    BY <1>1, <1>3, <2>1, JoinEditKeeps
<1> QED
  BY <1>2, <1>3 DEF JoinByWord

LEMMA ReplaceCurrentKeeps ==
  ASSUME HistoryKept, ~crashed, ReplaceCurrent PROVE HistoryKept'
<1>1. PICK n \in 1..(Len(lines[cur.y]) - cur.x), new \in {<<>>, <<NextChar>>} :
        Edit("replace", "typing",
          [Record(Working, "replace", cur.y)
             EXCEPT !.ls[cur.y] = Before(@, cur.x) \o new \o After(@, cur.x + n),
                    !.sel = ForInsert(ForDelete(@, cur, n), cur, Len(new)),
                    !.cur = At(cur.y, cur.x + Len(new))])
  BY DEF ReplaceCurrent
<1> DEFINE r == Record(Working, "replace", cur.y)
           d == [r EXCEPT !.ls[cur.y] = Before(@, cur.x) \o new \o After(@, cur.x + n),
                          !.sel = ForInsert(ForDelete(@, cur, n), cur, Len(new)),
                          !.cur = At(cur.y, cur.x + Len(new))]
<1>2. /\ Since(lines, Working) /\ Working.ls = lines /\ Working.cur = cur /\ Working.sel = sel
      /\ cur.y \in DOMAIN lines /\ NextChar \in Nat
  BY WorkingSince
<1>3. n \in Int /\ new \in Row
  BY <1>2, OneChar, NoChar
<1>4. r.ls = lines /\ r.sel = sel
  BY <1>2, RecordReplaces
<1> HIDE DEF r
<1>5. SetTo(d, r, [lines EXCEPT ![cur.y] = Before(@, cur.x) \o new \o After(@, cur.x + n)],
            ForInsert(ForDelete(sel, cur, n), cur, Len(new)), At(cur.y, cur.x + Len(new)))
  BY <1>4, Zenon DEF SetTo
<1>6. Edit("replace", "typing", d)
  BY <1>1, Zenon DEF r
<1> HIDE DEF d
<1>7. SetTo(d, Record(Working, "replace", Working.cur.y),
            [Working.ls EXCEPT ![Working.cur.y] = Before(@, Working.cur.x) \o new \o After(@, Working.cur.x + n)],
            ForInsert(ForDelete(Working.sel, Working.cur, n), Working.cur, Len(new)),
            At(Working.cur.y, Working.cur.x + Len(new)))
  BY <1>2, <1>5, Zenon DEF r
<1>8. Since(lines, d) /\ Alone(Working, d, Act("replace", Working.cur.y, Working.ls[Working.cur.y]))
  BY <1>2, <1>3, <1>7, ReplaceOn, Zenon
<1>9. Alone(Working, d, Act("replace", cur.y, lines[cur.y]))
  BY <1>2, <1>8
<1> QED
  BY <1>2, <1>6, <1>8, <1>9, RowEditKeeps, SMTT(30)

LEMMA DeleteLineKeeps ==
  ASSUME HistoryKept, ~crashed, DeleteLine PROVE HistoryKept'
<1>1. /\ Since(lines, Working) /\ Working.ls = lines /\ Working.sel = sel /\ Working.acts = <<>>
      /\ cur.y \in DOMAIN lines /\ lines \in Texts /\ sel \in Marks
      /\ cur.y \in Int /\ Len(lines) \in Nat /\ DOMAIN lines = 1..Len(lines)
      /\ Working = [ls |-> lines, cur |-> cur, sel |-> sel, acts |-> <<>>]
  BY WorkingSince
<1>2. "delete_line" \in Types
  BY DEF Types
<1>3. CASE /\ Len(lines) = 1
           /\ Edit("line", "delete_line",
                [Record(Working, "replace", 1) EXCEPT !.ls[1] = <<>>, !.sel = NoSel, !.cur = At(1, 0)])
  <2> DEFINE r == Record(Working, "replace", 1)
             d == [r EXCEPT !.ls[1] = <<>>, !.sel = NoSel, !.cur = At(1, 0)]
             e == Act("replace", 1, lines[1])
  <2>1. 1 \in DOMAIN lines
    BY <1>1, <1>3
  <2>2. r.ls = lines
    BY <1>1, <2>1, RecordReplaces
  <2> HIDE DEF r
  <2>3. SetTo(d, r, [lines EXCEPT ![1] = <<>>], NoSel, At(1, 0))
    BY <2>2, Zenon DEF SetTo
  <2>4. Edit("line", "delete_line", d)
    BY <1>3, Zenon DEF r
  <2> HIDE DEF d
  <2>5. SetTo(d, Record(Working, "replace", 1), [Working.ls EXCEPT ![1] = <<>>], NoSel, At(1, 0))
    BY <1>1, <2>3, Zenon DEF r
  <2>6. Since(lines, d) /\ Alone(Working, d, Act("replace", 1, Working.ls[1])) /\ Len(d.ls) = Len(Working.ls)
    <3>1. Since(lines, Working) /\ 1 \in DOMAIN Working.ls
      BY <1>1, <2>1
    <3> QED
      BY <2>5, <3>1, EmptiedOn
  <2>7. d.acts = <<e>> /\ Len(d.ls) = 1
    BY <1>1, <1>3, <2>6 DEF Alone
  <2>8. e \in Actions /\ e.kind = "replace" /\ e.y = 1
    BY <1>1, <2>1 DEF Act, Actions, Kinds, Texts
  <2> HIDE DEF e
  <2>9. DeletesOne(d.acts, lines, d.ls)
    BY <2>7, <2>8 DEF DeletesOne
  <2>10. Fresh("delete_line", d.acts, lines, d.ls)
    BY <2>9 DEF Fresh
  <2> QED
    BY <1>2, <2>4, <2>6, <2>10, EditKeeps
<1>4. CASE /\ Len(lines) > 1
           /\ Edit("line", "delete_line",
                [Record(Working, "delete", cur.y)
                   EXCEPT !.ls = Splice(@, cur.y, cur.y, <<>>),
                          !.sel = ForLineDelete(@, lines, cur.y),
                          !.cur = At(Smaller(cur.y, Len(lines) - 1), 0)])
  <2> DEFINE r == Record(Working, "delete", cur.y)
             m == ForLineDelete(sel, lines, cur.y)
             p == At(Smaller(cur.y, Len(lines) - 1), 0)
             d == [r EXCEPT !.ls = Splice(@, cur.y, cur.y, <<>>),
                            !.sel = ForLineDelete(@, lines, cur.y), !.cur = p]
             e == Act("delete", cur.y, lines[cur.y])
  <2>1. r = [Working EXCEPT !.acts = Append(@, e)]
    BY <1>1 DEF Record
  <2>2. r.ls = lines /\ r.sel = sel
    BY <1>1, <2>1
  <2>3. m \in Marks
    BY <1>1, LineDeleteMoves
  <2>4. p \in Places
    <3>1. Smaller(cur.y, Len(lines) - 1) \in Int
      BY <1>1 DEF Smaller
    <3> QED
      BY <3>1, AtTyped
  <2> HIDE DEF r, p
  <2>5. SetTo(d, r, Splice(lines, cur.y, cur.y, <<>>), m, p)
    BY <2>2, Zenon DEF SetTo
  <2>6. Edit("line", "delete_line", d)
    BY <1>4, Zenon DEF r, p
  <2> HIDE DEF d, m
  <2>7. SetTo(d, Record(Working, "delete", cur.y), Splice(Working.ls, cur.y, cur.y, <<>>), m, p)
    BY <1>1, <2>5, Zenon DEF r
  <2>8. Since(lines, d) /\ Alone(Working, d, Act("delete", cur.y, Working.ls[cur.y]))
    BY <1>1, <2>3, <2>4, <2>7, DeletedOn
  <2>9. d.acts = <<e>>
    BY <1>1, <2>8 DEF Alone
  <2>10. e \in Actions /\ e.kind = "delete"
    BY <1>1 DEF Act, Actions, Kinds, Texts
  <2> HIDE DEF e
  <2>11. DeletesOne(d.acts, lines, d.ls)
    BY <1>4, <2>9, <2>10 DEF DeletesOne
  <2>12. Fresh("delete_line", d.acts, lines, d.ls)
    BY <2>11 DEF Fresh
  <2> QED
    BY <1>2, <2>6, <2>8, <2>12, EditKeeps
<1> QED
  BY <1>3, <1>4 DEF DeleteLine

-----------------------------------------------------------------------------
(* Moving the cursor and setting the markers. *)

LEMMA SettleKeeps ==
  ASSUME HistoryKept, ~crashed, NEW c \in Places, NEW m \in Marks, c.y \in DOMAIN lines, OnText(m, lines),
         Settle(c, m)
  PROVE  HistoryKept'
<1>1. /\ lines' = lines /\ cur' = c /\ sel' = m /\ crashed' = crashed /\ edits' = edits
      /\ undoStack' = Uncoalesced(undoStack)
  BY DEF Settle
<1>2. undoStack' \in Seq(Groups) /\ Chain(undoStack', lines')
  BY <1>1, UncoalescedChain DEF HistoryKept, Typed
<1>3. Typed'
  BY <1>1, <1>2 DEF HistoryKept, Typed
<1>4. ~OffText(lines', cur', sel')
  BY <1>1 DEF OffText, OnText
<1> QED
  BY <1>2, <1>3, <1>4 DEF HistoryKept

LEMMA MoveCursorKeeps ==
  ASSUME HistoryKept, ~crashed, MoveCursor PROVE HistoryKept'
<1>1. PICK y \in DOMAIN lines : \E x \in 0..Len(lines[y]) : Settle(At(y, x), sel)
  BY DEF MoveCursor
<1>2. PICK x \in 0..Len(lines[y]) : Settle(At(y, x), sel)
  BY <1>1
<1> DEFINE c == At(y, x)
<1>3. sel \in Marks /\ OnText(sel, lines) /\ DOMAIN lines = 1..Len(lines)
  BY WorkingSince
<1>4. y \in Int /\ x \in Int
  BY <1>3
<1>5. c \in Places /\ c.y \in DOMAIN lines /\ Settle(c, sel)
  BY <1>2, <1>4, AtTyped
<1> HIDE DEF c
<1> QED
  BY <1>3, <1>5, SettleKeeps

LEMMA SanitizedOn ==
  ASSUME NEW ms \in Marks, OnText(ms, lines)
  PROVE  Sanitize(ms) \in Marks /\ OnText(Sanitize(ms), lines)
<1>1. OnText(NoSel, lines)
  BY DEF OnText, NoSel
<1> QED
  BY <1>1, Sanitized DEF Sanitize

LEMMA MarkingKeeps ==
  ASSUME HistoryKept, ~crashed, SetSelectionStart \/ SetSelectionEnd \/ ClearSelection
  PROVE  HistoryKept'
<1>1. cur \in Places /\ sel \in Marks /\ OnText(sel, lines) /\ cur.y \in DOMAIN lines
  BY WorkingSince
<1>2. CASE SetSelectionStart
  <2> DEFINE m == [sel EXCEPT !.s = cur]
  <2>1. m \in Marks /\ OnText(m, lines)
    BY <1>1 DEF Marks, OnText
  <2>2. Settle(cur, Sanitize(m))
    BY <1>2 DEF SetSelectionStart
  <2> HIDE DEF m
  <2> QED
    BY <1>1, <2>1, <2>2, SanitizedOn, SettleKeeps
<1>3. CASE SetSelectionEnd
  <2> DEFINE m == [sel EXCEPT !.e = cur]
  <2>1. m \in Marks /\ OnText(m, lines)
    BY <1>1 DEF Marks, OnText
  <2>2. Settle(cur, Sanitize(m))
    BY <1>3 DEF SetSelectionEnd
  <2> HIDE DEF m
  <2> QED
    BY <1>1, <2>1, <2>2, SanitizedOn, SettleKeeps
<1>4. CASE ClearSelection
  <2>1. NoSel \in Marks /\ OnText(NoSel, lines)
    BY AtTyped DEF OnText, NoSel
  <2>2. Settle(cur, NoSel)
    BY <1>4 DEF ClearSelection
  <2> QED
    BY <1>1, <2>1, <2>2, SettleKeeps
<1> QED
  BY <1>2, <1>3, <1>4

LEMMA PlainCommitKeeps ==
  ASSUME HistoryKept, ~crashed, NEW d, Since(lines, d), NEW c \in Places, NEW m \in Marks,
         Commit("none", d, c, m)
  PROVE  HistoryKept'
<1>1. Fresh("none", d.acts, lines, d.ls) /\ "none" \in Types
  BY DEF Fresh, Types
<1> QED
  BY <1>1, CommitKeeps

LEMMA DeleteSelectionKeeps ==
  ASSUME HistoryKept, ~crashed, DeleteSelection PROVE HistoryKept'
<1> DEFINE x == Excised(Working)
           p == At(Smaller(sel.s.y, Len(x.ls)), sel.s.x)
           r == [x EXCEPT !.cur = p]
           c == AfterExcision(Working, x).cur
<1>1. BlockReady(Working) /\ Commit("none", x, c, NoSel)
  BY DEF DeleteSelection
<1>2. Since(lines, Working) /\ sel \in Marks /\ Working.sel = sel
  BY WorkingSince
<1>3. Since(lines, x)
  BY <1>1, <1>2, ExcisedOn
<1> HIDE DEF x
<1>4. x \in Copies /\ x.ls \in Texts
  BY <1>3, CopyHas DEF Since
<1>5. p \in Places
  <2>1. sel.s.y \in Int /\ sel.s.x \in Int /\ Len(x.ls) \in Int
    BY <1>2, <1>4 DEF Marks, Places, Texts
  <2>2. Smaller(sel.s.y, Len(x.ls)) \in Int
    BY <2>1 DEF Smaller
  <2> QED
    BY <2>1, <2>2, AtTyped
<1>6. c = p
  <2>1. c = [r EXCEPT !.sel = NoSel].cur
    BY <1>2, Zenon DEF AfterExcision
  <2> HIDE DEF p
  <2>2. IsCopy(x, x.ls, x.cur, x.sel, x.acts)
    BY <1>3, CopyHas DEF IsCopy
  <2>3. IsCopy(r, x.ls, p, x.sel, x.acts)
    BY <2>2, PartSet, Zenon
  <2> HIDE DEF r, c
  <2>4. IsCopy([r EXCEPT !.sel = NoSel], x.ls, p, NoSel, x.acts)
    BY <2>3, PartSet, Zenon
  <2> QED
    BY <2>1, <2>4, CopyParts
<1> HIDE DEF c, p
<1>7. NoSel \in Marks
  BY AtTyped
<1> QED
  BY <1>1, <1>3, <1>5, <1>6, <1>7, PlainCommitKeeps

LEMMA AroundTyped ==
  ASSUME NEW p \in Places, NEW block \in Texts, Len(block) \in Nat \ {0}, NEW whole
  PROVE  Around(p, block, whole) \in Marks
<1> DEFINE n == Len(block)
           x == IF n = 1 /\ ~whole THEN p.x + Len(block[1]) ELSE Len(Last(block))
<1>1. n \in DOMAIN block /\ 1 \in DOMAIN block /\ Last(block) = block[n]
  BY DEF Texts, Last
<1>2. Len(block[1]) \in Int /\ Len(Last(block)) \in Int
  BY <1>1, LengthOfRow DEF Texts
<1>3. x \in Int /\ p.y + n - 1 \in Int
  BY <1>2 DEF Places
<1> HIDE DEF x, n
<1>4. At(p.y + n - 1, x) \in Places
  BY <1>3, AtTyped
<1> QED
  BY <1>4 DEF Around, Marks, x, n

LEMMA CopySelectionKeeps ==
  ASSUME HistoryKept, ~crashed, CopySelection PROVE HistoryKept'
<1> DEFINE whole == WholeLines(Working) /\ cur.x = 0
           block == Block(Working)
           d == InsertBlock(Working, block, whole)
<1>1. BlockReady(Working) /\ Commit("none", d, cur, Around(cur, block, whole))
  BY DEF CopySelection
<1>2. /\ Since(lines, Working) /\ Working.ls = lines /\ Working.cur = cur
      /\ cur \in Places /\ cur.y \in DOMAIN lines
  BY WorkingSince
<1>3. block \in Texts /\ Len(block) \in Nat \ {0}
  BY <1>1, <1>2, BlockTyped
<1>4. whole \in BOOLEAN
  BY DEF WholeLines
<1> HIDE DEF block, whole
<1>5. Since(lines, d)
  BY <1>2, <1>3, <1>4, InsertedOn
<1>6. Around(cur, block, whole) \in Marks
  BY <1>2, <1>3, AroundTyped
<1> HIDE DEF d
<1> QED
  BY <1>1, <1>2, <1>5, <1>6, PlainCommitKeeps

\* The block goes to a row that is left.
LEMMA TargetTyped ==
  ASSUME NEW a, NEW d, Since(a, d), BlockReady(d), d.cur.y \in DOMAIN d.ls
  PROVE  MoveTarget(d) \in Places /\ MoveTarget(d).y >= 1
<1> DEFINE s == d.sel.s
           e == d.sel.e
           t == d.cur
           gone == IF WholeLines(d) THEN e.y - s.y + 1 ELSE e.y - s.y
<1>1. /\ s \in Places /\ e \in Places /\ t \in Places
      /\ s.y \in DOMAIN d.ls /\ e.y \in DOMAIN d.ls /\ s.y <= e.y /\ t.y \in DOMAIN d.ls
  BY ReadyMarks, CopyHas
<1>2. DOMAIN d.ls = 1..Len(d.ls) /\ Len(d.ls) \in Nat
  BY CopyHas DEF Texts
<1>3. MoveTarget(d) = IF t.y > e.y THEN At(t.y - gone, t.x)
                      ELSE IF t.y = e.y /\ t.x >= e.x THEN At(s.y, s.x + (t.x - e.x))
                      ELSE IF Precedes(t, s) THEN t ELSE s
  BY Zenon DEF MoveTarget
<1>4. gone \in {e.y - s.y + 1, e.y - s.y}
  OBVIOUS
<1> HIDE DEF gone, s, e, t
<1>5. /\ s.y \in Int /\ e.y \in Int /\ t.y \in Int /\ s.x \in Int /\ e.x \in Int /\ t.x \in Int
      /\ s.y >= 1 /\ t.y >= 1
  BY <1>1, <1>2 DEF Places
<1>6. CASE t.y > e.y
  <2>1. t.y - gone \in Int /\ t.y - gone >= 1
    BY <1>1, <1>4, <1>5, <1>6
  <2> HIDE DEF gone
  <2> QED
    BY <1>3, <1>5, <1>6, <2>1, AtTyped
<1>7. CASE ~(t.y > e.y) /\ t.y = e.y /\ t.x >= e.x
  <2>1. s.x + (t.x - e.x) \in Int
    BY <1>5
  <2> QED
    BY <1>3, <1>5, <1>7, <2>1, AtTyped
<1>8. CASE ~(t.y > e.y) /\ ~(t.y = e.y /\ t.x >= e.x)
  BY <1>1, <1>3, <1>5, <1>8
<1> QED
  BY <1>6, <1>7, <1>8

LEMMA MoveSelectionKeeps ==
  ASSUME HistoryKept, ~crashed, MoveSelection PROVE HistoryKept'
<1> DEFINE t == MoveTarget(Working)
           x == Excised(Working)
           y == Smaller(t.y, Len(x.ls))
           f == At(y, Smaller(t.x, Len(x.ls[y])))
           whole == WholeLines(Working) /\ f.x = 0
           block == Block(Working)
           c == [x EXCEPT !.cur = f]
           d == InsertBlock(c, block, whole)
<1>1. BlockReady(Working) /\ Commit("none", d, f, Around(f, block, whole))
  BY DEF MoveSelection
<1>2. Since(lines, Working) /\ Working.ls = lines /\ Working.cur = cur /\ cur.y \in DOMAIN lines
  BY WorkingSince
<1>3. block \in Texts /\ Len(block) \in Nat \ {0}
  BY <1>1, <1>2, BlockTyped
<1>4. whole \in BOOLEAN
  BY DEF WholeLines
<1>5. Since(lines, x) /\ x.ls # <<>>
  BY <1>1, <1>2, ExcisedOn
<1>6. t \in Places /\ t.y >= 1
  BY <1>1, <1>2, TargetTyped
<1> HIDE DEF block, whole, x, t
<1>7. x.ls \in Texts /\ IsCopy(x, x.ls, x.cur, x.sel, x.acts)
      /\ x.cur \in Places /\ x.sel \in Marks /\ x.acts \in Acts /\ Trail(lines, x.acts, x.ls)
  BY <1>5, CopyHas DEF IsCopy
<1>8. y \in DOMAIN x.ls /\ y \in Int
  <2>1. Len(x.ls) \in Nat \ {0} /\ DOMAIN x.ls = 1..Len(x.ls) /\ t.y \in Int
    BY <1>5, <1>6, <1>7 DEF Texts, Places
  <2> QED
    BY <1>6, <2>1 DEF Smaller
<1> HIDE DEF y
<1>9. f \in Places /\ f.y = y
  <2>1. Len(x.ls[y]) \in Int /\ t.x \in Int
    BY <1>6, <1>7, <1>8, LengthOfRow DEF Texts, Places
  <2>2. Smaller(t.x, Len(x.ls[y])) \in Int
    BY <2>1 DEF Smaller
  <2> QED
    BY <1>8, <2>2, AtTyped
<1> HIDE DEF f
<1>10. IsCopy(c, x.ls, f, x.sel, x.acts)
  BY <1>7, PartSet, Zenon
<1> HIDE DEF c
<1>11. Since(lines, c) /\ c.ls = x.ls /\ c.cur = f
  BY <1>7, <1>9, <1>10, CopyIs
<1>12. Since(lines, d)
  BY <1>3, <1>4, <1>8, <1>9, <1>11, InsertedOn
<1>13. Around(f, block, whole) \in Marks
  BY <1>3, <1>9, AroundTyped
<1> HIDE DEF d
<1> QED
  BY <1>1, <1>9, <1>12, <1>13, PlainCommitKeeps

LEMMA FormatRangeKeeps ==
  ASSUME HistoryKept, ~crashed, FormatRange PROVE HistoryKept'
<1> DEFINE Does(from, to, new) ==
             Edit("format", "none",
               [Working EXCEPT !.ls = Splice(@, from, to, new),
                               !.acts = [i \in 1..Len(new) |-> Act("insert", from + i - 1, <<>>)]
                                        \o [i \in 1..(to - from + 1) |->
                                              Act("delete", from + Len(new), lines[from + i - 1])],
                               !.cur = At(from, 0)])
<1>1. \E from \in DOMAIN lines : \E to \in from..Len(lines) :
        \E new \in Formatted(Rows(lines, from, to)) : Does(from, to, new)
  BY DEF FormatRange
<1> HIDE DEF Does
<1>2. PICK from \in DOMAIN lines, to \in Int :
        to \in from..Len(lines) /\ \E new \in Formatted(Rows(lines, from, to)) : Does(from, to, new)
  BY <1>1
<1>3. PICK new \in Formatted(Rows(lines, from, to)) : Does(from, to, new)
  BY <1>2
<1> DEFINE n == Len(new)
           d == [Working EXCEPT !.ls = Splice(@, from, to, new),
                                !.acts = [i \in 1..n |-> Act("insert", from + i - 1, <<>>)]
                                         \o [i \in 1..(to - from + 1) |->
                                               Act("delete", from + n, lines[from + i - 1])],
                                !.cur = At(from, 0)]
<1>4. /\ Since(lines, Working) /\ lines = Working.ls /\ Working.acts = <<>> /\ lines \in Texts
      /\ Len(lines) \in Nat /\ DOMAIN lines = 1..Len(lines)
  BY WorkingSince
<1>5. new \in Texts
  <2>1. from \in Nat \ {0} /\ to \in Int /\ from <= to + 1 /\ to <= Len(lines)
    BY <1>2, <1>4
  <2>2. Rows(lines, from, to) \in Texts
    BY <1>4, <2>1, RowsTyped
  <2> QED
    BY <2>2, FormattedTyped
<1>6. Edit("format", "none", d)
  BY <1>3, Zenon DEF Does
<1>7. Since(lines, d)
  <2>1. n = Len(new) /\ to \in from..Len(lines)
    BY <1>2
  <2>2. Exchanged(d, Working, lines, from, to, new, n)
    BY Zenon DEF Exchanged
  <2> HIDE DEF n, d
  <2> QED
    BY <1>4, <1>5, <2>1, <2>2, FormatOn
<1> HIDE DEF d
<1> QED
  BY <1>6, <1>7, PlainEditKeeps

-----------------------------------------------------------------------------
(* Edits of agents, undo, and the whole program. *)

LEMMA ClampedTyped ==
  ASSUME NEW ls \in Texts, ls # <<>>, NEW p \in Places, p = NoMark \/ p.y >= 1
  PROVE  Clamped(ls, p) \in Places
<1> DEFINE y == Smaller(p.y, Len(ls))
           x == Smaller(p.x, Len(ls[y]))
<1>1. CASE p = NoMark
  BY <1>1 DEF Clamped
<1>2. CASE p # NoMark
  <2>1. Clamped(ls, p) = At(y, x)
    BY <1>2 DEF Clamped
  <2>2. Len(ls) \in Nat \ {0} /\ DOMAIN ls = 1..Len(ls) /\ p.y \in Int /\ p.x \in Int
    BY DEF Texts, Places
  <2>3. y \in DOMAIN ls /\ y \in Int
    BY <1>2, <2>2 DEF Smaller
  <2> HIDE DEF y
  <2>4. Len(ls[y]) \in Int
    BY <2>3, LengthOfRow DEF Texts
  <2>5. x \in Int
    BY <2>2, <2>4 DEF Smaller
  <2> QED
    BY <2>1, <2>3, <2>5, AtTyped
<1> QED
  BY <1>1, <1>2

LEMMA AgentEditsKeep ==
  ASSUME HistoryKept, ~crashed, ApplyAgentEdits PROVE HistoryKept'
<1> DEFINE Does(d) ==
             IF d.ls = <<>>
             THEN crashed' = TRUE /\ UNCHANGED <<lines, cur, sel, stacks, edits>>
             ELSE LET c == Clamped(d.ls, d.cur)
                      m == [s |-> Clamped(d.ls, d.sel.s), e |-> Clamped(d.ls, d.sel.e)]
                  IN Commit("none", [d EXCEPT !.cur = c, !.sel = m], c, m)
<1>1. PICK es \in AgentEdits : Does(Proposed(es))
  BY Zenon DEF ApplyAgentEdits
<1>2. es \in Seq(ProposedEdits)
  BY DocumentAssumption DEF ProposedEdits, Texts
<1> DEFINE d == Proposed(es)
<1>3. Since(lines, Working) /\ Upright(Working)
  <2>1. OnText(sel, lines) /\ cur.y \in DOMAIN lines /\ DOMAIN lines = 1..Len(lines) /\ Working.cur = cur /\ Working.sel = sel
    BY WorkingSince
  <2>2. Upright(Working)
    BY <2>1 DEF Upright, OnText
  <2> QED
    BY <2>2, WorkingSince
<1>4. Since(lines, d) /\ Upright(d)
  BY <1>2, <1>3, ProposedOn
<1>5. Does(d)
  BY <1>1
<1> HIDE DEF d
<1>6. CASE d.ls = <<>>
  <2>1. /\ lines' = lines /\ cur' = cur /\ sel' = sel /\ undoStack' = undoStack /\ edits' = edits
        /\ crashed' = TRUE
    BY <1>5, <1>6 DEF stacks
  <2> QED
    BY <2>1 DEF HistoryKept, Typed
<1>7. CASE d.ls # <<>>
  <2> DEFINE c == Clamped(d.ls, d.cur)
             m == [s |-> Clamped(d.ls, d.sel.s), e |-> Clamped(d.ls, d.sel.e)]
             q == [d EXCEPT !.cur = c]
             x == [q EXCEPT !.sel = m]
  <2>1. x = [d EXCEPT !.cur = c, !.sel = m]
    BY Zenon
  <2>2. Commit("none", x, c, m)
    BY <1>5, <1>7, <2>1, Zenon
  <2>3. /\ d.ls \in Texts /\ d.cur \in Places /\ d.sel \in Marks /\ d.acts \in Acts
        /\ Trail(lines, d.acts, d.ls) /\ IsCopy(d, d.ls, d.cur, d.sel, d.acts)
    BY <1>4, CopyHas DEF IsCopy
  <2>4. d.sel.s \in Places /\ d.sel.e \in Places
    BY <2>3 DEF Marks
  <2>5. Clamped(d.ls, d.sel.s) \in Places /\ Clamped(d.ls, d.sel.e) \in Places /\ c \in Places
    BY <1>4, <1>7, <2>3, <2>4, ClampedTyped DEF Upright
  <2>6. m \in Marks
    BY <2>5 DEF Marks
  <2> HIDE DEF c, m
  <2>7. IsCopy(q, d.ls, c, d.sel, d.acts)
    BY <2>3, PartSet, Zenon
  <2> HIDE DEF q
  <2>8. IsCopy(x, d.ls, c, m, d.acts)
    BY <2>7, PartSet, Zenon
  <2> HIDE DEF x
  <2>9. Since(lines, x)
    BY <2>3, <2>5, <2>6, <2>8, CopyIs
  <2> QED
    BY <2>2, <2>5, <2>6, <2>9, PlainCommitKeeps
<1> QED
  BY <1>6, <1>7

\* undo() takes back the newest group, and what is left still leads back.
LEMMA UndoKeeps ==
  ASSUME HistoryKept, ~crashed, Undo
  PROVE  /\ HistoryKept'
         /\ ~crashed' /\ lines' = Last(undoStack).was /\ cur'.y \in DOMAIN lines'
<1> DEFINE g == Last(undoStack)
           r == Reverted(g)
<1>1. undoStack \in Seq(Groups) /\ undoStack # <<>> /\ Chain(undoStack, lines)
  BY DEF Undo, HistoryKept, Typed
<1>2. g \in Groups /\ Kept(g, lines) /\ Front(undoStack) \in Seq(Groups) /\ Chain(Front(undoStack), g.was)
  BY <1>1, FrontKeeps, StackHas
<1>3. /\ lines' = r.ls /\ sel' = r.sel /\ cur' = g.before /\ edits' = edits
      /\ crashed' = (r.bad \/ OffText(r.ls, g.before, r.sel)) /\ undoStack' = Front(undoStack)
  BY Zenon DEF Undo, TakeBack
<1>4. sel \in Marks /\ OnText(sel, lines) /\ edits \in Nat
  BY WorkingSince
<1> HIDE DEF g
<1>5. g.acts \in Acts /\ g.before \in Places /\ g.was \in Texts
  BY <1>2 DEF Groups
<1>6. Trail(g.was, g.acts, lines) /\ g.before.y \in DOMAIN g.was
  BY <1>2 DEF Kept
<1>7. r.ls = g.was /\ ~r.bad /\ r.sel \in Marks /\ OnText(r.sel, g.was)
  BY <1>4, <1>5, <1>6, RevertedOn
<1> HIDE DEF r
<1>8. ~OffText(r.ls, g.before, r.sel)
  BY <1>6, <1>7 DEF OffText, OnText
<1>9. ~crashed' /\ crashed' \in BOOLEAN
  BY <1>3, <1>7, <1>8
<1>10. Typed'
  BY <1>2, <1>3, <1>4, <1>5, <1>7, <1>9 DEF Typed
<1>11. ~OffText(lines', cur', sel')
  BY <1>3, <1>8
<1>12. Chain(undoStack', lines')
  BY <1>2, <1>3, <1>7
<1> QED
  BY <1>3, <1>6, <1>7, <1>9, <1>10, <1>11, <1>12 DEF HistoryKept, g

LEMMA InitKept ==
  ASSUME Init PROVE HistoryKept
<1>1. lines \in Texts /\ lines # <<>> /\ Len(lines) \in Nat /\ DOMAIN lines = 1..Len(lines)
  BY DocumentAssumption DEF Init, Texts
<1>2. Typed
  <2>1. cur \in Places
    BY AtTyped DEF Init
  <2>2. undoStack = <<>> /\ undoStack \in Seq(Groups)
    BY DEF Init
  <2>3. sel = NoSel /\ sel \in Marks
    BY AtTyped DEF Init
  <2> QED
    BY <1>1, <2>1, <2>2, <2>3 DEF Init, Typed
<1>3. 1 \in DOMAIN lines /\ cur.y = 1
  BY <1>1 DEF Init, At
<1>4. ~OffText(lines, cur, sel)
  BY <1>3 DEF OffText, Init, NoSel
<1>5. Len(undoStack) = 0 /\ 1..0 = {}
  BY DEF Init
<1>6. Chain(undoStack, lines)
  BY <1>5 DEF Chain
<1> QED
  BY <1>2, <1>4, <1>6 DEF HistoryKept

LEMMA NextKept ==
  ASSUME "redo" \notin Ops, HistoryKept, [Next]_vars PROVE HistoryKept'
<1>1. CASE Next
  <2>0. ~crashed
    BY <1>1 DEF Next
  <2>1. CASE Typing
    BY <2>0, <2>1, InsertCharKeeps, SplitLineKeeps, InsertTextKeeps, ReplaceCurrentKeeps DEF Typing
  <2>2. CASE Deleting
    BY <2>0, <2>2, BackspaceKeeps, DeleteCharKeeps, CutRowKeeps, JoinByWordKeeps, DeleteLineKeeps DEF Deleting
  <2>3. CASE Marking
    BY <2>0, <2>3, MoveCursorKeeps, MarkingKeeps DEF Marking
  <2>4. CASE Blocks
    BY <2>0, <2>4, DeleteSelectionKeeps, CopySelectionKeeps, MoveSelectionKeeps DEF Blocks
  <2>5. CASE FormatRange
    BY <2>0, <2>5, FormatRangeKeeps
  <2>6. CASE ApplyAgentEdits
    BY <2>0, <2>6, AgentEditsKeep
  <2>7. CASE Undo
    BY <2>0, <2>7, UndoKeeps
  <2>8. CASE Redo
    BY <2>8 DEF Redo
  <2> QED
    BY <1>1, <2>1, <2>2, <2>3, <2>4, <2>5, <2>6, <2>7, <2>8 DEF Next
<1>2. CASE UNCHANGED vars
  <2>1. /\ lines' = lines /\ cur' = cur /\ sel' = sel /\ undoStack' = undoStack /\ edits' = edits
        /\ crashed' = crashed
    BY <1>2 DEF vars, stacks
  <2> QED
    BY <2>1 DEF HistoryKept, Typed
<1> QED
  BY <1>1, <1>2

LEMMA KeptTakesBack == HistoryKept => UndoTakesBack
<1> SUFFICES ASSUME HistoryKept, NEW k \in 1..Len(undoStack)
             PROVE  LinesAtUndo(k) = undoStack[Len(undoStack) - k + 1].was
  BY DEF UndoTakesBack
<1> DEFINE m == Len(undoStack)
<1>1. m \in Nat /\ \A i \in 1..m : undoStack[i] \in Groups
  BY StackHas DEF HistoryKept, Typed
<1>2. \A i \in 1..m : TextBefore(Follows(undoStack, lines, i), undoStack[i].acts) = undoStack[i].was
  <2> SUFFICES ASSUME NEW i \in 1..m
               PROVE  TextBefore(Follows(undoStack, lines, i), undoStack[i].acts) = undoStack[i].was
    OBVIOUS
  <2>1. Trail(undoStack[i].was, undoStack[i].acts, Follows(undoStack, lines, i))
    BY DEF HistoryKept, Chain, Kept
  <2>2. undoStack[i].acts \in Acts
    BY <1>1 DEF Groups
  <2> QED
    BY <2>1, <2>2, TextBeforeIs
<1>3. m = Len(undoStack) /\ k \in 1..m
  OBVIOUS
<1> HIDE DEF m
<1>4. LinesAtUndo(k) = undoStack[m - k + 1].was
  BY <1>1, <1>2, <1>3, ShownAtUndo
<1> QED
  BY <1>4 DEF m

\* HistoryStays: without redo, unless the program has stopped on a bad index, the cursor and
\* the markers are on rows of the text; and each undo group leads back, action by action,
\* from the text before the next group to the text before its own command, past texts
\* that have the rows its actions name.
THEOREM HistoryStays ==
  ASSUME "redo" \notin Ops PROVE Spec => []HistoryKept
<1>1. Init => HistoryKept
  BY InitKept
<1>2. HistoryKept /\ [Next]_vars => HistoryKept'
  BY NextKept
<1> QED
  BY <1>1, <1>2, PTL DEF Spec

\* UndoTakesAllBack: without redo, for any text, commands, blocks, formatting, proposals of
\* agents and limit of the stack, get_lines_at_undo(k) is the text of before the last k
\* groups, however keystrokes coalesced and groups were merged or dropped
\* (document_undo.cpp, end_edit_group and get_lines_at_undo).
THEOREM UndoTakesAllBack ==
  ASSUME "redo" \notin Ops PROVE Spec => []UndoTakesBack
<1>1. Spec => []HistoryKept
  BY HistoryStays
<1> QED
  BY <1>1, KeptTakesBack, PTL

\* UndoStepsBack: without redo, undo() never indexes a row that is gone, although it asks
\* only for some of them, gives exactly the text of before the newest group and puts the
\* cursor on a row of it.
THEOREM UndoStepsBack ==
  ASSUME "redo" \notin Ops PROVE Spec => UndoSteps
<1> DEFINE Step == Undo => ~crashed' /\ lines' = Last(undoStack).was /\ cur'.y \in DOMAIN lines'
<1>1. HistoryKept /\ [Next]_vars => [Step]_vars
  BY UndoKeeps DEF Next
<1>2. Spec => []HistoryKept
  BY HistoryStays
<1>3. Spec => [][Step]_vars
  <2> HIDE DEF Step
  <2> QED
    BY <1>1, <1>2, PTL DEF Spec
<1> QED
  BY <1>3 DEF UndoSteps
-----------------------------------------------------------------------------
(* The cursor and the markers of the document, and the places kept for undo. *)

\* The program runs, and the cursor and the markers are at places of the text.
Sound == ~crashed /\ Placed(lines, cur, sel)

\* Each group of the stack has the text from before it and a place of it.
Rooted(stack) == \A k \in DOMAIN stack : InPlace(stack[k].before, stack[k].was)

PlacesKept == Sound /\ Rooted(undoStack)

\* What a step keeps that leaves the places in the text.
StaysSound == Sound' /\ (Rooted(undoStack) => Rooted(undoStack)')

LEMMA RootedHas ==
  ASSUME NEW stack \in Seq(Groups)
  PROVE  Rooted(stack) <=> \A k \in 1..Len(stack) : InPlace(stack[k].before, stack[k].was)
BY StackHas DEF Rooted

LEMMA AppendRooted ==
  ASSUME NEW stack \in Seq(Groups), Rooted(stack), NEW g \in Groups, InPlace(g.before, g.was)
  PROVE  Rooted(Append(stack, g))
<1> DEFINE n == Len(stack)
           s == Append(stack, g)
<1>1. n \in Nat /\ s \in Seq(Groups) /\ Len(s) = n + 1 /\ s[n + 1] = g /\ \A k \in 1..n : s[k] = stack[k]
  OBVIOUS
<1>2. \A k \in 1..n : InPlace(stack[k].before, stack[k].was)
  BY RootedHas
<1> HIDE DEF s, n
<1>3. \A k \in 1..n + 1 : k = n + 1 \/ k \in 1..n
  BY <1>1
<1>4. \A k \in 1..Len(s) : InPlace(s[k].before, s[k].was)
  BY <1>1, <1>2, <1>3
<1>5. Rooted(s)
  BY <1>1, <1>4, RootedHas
<1> QED
  BY <1>5 DEF s

LEMMA TailRooted ==
  ASSUME NEW stack \in Seq(Groups), stack # <<>>, Rooted(stack)
  PROVE  Tail(stack) \in Seq(Groups) /\ Rooted(Tail(stack))
<1> DEFINE n == Len(stack)
           s == Tail(stack)
<1>1. n \in Nat \ {0} /\ s \in Seq(Groups) /\ Len(s) = n - 1 /\ \A k \in 1..n - 1 : s[k] = stack[k + 1]
  OBVIOUS
<1>2. \A k \in 1..n : InPlace(stack[k].before, stack[k].was)
  BY RootedHas
<1> HIDE DEF s, n
<1>3. \A k \in 1..n - 1 : k + 1 \in 1..n
  BY <1>1
<1>4. \A k \in 1..Len(s) : InPlace(s[k].before, s[k].was)
  BY <1>1, <1>2, <1>3
<1>5. Rooted(s)
  BY <1>1, <1>4, RootedHas
<1> QED
  BY <1>1, <1>5 DEF s

LEMMA FrontRooted ==
  ASSUME NEW stack \in Seq(Groups), stack # <<>>, Rooted(stack)
  PROVE  Rooted(Front(stack)) /\ InPlace(Last(stack).before, Last(stack).was)
<1> DEFINE n == Len(stack)
           s == Front(stack)
<1>1. n \in Nat \ {0} /\ Last(stack) = stack[n] /\ n \in 1..n
  BY StackHas
<1>2. s \in Seq(Groups) /\ Len(s) = n - 1 /\ \A k \in 1..n - 1 : s[k] = stack[k]
  <2>1. 1 \in Nat \ {0} /\ n - 1 \in Nat /\ 1 <= n - 1 + 1 /\ n - 1 <= Len(stack) /\ n - 1 + 1 - 1 = n - 1
    BY <1>1
  <2>2. /\ SubSeq(stack, 1, n - 1) \in Seq(Groups) /\ Len(SubSeq(stack, 1, n - 1)) = n - 1 + 1 - 1
        /\ \A k \in 1..n - 1 + 1 - 1 : SubSeq(stack, 1, n - 1)[k] = stack[1 + k - 1]
    BY <2>1, Slice
  <2>3. s = SubSeq(stack, 1, n - 1)
    BY DEF Front
  <2>4. \A k \in 1..n - 1 : 1 + k - 1 = k
    OBVIOUS
  <2> HIDE DEF s, n
  <2> QED
    BY <2>1, <2>2, <2>3, <2>4
<1>3. \A k \in 1..n : InPlace(stack[k].before, stack[k].was)
  BY RootedHas
<1> HIDE DEF s, n
<1>4. \A k \in 1..n - 1 : k \in 1..n
  BY <1>1
<1>5. \A k \in 1..Len(s) : InPlace(s[k].before, s[k].was)
  BY <1>2, <1>3, <1>4
<1>6. Rooted(s)
  BY <1>2, <1>5, RootedHas
<1> QED
  BY <1>1, <1>3, <1>6 DEF s

\* One group of the stack becomes another with the same place and text before it.
LEMMA LastRooted ==
  ASSUME NEW stack \in Seq(Groups), stack # <<>>, Rooted(stack), NEW g,
         g.before = stack[Len(stack)].before, g.was = stack[Len(stack)].was
  PROVE  Rooted([stack EXCEPT ![Len(stack)] = g])
<1> DEFINE n == Len(stack)
           s == [stack EXCEPT ![n] = g]
<1>1. n \in 1..n /\ DOMAIN stack = 1..n
  BY StackHas
<1>2. DOMAIN s = 1..n /\ \A k \in 1..n : s[k] = IF k = n THEN g ELSE stack[k]
  BY <1>1
<1>3. \A k \in 1..n : InPlace(stack[k].before, stack[k].was)
  BY RootedHas
<1> HIDE DEF s
<1>4. \A k \in DOMAIN s : InPlace(s[k].before, s[k].was)
  BY <1>2, <1>3
<1> QED
  BY <1>4 DEF Rooted, s

\* break_undo_coalescing.
LEMMA UncoalescedRooted ==
  ASSUME NEW stack \in Seq(Groups), Rooted(stack)
  PROVE  Rooted(Uncoalesced(stack))
<1> DEFINE l == stack[Len(stack)]
           g == [l EXCEPT !.type = "none"]
<1>1. CASE stack = <<>>
  BY <1>1 DEF Uncoalesced
<1>2. CASE stack # <<>>
  <2>1. l \in Groups
    BY <1>2, StackHas
  <2>2. g.before = l.before /\ g.was = l.was
    BY <2>1 DEF Groups
  <2>3. Uncoalesced(stack) = [stack EXCEPT ![Len(stack)] = g]
    BY <1>2, Zenon DEF Uncoalesced
  <2> HIDE DEF g
  <2> QED
    BY <1>2, <2>2, <2>3, LastRooted
<1> QED
  BY <1>1, <1>2

LEMMA PushedRooted ==
  ASSUME NEW stack \in Seq(Groups), Rooted(stack), NEW g \in Groups, InPlace(g.before, g.was)
  PROVE  Rooted(Pushed(stack, g))
<1> DEFINE l == stack[Len(stack)]
           m == Merged(l, g)
<1>1. CASE stack # <<>> /\ Mergeable(Last(stack), g)
  <2>1. l \in Groups
    BY <1>1, StackHas
  <2>2. m.before = l.before /\ m.was = l.was
    BY <2>1 DEF Merged, Groups
  <2>3. Pushed(stack, g) = [stack EXCEPT ![Len(stack)] = m]
    BY <1>1, Zenon DEF Pushed
  <2> HIDE DEF m
  <2> QED
    BY <1>1, <2>2, <2>3, LastRooted
<1>2. CASE ~(stack # <<>> /\ Mergeable(Last(stack), g))
  <2>1. Pushed(stack, g) = IF Len(stack) = MaxUndo THEN Append(Tail(stack), g) ELSE Append(stack, g)
    BY <1>2, Zenon DEF Pushed
  <2>2. Rooted(Append(stack, g))
    BY AppendRooted
  <2>3. CASE Len(stack) = MaxUndo
    <3>1. stack # <<>>
      BY <2>3, DocumentAssumption
    <3> QED
      BY <2>1, <2>3, <3>1, TailRooted, AppendRooted
  <2> QED
    BY <2>1, <2>2, <2>3
<1> QED
  BY <1>1, <1>2

LEMMA PlacedOnText ==
  ASSUME NEW ls, NEW c, NEW ms, Placed(ls, c, ms)
  PROVE  ~OffText(ls, c, ms)
BY DEF Placed, MarksIn, InPlace, OffText, NoSel

LEMMA CommitPlaces ==
  ASSUME HistoryKept, Sound, NEW d, Since(lines, d), NEW type \in Types,
         NEW c, NEW m, Commit(type, d, c, m), Placed(d.ls, c, m)
  PROVE  StaysSound
<1> DEFINE g == [acts |-> d.acts, before |-> cur, after |-> d.cur, type |-> type, was |-> lines]
<1>1. /\ lines \in Texts /\ cur \in Places /\ undoStack \in Seq(Groups) /\ InPlace(cur, lines)
  BY DEF HistoryKept, Typed, Sound, Placed
<1>2. d.ls \in Texts /\ d.cur \in Places /\ d.acts \in Acts
  BY CopyHas
<1>3. lines' = d.ls /\ cur' = c /\ sel' = m /\ crashed' = OffText(d.ls, c, m)
  BY Zenon DEF Commit, Store
<1>4. ASSUME Rooted(undoStack) PROVE Rooted(undoStack')
  <2>1. CASE d.acts = <<>>
    <3>1. undoStack' = undoStack
      BY <2>1 DEF Commit, Store, stacks
    <3> QED
      BY <1>4, <3>1
  <2>2. CASE d.acts # <<>>
    <3>1. undoStack' = Pushed(undoStack, g)
      BY <2>2, Zenon DEF Commit, Store
    <3>2. g \in Groups
      BY <1>1, <1>2 DEF Groups
    <3>3. g.was = lines /\ g.before = cur
      OBVIOUS
    <3> HIDE DEF g
    <3> QED
      BY <1>1, <1>4, <3>1, <3>2, <3>3, PushedRooted
  <2> QED
    BY <2>1, <2>2
<1>5. ~crashed'
  BY <1>3, PlacedOnText
<1>6. Placed(lines', cur', sel')
  BY <1>3
<1> QED
  BY <1>4, <1>5, <1>6 DEF StaysSound, Sound, Rooted

LEMMA EditPlaces ==
  ASSUME HistoryKept, Sound, NEW d, Since(lines, d), NEW type \in Types, NEW op, Edit(op, type, d),
         Placed(d.ls, d.cur, d.sel)
  PROVE  StaysSound
BY CommitPlaces DEF Edit

LEMMA SettlePlaces ==
  ASSUME HistoryKept, Sound, NEW c, NEW m, InPlace(c, lines), MarksIn(m, lines), Settle(c, m)
  PROVE  StaysSound
<1>1. /\ lines' = lines /\ cur' = c /\ sel' = m /\ crashed' = crashed
      /\ undoStack' = Uncoalesced(undoStack)
  BY DEF Settle
<1>2. undoStack \in Seq(Groups) /\ ~crashed
  BY DEF HistoryKept, Typed, Sound
<1>3. Rooted(undoStack) => Rooted(undoStack')
  BY <1>1, <1>2, UncoalescedRooted
<1>4. Placed(lines', cur', sel')
  BY <1>1 DEF Placed
<1> QED
  BY <1>1, <1>2, <1>3, <1>4 DEF StaysSound, Sound, Rooted

LEMMA WorkingPlaced ==
  ASSUME Sound
  PROVE  /\ ~crashed /\ InPlace(cur, lines) /\ MarksIn(sel, lines)
         /\ Placed(Working.ls, Working.cur, Working.sel)
BY DEF Sound, Placed, Working

-----------------------------------------------------------------------------
(* Typing, deleting and marking leave them in the text. *)

LEMMA TypesAre == {"typing", "backspace", "delete_line", "none"} = Types
BY DEF Types

LEMMA InsertCharPlaces ==
  ASSUME HistoryKept, Sound, InsertChar PROVE StaysSound
<1> DEFINE d == Put(Working, NextChar)
<1>1. ~crashed /\ Placed(Working.ls, Working.cur, Working.sel)
  BY WorkingPlaced
<1>2. Since(lines, d)
  BY <1>1, WorkingSince, PutOn
<1>3. Placed(d.ls, d.cur, d.sel)
  BY <1>1, WorkingSince, PutPlaced
<1>4. Edit("type", "typing", d)
  BY DEF InsertChar
<1> HIDE DEF d
<1> QED
  BY <1>2, <1>3, <1>4, EditPlaces, TypesAre

LEMMA SplitLinePlaces ==
  ASSUME HistoryKept, Sound, SplitLine PROVE StaysSound
<1> DEFINE d == Split(Working)
<1>1. ~crashed /\ Placed(Working.ls, Working.cur, Working.sel)
  BY WorkingPlaced
<1>2. Since(lines, d)
  BY <1>1, WorkingSince, SplitOn
<1>3. Placed(d.ls, d.cur, d.sel)
  BY <1>1, WorkingSince, SplitPlaced
<1>4. Edit("enter", "none", d)
  BY DEF SplitLine
<1> HIDE DEF d
<1> QED
  BY <1>2, <1>3, <1>4, EditPlaces, TypesAre

LEMMA InsertTextPlaces ==
  ASSUME HistoryKept, Sound, InsertText PROVE StaysSound
<1> DEFINE p == Put(Working, NextChar)
           q == Split(p)
           r == Split(q)
           d == Put(r, NextChar + 500)
           In(x) == Since(lines, x) /\ x.cur.y \in DOMAIN x.ls /\ Placed(x.ls, x.cur, x.sel)
<1>1. Edit("paste", "none", d)
  BY DEF InsertText
<1>2. ~crashed /\ Placed(Working.ls, Working.cur, Working.sel)
  BY WorkingPlaced
<1>3. NextChar \in Nat /\ NextChar + 500 \in Nat
  BY <1>2, WorkingSince
<1>4. In(p)
  BY <1>2, WorkingSince, PutOn, PutPlaced
<1> HIDE DEF p
<1>5. In(q)
  BY <1>4, SplitOn, SplitPlaced
<1> HIDE DEF q
<1>6. In(r)
  BY <1>5, SplitOn, SplitPlaced
<1> HIDE DEF r
<1> DEFINE c == NextChar + 500
<1>7. Since(lines, d) /\ Placed(d.ls, d.cur, d.sel)
  <2>1. c \in Nat /\ d = Put(r, c)
    BY <1>3
  <2> HIDE DEF c, d
  <2>2. Since(lines, d)
    BY <1>6, <2>1, PutOn
  <2>3. Placed(d.ls, d.cur, d.sel)
    BY <1>6, <2>1, PutPlaced
  <2> QED
    BY <2>2, <2>3
<1> HIDE DEF d
<1> QED
  BY <1>1, <1>7, EditPlaces, TypesAre

\* n characters taken out behind the column x of the cursor's row.
LEMMA CutPlaces ==
  ASSUME HistoryKept, Sound, NEW x \in Nat, NEW n \in Nat, x + n <= Len(lines[cur.y]),
         NEW p, p = At(cur.y, x), NEW op, NEW type \in Types, Edit(op, type, Cut(Working, p, n))
  PROVE  StaysSound
<1> DEFINE d == Cut(Working, p, n)
<1>1. ~crashed /\ MarksIn(sel, lines) /\ InPlace(cur, lines)
  BY WorkingPlaced
<1>2. Since(lines, Working) /\ Working.ls = lines /\ Working.sel = sel /\ lines \in Texts /\ cur.y \in Int
  BY <1>1, WorkingSince
<1>3. p \in Places /\ p.y = cur.y /\ p.x = x
  BY <1>2, AtTyped
<1>4. cur.y \in 1..Len(lines) /\ Len(lines[cur.y]) \in Nat
  BY <1>1, <1>2, PlaceIs
<1>5. x <= Len(lines[cur.y])
  BY <1>4
<1>6. InPlace(p, lines) /\ cur.y \in DOMAIN lines
  <2>1. x \in 0..Len(lines[cur.y])
    BY <1>4, <1>5
  <2>2. cur.y \in DOMAIN lines
    BY <1>1 DEF InPlace
  <2> QED
    BY <1>3, <2>1, <2>2 DEF InPlace
<1>7. Since(lines, d)
  <2>1. n \in Int /\ p.y \in DOMAIN Working.ls
    BY <1>2, <1>3, <1>6
  <2> QED
    BY <1>2, <1>3, <2>1, CutOn
<1>8. Placed(d.ls, d.cur, d.sel)
  BY <1>1, <1>2, <1>3, <1>6, CutPlaced
<1>9. Edit(op, type, d)
  OBVIOUS
<1> HIDE DEF d
<1> QED
  BY <1>7, <1>8, <1>9, EditPlaces

LEMMA JoinPlaces ==
  ASSUME HistoryKept, Sound, NEW y \in DOMAIN lines, y - 1 \in DOMAIN lines,
         NEW type \in Types, NEW op, Edit(op, type, Join(Working, y))
  PROVE  StaysSound
<1> DEFINE d == Join(Working, y)
<1>1. ~crashed /\ MarksIn(sel, lines)
  BY WorkingPlaced
<1>2. Since(lines, Working) /\ Working.ls = lines /\ Working.sel = sel
  BY <1>1, WorkingSince
<1>3. Since(lines, d)
  BY <1>2, JoinOn
<1>4. Placed(d.ls, d.cur, d.sel)
  BY <1>1, <1>2, JoinPlaced
<1>5. Edit(op, type, d)
  OBVIOUS
<1> HIDE DEF d
<1> QED
  BY <1>3, <1>4, <1>5, EditPlaces

LEMMA CursorIs ==
  ASSUME HistoryKept, Sound
  PROVE  /\ cur \in Places /\ cur.y \in Int /\ cur.y \in DOMAIN lines /\ cur.x \in Nat /\ cur.x <= Len(lines[cur.y])
         /\ DOMAIN lines = 1..Len(lines) /\ Len(lines) \in Nat /\ Len(lines[cur.y]) \in Nat
         /\ cur = At(cur.y, cur.x)
<1>1. ~crashed /\ InPlace(cur, lines)
  BY WorkingPlaced
<1>2. /\ cur \in Places /\ cur.y \in Int /\ cur.y \in DOMAIN lines /\ lines \in Texts
      /\ DOMAIN lines = 1..Len(lines) /\ Len(lines) \in Nat
  BY <1>1, WorkingSince
<1>3. cur = At(cur.y, cur.x)
  BY <1>2 DEF Places, At
<1> QED
  BY <1>1, <1>2, <1>3, PlaceIs

LEMMA BackspacePlaces ==
  ASSUME HistoryKept, Sound, Backspace PROVE StaysSound
<1>1. CASE cur.x > 0 /\ Edit("backspace", "backspace", Cut(Working, At(cur.y, cur.x - 1), 1))
  <2>1. cur.x - 1 \in Nat /\ 1 \in Nat /\ (cur.x - 1) + 1 <= Len(lines[cur.y])
    BY <1>1, CursorIs
  <2> QED
    BY <1>1, <2>1, CutPlaces, TypesAre
<1>2. CASE cur.x <= 0 /\ cur.y > 1 /\ Edit("backspace", "backspace", Join(Working, cur.y))
  <2>1. cur.y \in DOMAIN lines /\ cur.y - 1 \in DOMAIN lines
    BY <1>2, CursorIs
  <2> QED
    BY <1>2, <2>1, JoinPlaces, TypesAre
<1> QED
  BY <1>1, <1>2 DEF Backspace

LEMMA DeleteCharPlaces ==
  ASSUME HistoryKept, Sound, DeleteChar PROVE StaysSound
<1>1. CASE cur.x < Len(lines[cur.y]) /\ Edit("delete", "backspace", Cut(Working, cur, 1))
  <2>1. cur = At(cur.y, cur.x) /\ 1 \in Nat /\ cur.x \in Nat /\ cur.x + 1 <= Len(lines[cur.y])
    BY <1>1, CursorIs
  <2> QED
    BY <1>1, <2>1, CutPlaces, TypesAre
<1>2. CASE /\ cur.x >= Len(lines[cur.y]) /\ cur.y < Len(lines)
           /\ Edit("delete", "backspace", Join(Working, cur.y + 1))
  <2> DEFINE y == cur.y + 1
  <2>1. y \in DOMAIN lines /\ y - 1 \in DOMAIN lines
    BY <1>2, CursorIs
  <2>2. Edit("delete", "backspace", Join(Working, y))
    BY <1>2
  <2> HIDE DEF y
  <2> QED
    BY <2>1, <2>2, JoinPlaces, TypesAre
<1> QED
  BY <1>1, <1>2 DEF DeleteChar

LEMMA CutRowPlaces ==
  ASSUME HistoryKept, Sound, CutRow PROVE StaysSound
<1>1. CASE \E n \in 1..Len(lines[cur.y]) : cur.x + n <= Len(lines[cur.y]) /\ Edit("cut", "none", Cut(Working, cur, n))
  <2>1. PICK n \in 1..Len(lines[cur.y]) :
          cur.x + n <= Len(lines[cur.y]) /\ Edit("cut", "none", Cut(Working, cur, n))
    BY <1>1
  <2>2. n \in Nat /\ cur.x \in Nat /\ cur = At(cur.y, cur.x)
    BY CursorIs
  <2> QED
    BY <2>1, <2>2, CutPlaces, TypesAre
<1>2. CASE \E x \in 0..(cur.x - 1) : Edit("cut", "none", Cut(Working, At(cur.y, x), cur.x - x))
  <2>1. PICK x \in 0..(cur.x - 1) : Edit("cut", "none", Cut(Working, At(cur.y, x), cur.x - x))
    BY <1>2
  <2>2. x \in Nat /\ cur.x - x \in Nat /\ x + (cur.x - x) <= Len(lines[cur.y])
    BY CursorIs
  <2> QED
    BY <2>1, <2>2, CutPlaces, TypesAre
<1> QED
  BY <1>1, <1>2 DEF CutRow

LEMMA JoinByWordPlaces ==
  ASSUME HistoryKept, Sound, JoinByWord PROVE StaysSound
<1>1. CASE /\ cur.x >= Len(lines[cur.y]) /\ cur.y < Len(lines)
           /\ Edit("cut", "none", Join(Working, cur.y + 1))
  <2> DEFINE y == cur.y + 1
  <2>1. y \in DOMAIN lines /\ y - 1 \in DOMAIN lines
    BY <1>1, CursorIs
  <2>2. Edit("cut", "none", Join(Working, y))
    BY <1>1
  <2> HIDE DEF y
  <2> QED
    BY <2>1, <2>2, JoinPlaces, TypesAre
<1>2. CASE cur.x = 0 /\ cur.y > 1 /\ Edit("cut", "backspace", Join(Working, cur.y))
  <2>1. cur.y \in DOMAIN lines /\ cur.y - 1 \in DOMAIN lines
    BY <1>2, CursorIs
  <2> QED
    BY <1>2, <2>1, JoinPlaces, TypesAre
<1> QED
  BY <1>1, <1>2 DEF JoinByWord

LEMMA ReplaceCurrentPlaces ==
  ASSUME HistoryKept, Sound, ReplaceCurrent PROVE StaysSound
<1>1. PICK n \in 1..(Len(lines[cur.y]) - cur.x), new \in {<<>>, <<NextChar>>} :
        Edit("replace", "typing",
          [Record(Working, "replace", cur.y)
             EXCEPT !.ls[cur.y] = Before(@, cur.x) \o new \o After(@, cur.x + n),
                    !.sel = ForInsert(ForDelete(@, cur, n), cur, Len(new)),
                    !.cur = At(cur.y, cur.x + Len(new))])
  BY DEF ReplaceCurrent
<1> DEFINE r == Record(Working, "replace", cur.y)
           d == [r EXCEPT !.ls[cur.y] = Before(@, cur.x) \o new \o After(@, cur.x + n),
                          !.sel = ForInsert(ForDelete(@, cur, n), cur, Len(new)),
                          !.cur = At(cur.y, cur.x + Len(new))]
           z == Before(lines[cur.y], cur.x) \o new \o After(lines[cur.y], cur.x + n)
           ks == [lines EXCEPT ![cur.y] = z]
           m == ForInsert(ForDelete(sel, cur, n), cur, Len(new))
           p == At(cur.y, cur.x + Len(new))
<1>2. ~crashed /\ InPlace(cur, lines) /\ MarksIn(sel, lines)
  BY WorkingPlaced
<1>3. /\ Since(lines, Working) /\ Working.ls = lines /\ Working.cur = cur /\ Working.sel = sel
      /\ cur.y \in DOMAIN lines /\ NextChar \in Nat /\ lines \in Texts /\ sel \in Marks /\ cur \in Places
  BY <1>2, WorkingSince
<1>4. n \in Int /\ n \in Nat /\ new \in Row /\ cur.x + n <= Len(lines[cur.y])
  BY <1>3, OneChar, NoChar, CursorIs
<1>5. Placed(ks, p, m)
  BY <1>2, <1>3, <1>4, ReplacePlaced
<1>6. r.ls = lines /\ r.sel = sel
  BY <1>3, RecordReplaces
<1> HIDE DEF r
<1>7. SetTo(d, r, ks, m, p)
  BY <1>6, Zenon DEF SetTo
<1>8. Edit("replace", "typing", d)
  BY <1>1, Zenon DEF r
<1> HIDE DEF d
<1>9. SetTo(d, Record(Working, "replace", Working.cur.y),
            [Working.ls EXCEPT ![Working.cur.y] = Before(@, Working.cur.x) \o new \o After(@, Working.cur.x + n)],
            ForInsert(ForDelete(Working.sel, Working.cur, n), Working.cur, Len(new)),
            At(Working.cur.y, Working.cur.x + Len(new)))
  BY <1>3, <1>7, Zenon DEF r
<1>10. Since(lines, d) /\ d.ls = ks /\ d.cur = p /\ d.sel = m
  <2>1. /\ Since(lines, d)
        /\ Becomes(d, [Working.ls EXCEPT ![Working.cur.y] = Before(Working.ls[Working.cur.y], Working.cur.x) \o new
                                                            \o After(Working.ls[Working.cur.y], Working.cur.x + n)],
                   At(Working.cur.y, Working.cur.x + Len(new)),
                   ForInsert(ForDelete(Working.sel, Working.cur, n), Working.cur, Len(new)))
    BY <1>3, <1>4, <1>9, ReplaceOn, Zenon
  <2> QED
    BY <1>3, <2>1, Zenon DEF Becomes
<1>11. Placed(d.ls, d.cur, d.sel)
  BY <1>5, <1>10, Zenon
<1> QED
  BY <1>8, <1>10, <1>11, EditPlaces, TypesAre

LEMMA DeleteLinePlaces ==
  ASSUME HistoryKept, Sound, DeleteLine PROVE StaysSound
<1>1. ~crashed /\ InPlace(cur, lines) /\ MarksIn(sel, lines)
  BY WorkingPlaced
<1>2. /\ Since(lines, Working) /\ Working.ls = lines /\ Working.sel = sel /\ Working.acts = <<>>
      /\ cur.y \in DOMAIN lines /\ lines \in Texts /\ sel \in Marks
      /\ cur.y \in Int /\ Len(lines) \in Nat /\ DOMAIN lines = 1..Len(lines)
      /\ Working = [ls |-> lines, cur |-> cur, sel |-> sel, acts |-> <<>>]
  BY <1>1, WorkingSince
<1>3. CASE /\ Len(lines) = 1
           /\ Edit("line", "delete_line",
                [Record(Working, "replace", 1) EXCEPT !.ls[1] = <<>>, !.sel = NoSel, !.cur = At(1, 0)])
  <2> DEFINE r == Record(Working, "replace", 1)
             d == [r EXCEPT !.ls[1] = <<>>, !.sel = NoSel, !.cur = At(1, 0)]
  <2>1. 1 \in DOMAIN lines
    BY <1>2, <1>3
  <2>2. r.ls = lines
    BY <1>2, <2>1, RecordReplaces
  <2> HIDE DEF r
  <2>3. SetTo(d, r, [lines EXCEPT ![1] = <<>>], NoSel, At(1, 0))
    BY <2>2, Zenon DEF SetTo
  <2>4. Edit("line", "delete_line", d)
    BY <1>3, Zenon DEF r
  <2> HIDE DEF d
  <2>5. SetTo(d, Record(Working, "replace", 1), [Working.ls EXCEPT ![1] = <<>>], NoSel, At(1, 0))
    BY <1>2, <2>3, Zenon DEF r
  <2>6. Since(lines, d) /\ Len(d.ls) = Len(Working.ls) /\ d.sel = NoSel /\ d.cur = At(1, 0)
    <3>1. Since(lines, Working) /\ 1 \in DOMAIN Working.ls
      BY <1>2, <2>1
    <3> QED
      BY <2>5, <3>1, EmptiedOn
  <2>7. d.ls \in Texts /\ Len(d.ls) = 1
    BY <1>2, <1>3, <2>6, CopyHas
  <2>8. InPlace(d.cur, d.ls)
    <3>1. d.cur.y = 1 /\ d.cur.x = 0
      BY <2>6 DEF At
    <3>2. 1 \in 1..Len(d.ls) /\ d.ls[1] \in Row
      BY <2>7 DEF Texts
    <3>3. 0 <= Len(d.ls[1])
      BY <3>2, LengthOfRow
    <3> QED
      BY <2>7, <3>1, <3>2, <3>3, PlaceOf
  <2>9. Placed(d.ls, d.cur, d.sel)
    BY <2>6, <2>8 DEF Placed, MarksIn
  <2> QED
    BY <2>4, <2>6, <2>9, EditPlaces, TypesAre
<1>4. CASE /\ Len(lines) > 1
           /\ Edit("line", "delete_line",
                [Record(Working, "delete", cur.y)
                   EXCEPT !.ls = Splice(@, cur.y, cur.y, <<>>),
                          !.sel = ForLineDelete(@, lines, cur.y),
                          !.cur = At(Smaller(cur.y, Len(lines) - 1), 0)])
  <2> DEFINE r == Record(Working, "delete", cur.y)
             m == ForLineDelete(sel, lines, cur.y)
             p == At(Smaller(cur.y, Len(lines) - 1), 0)
             d == [r EXCEPT !.ls = Splice(@, cur.y, cur.y, <<>>),
                            !.sel = ForLineDelete(@, lines, cur.y), !.cur = p]
             e == Act("delete", cur.y, lines[cur.y])
  <2>0. Placed(Splice(lines, cur.y, cur.y, <<>>), p, m)
    BY <1>1, <1>2, <1>4, DeletedPlaced
  <2>1. r = [Working EXCEPT !.acts = Append(@, e)]
    BY <1>2 DEF Record
  <2>2. r.ls = lines /\ r.sel = sel
    BY <1>2, <2>1
  <2>3. m \in Marks
    BY <1>2, LineDeleteMoves
  <2>4. p \in Places
    <3>1. Smaller(cur.y, Len(lines) - 1) \in Int
      BY <1>2 DEF Smaller
    <3> QED
      BY <3>1, AtTyped
  <2> HIDE DEF r, p
  <2>5. SetTo(d, r, Splice(lines, cur.y, cur.y, <<>>), m, p)
    BY <2>2, Zenon DEF SetTo
  <2>6. Edit("line", "delete_line", d)
    BY <1>4, Zenon DEF r, p
  <2> HIDE DEF d, m
  <2>7. SetTo(d, Record(Working, "delete", cur.y), Splice(Working.ls, cur.y, cur.y, <<>>), m, p)
    BY <1>2, <2>5, Zenon DEF r
  <2>8. Since(lines, d) /\ Becomes(d, Splice(lines, cur.y, cur.y, <<>>), p, m)
    BY <1>2, <2>3, <2>4, <2>7, DeletedOn
  <2>9. Placed(d.ls, d.cur, d.sel)
    BY <2>0, <2>8, BecomesPlaced
  <2> QED
    BY <2>6, <2>8, <2>9, EditPlaces, TypesAre
<1> QED
  BY <1>3, <1>4 DEF DeleteLine

LEMMA MoveCursorPlaces ==
  ASSUME HistoryKept, Sound, MoveCursor PROVE StaysSound
<1>1. PICK y \in DOMAIN lines : \E x \in 0..Len(lines[y]) : Settle(At(y, x), sel)
  BY DEF MoveCursor
<1>2. PICK x \in 0..Len(lines[y]) : Settle(At(y, x), sel)
  BY <1>1
<1>3. InPlace(At(y, x), lines)
  BY DEF InPlace, At
<1> QED
  BY <1>2, <1>3, SettlePlaces, WorkingPlaced

LEMMA SanitizedIn ==
  ASSUME NEW ms, NEW ls, MarksIn(ms, ls)
  PROVE  MarksIn(Sanitize(ms), ls)
BY DEF MarksIn, Sanitize

LEMMA MarkingPlaces ==
  ASSUME HistoryKept, Sound, SetSelectionStart \/ SetSelectionEnd \/ ClearSelection
  PROVE  StaysSound
<1>1. InPlace(cur, lines) /\ MarksIn(sel, lines)
  BY WorkingPlaced
<1>2. sel \in Marks
  BY DEF HistoryKept, Typed
<1>3. CASE SetSelectionStart
  <2> DEFINE m == [sel EXCEPT !.s = cur]
  <2>1. m.s = cur /\ m.e = sel.e
    BY <1>2 DEF Marks
  <2>2. "mark" \in Ops /\ Settle(cur, Sanitize(m))
    BY <1>3 DEF SetSelectionStart
  <2> HIDE DEF m
  <2>3. MarksIn(m, lines)
    BY <1>1, <2>1, <2>2 DEF MarksIn, NoSel
  <2> QED
    BY <1>1, <2>2, <2>3, SanitizedIn, SettlePlaces
<1>4. CASE SetSelectionEnd
  <2> DEFINE m == [sel EXCEPT !.e = cur]
  <2>1. m.s = sel.s /\ m.e = cur
    BY <1>2 DEF Marks
  <2>2. "mark" \in Ops /\ Settle(cur, Sanitize(m))
    BY <1>4 DEF SetSelectionEnd
  <2> HIDE DEF m
  <2>3. MarksIn(m, lines)
    BY <1>1, <2>1, <2>2 DEF MarksIn, NoSel
  <2> QED
    BY <1>1, <2>2, <2>3, SanitizedIn, SettlePlaces
<1>5. CASE ClearSelection
  <2>1. MarksIn(NoSel, lines)
    BY DEF MarksIn
  <2>2. Settle(cur, NoSel)
    BY <1>5 DEF ClearSelection
  <2> QED
    BY <1>1, <2>1, <2>2, SettlePlaces
<1> QED
  BY <1>3, <1>4, <1>5

-----------------------------------------------------------------------------
(* Blocks do. *)

LEMMA DeleteSelectionPlaces ==
  ASSUME HistoryKept, Sound, DeleteSelection PROVE StaysSound
<1> DEFINE x == Excised(Working)
           p == At(Smaller(sel.s.y, Len(x.ls)), sel.s.x)
           r == [x EXCEPT !.cur = p]
           c == AfterExcision(Working, x).cur
<1>1. BlockReady(Working) /\ Commit("none", x, c, NoSel)
  BY DEF DeleteSelection
<1>2. ~crashed /\ MarksIn(sel, lines)
  BY WorkingPlaced
<1>3. Since(lines, Working) /\ Working.sel = sel /\ Working.ls = lines
  BY <1>2, WorkingSince
<1>4. Since(lines, x) /\ x.ls = Blockless(Working)
  BY <1>1, <1>3, ExcisedOn
<1>5. InPlace(p, x.ls)
  <2>1. InPlace(At(Smaller(Working.sel.s.y, Len(Blockless(Working))), Working.sel.s.x), Blockless(Working))
    BY <1>1, <1>2, <1>3, TakenOutPlaced
  <2> QED
    BY <1>3, <1>4, <2>1
<1> HIDE DEF x
<1>6. c = p
  <2>1. c = [r EXCEPT !.sel = NoSel].cur
    BY <1>3, Zenon DEF AfterExcision
  <2> HIDE DEF p
  <2>2. IsCopy(x, x.ls, x.cur, x.sel, x.acts)
    BY <1>4, CopyHas DEF IsCopy
  <2>3. IsCopy(r, x.ls, p, x.sel, x.acts)
    BY <2>2, PartSet, Zenon
  <2> HIDE DEF r, c
  <2>4. IsCopy([r EXCEPT !.sel = NoSel], x.ls, p, NoSel, x.acts)
    BY <2>3, PartSet, Zenon
  <2> QED
    BY <2>1, <2>4, CopyParts
<1> HIDE DEF c, p
<1>7. Placed(x.ls, c, NoSel)
  BY <1>5, <1>6 DEF Placed, MarksIn
<1> QED
  BY <1>1, <1>4, <1>7, CommitPlaces, TypesAre

LEMMA CopySelectionPlaces ==
  ASSUME HistoryKept, Sound, CopySelection PROVE StaysSound
<1> DEFINE whole == WholeLines(Working) /\ cur.x = 0
           block == Block(Working)
           d == InsertBlock(Working, block, whole)
           ks == PutIn(Working, block, whole)
<1>1. BlockReady(Working) /\ Commit("none", d, cur, Around(cur, block, whole))
  BY DEF CopySelection
<1>2. ~crashed /\ InPlace(cur, lines) /\ MarksIn(sel, lines)
  BY WorkingPlaced
<1>3. /\ Since(lines, Working) /\ Working.ls = lines /\ Working.cur = cur /\ Working.sel = sel
      /\ cur \in Places /\ cur.y \in DOMAIN lines /\ lines \in Texts
  BY <1>2, WorkingSince
<1>4. block \in Texts /\ Len(block) \in Nat \ {0} /\ "mark" \in Ops
  BY <1>1, <1>2, <1>3, BlockTyped, ReadyPlaces
<1>5. whole \in BOOLEAN /\ (whole => cur.x = 0)
  BY DEF WholeLines
<1> HIDE DEF block, whole
<1>6. Since(lines, d) /\ d.ls = ks /\ ks \in Texts
  <2>1. Since(lines, d) /\ d.ls = ks
    BY <1>3, <1>4, <1>5, InsertedOn
  <2> QED
    BY <2>1, CopyHas
<1>7. Placed(ks, cur, Around(cur, block, whole))
  BY <1>2, <1>3, <1>4, <1>5, <1>6, PutInPlaced
<1> HIDE DEF d, ks
<1>8. Placed(d.ls, cur, Around(cur, block, whole))
  BY <1>6, <1>7
<1> QED
  BY <1>1, <1>6, <1>8, CommitPlaces, TypesAre

\* The block goes to no negative column.
LEMMA TargetAcross ==
  ASSUME NEW a, NEW d, Since(a, d), BlockReady(d), MarksIn(d.sel, d.ls), InPlace(d.cur, d.ls)
  PROVE  MoveTarget(d).x \in Nat
<1> DEFINE s == d.sel.s
           e == d.sel.e
           t == d.cur
           gone == IF WholeLines(d) THEN e.y - s.y + 1 ELSE e.y - s.y
<1>1. s.x \in Nat /\ e.x \in Nat /\ t.x \in Nat
  <2>1. d.ls \in Texts /\ InPlace(s, d.ls) /\ InPlace(e, d.ls)
    BY CopyHas, ReadyPlaces
  <2> QED
    BY <2>1, PlaceIs
<1>2. MoveTarget(d) = IF t.y > e.y THEN At(t.y - gone, t.x)
                      ELSE IF t.y = e.y /\ t.x >= e.x THEN At(s.y, s.x + (t.x - e.x))
                      ELSE IF Precedes(t, s) THEN t ELSE s
  BY Zenon DEF MoveTarget
<1> HIDE DEF gone, s, e, t
<1>3. CASE t.y > e.y
  <2>1. MoveTarget(d).x = t.x
    BY <1>2, <1>3 DEF At
  <2> QED
    BY <1>1, <2>1
<1>4. CASE ~(t.y > e.y) /\ t.y = e.y /\ t.x >= e.x
  <2>1. MoveTarget(d).x = s.x + (t.x - e.x)
    BY <1>2, <1>4 DEF At
  <2> QED
    BY <1>1, <1>4, <2>1
<1>5. CASE ~(t.y > e.y) /\ ~(t.y = e.y /\ t.x >= e.x)
  <2>1. MoveTarget(d) \in {t, s}
    BY <1>2, <1>5
  <2> QED
    BY <1>1, <2>1
<1> QED
  BY <1>3, <1>4, <1>5

LEMMA MoveSelectionPlaces ==
  ASSUME HistoryKept, Sound, MoveSelection PROVE StaysSound
<1> DEFINE t == MoveTarget(Working)
           x == Excised(Working)
           y == Smaller(t.y, Len(x.ls))
           f == At(y, Smaller(t.x, Len(x.ls[y])))
           whole == WholeLines(Working) /\ f.x = 0
           block == Block(Working)
           c == [x EXCEPT !.cur = f]
           d == InsertBlock(c, block, whole)
           ks == PutIn(c, block, whole)
<1>1. BlockReady(Working) /\ Commit("none", d, f, Around(f, block, whole))
  BY DEF MoveSelection
<1>2. ~crashed /\ InPlace(cur, lines) /\ MarksIn(sel, lines)
  BY WorkingPlaced
<1>3. /\ Since(lines, Working) /\ Working.ls = lines /\ Working.cur = cur /\ Working.sel = sel
      /\ cur.y \in DOMAIN lines
  BY <1>2, WorkingSince
<1>4. block \in Texts /\ Len(block) \in Nat \ {0} /\ "mark" \in Ops
  BY <1>1, <1>2, <1>3, BlockTyped, ReadyPlaces
<1>5. whole \in BOOLEAN /\ (whole => f.x = 0)
  BY DEF WholeLines
<1>6. Since(lines, x) /\ x.ls # <<>>
  BY <1>1, <1>3, ExcisedOn
<1>7. t \in Places /\ t.y >= 1 /\ t.x \in Nat
  BY <1>1, <1>2, <1>3, TargetTyped, TargetAcross
<1> HIDE DEF block, whole, x, t
<1>8. x.ls \in Texts /\ IsCopy(x, x.ls, x.cur, x.sel, x.acts)
      /\ x.cur \in Places /\ x.sel \in Marks /\ x.acts \in Acts /\ Trail(lines, x.acts, x.ls)
  BY <1>6, CopyHas DEF IsCopy
<1>9. y \in DOMAIN x.ls /\ y \in Int
  <2>1. Len(x.ls) \in Nat \ {0} /\ DOMAIN x.ls = 1..Len(x.ls) /\ t.y \in Int
    BY <1>6, <1>7, <1>8 DEF Texts, Places
  <2> QED
    BY <1>7, <2>1 DEF Smaller
<1> HIDE DEF y
<1>10. f \in Places /\ f.y = y /\ InPlace(f, x.ls)
  <2> DEFINE n == Len(x.ls[y])
             k == Smaller(t.x, n)
  <2>1. n \in Nat
    BY <1>8, <1>9, LengthOfRow DEF Texts
  <2>2. k \in Int /\ k \in 0..n
    BY <1>7, <2>1 DEF Smaller
  <2>3. f = At(y, k)
    OBVIOUS
  <2> HIDE DEF k
  <2>4. f \in Places /\ f.y = y /\ f.x = k
    BY <1>9, <2>2, <2>3, AtTyped
  <2> QED
    BY <1>9, <2>2, <2>4 DEF InPlace
<1> HIDE DEF f
<1>11. IsCopy(c, x.ls, f, x.sel, x.acts)
  BY <1>8, PartSet, Zenon
<1> HIDE DEF c
<1>12. Since(lines, c) /\ c.ls = x.ls /\ c.cur = f
  BY <1>8, <1>10, <1>11, CopyIs
<1>13. Since(lines, d) /\ d.ls = ks /\ ks \in Texts
  <2>1. Since(lines, d) /\ d.ls = ks
    BY <1>4, <1>5, <1>9, <1>10, <1>12, InsertedOn
  <2> QED
    BY <2>1, CopyHas
<1>14. Placed(ks, f, Around(f, block, whole))
  BY <1>4, <1>5, <1>8, <1>10, <1>12, <1>13, PutInPlaced
<1> HIDE DEF d, ks
<1>15. Placed(d.ls, f, Around(f, block, whole))
  BY <1>13, <1>14
<1> QED
  BY <1>1, <1>13, <1>15, CommitPlaces, TypesAre

-----------------------------------------------------------------------------
(* The formatter does without markers. *)

\* The formatter puts one row at least.
LEMMA FormattedRows ==
  ASSUME NEW ls \in Texts, NEW new \in Formatted(ls)
  PROVE  Len(new) \in Nat \ {0}
<1> DEFINE z == FlattenSeq(ls)
<1>1. z \in Row
  BY FlatRow
<1>2. new = <<z>> \/ (z # <<>> /\ new = [i \in 1..Len(z) |-> <<z[i]>>])
  BY DEF Formatted
<1> HIDE DEF z
<1>3. CASE new = <<z>>
  BY <1>3
<1>4. CASE z # <<>> /\ new = [i \in 1..Len(z) |-> <<z[i]>>]
  <2>1. Len(z) \in Nat \ {0}
    BY <1>1, <1>4 DEF Row
  <2> QED
    BY <1>4, <2>1
<1> QED
  BY <1>2, <1>3, <1>4

\* The start of a row that is replaced by one at least.
LEMMA StartPlaced ==
  ASSUME NEW ls \in Texts, NEW from \in DOMAIN ls, NEW to \in from..Len(ls),
         NEW new \in Texts, Len(new) \in Nat \ {0}
  PROVE  InPlace(At(from, 0), Splice(ls, from, to, new))
<1> DEFINE n == Len(new)
           l == Len(ls)
           ks == Splice(ls, from, to, new)
<1>1. l \in Nat /\ from \in 1..l /\ to \in from..l /\ n \in Nat \ {0}
  BY DEF Texts
<1>2. ks \in Texts /\ Len(ks) = (l + n + from) - (to + 1)
  <2>1. Spans(ls, from, to)
    BY <1>1 DEF Spans
  <2> QED
    BY <2>1, SpliceIs DEF Spliced
<1> HIDE DEF ks, l, n
<1>3. from \in 1..Len(ks) /\ from \in DOMAIN ks
  BY <1>1, <1>2 DEF Texts
<1>4. 0 <= Len(ks[from]) /\ 0 \in Nat
  BY <1>2, <1>3, LengthOfRow DEF Texts
<1>5. At(from, 0).y = from /\ At(from, 0).x = 0
  BY DEF At
<1>6. InPlace(At(from, 0), ks)
  BY <1>2, <1>3, <1>4, <1>5, PlaceOf
<1> QED
  BY <1>6 DEF ks

LEMMA FormatRangePlaces ==
  ASSUME HistoryKept, Sound, FormatRange, "mark" \notin Ops \/ "format" \notin Ops PROVE StaysSound
<1> DEFINE Does(from, to, new) ==
             Edit("format", "none",
               [Working EXCEPT !.ls = Splice(@, from, to, new),
                               !.acts = [i \in 1..Len(new) |-> Act("insert", from + i - 1, <<>>)]
                                        \o [i \in 1..(to - from + 1) |->
                                              Act("delete", from + Len(new), lines[from + i - 1])],
                               !.cur = At(from, 0)])
<1>1. \E from \in DOMAIN lines : \E to \in from..Len(lines) :
        \E new \in Formatted(Rows(lines, from, to)) : Does(from, to, new)
  BY DEF FormatRange
<1> HIDE DEF Does
<1>2. PICK from \in DOMAIN lines, to \in Int :
        to \in from..Len(lines) /\ \E new \in Formatted(Rows(lines, from, to)) : Does(from, to, new)
  BY <1>1
<1>3. PICK new \in Formatted(Rows(lines, from, to)) : Does(from, to, new)
  BY <1>2
<1> DEFINE n == Len(new)
           d == [Working EXCEPT !.ls = Splice(@, from, to, new),
                                !.acts = [i \in 1..n |-> Act("insert", from + i - 1, <<>>)]
                                         \o [i \in 1..(to - from + 1) |->
                                               Act("delete", from + n, lines[from + i - 1])],
                                !.cur = At(from, 0)]
<1>4. ~crashed /\ MarksIn(sel, lines)
  BY WorkingPlaced
<1>5. /\ Since(lines, Working) /\ lines = Working.ls /\ Working.acts = <<>> /\ lines \in Texts /\ Working.sel = sel
      /\ Len(lines) \in Nat /\ DOMAIN lines = 1..Len(lines)
  BY <1>4, WorkingSince
<1>6. new \in Texts /\ Len(new) \in Nat \ {0}
  <2>1. from \in Nat \ {0} /\ to \in Int /\ from <= to + 1 /\ to <= Len(lines)
    BY <1>2, <1>5
  <2>2. Rows(lines, from, to) \in Texts
    BY <1>5, <2>1, RowsTyped
  <2> QED
    BY <2>2, FormattedTyped, FormattedRows
<1>7. Edit("format", "none", d)
  BY <1>3, Zenon DEF Does
<1>8. sel = NoSel
  BY <1>4, <1>7 DEF Edit, MarksIn
<1>9. InPlace(At(from, 0), Splice(lines, from, to, new))
  BY <1>2, <1>5, <1>6, StartPlaced
<1>10. Since(lines, d) /\ Becomes(d, Splice(lines, from, to, new), At(from, 0), sel)
  <2>1. n = Len(new) /\ to \in from..Len(lines)
    BY <1>2
  <2>2. Exchanged(d, Working, lines, from, to, new, n)
    BY Zenon DEF Exchanged
  <2> HIDE DEF n, d
  <2> QED
    BY <1>5, <1>6, <2>1, <2>2, FormatOn
<1> HIDE DEF d
<1>11. Placed(d.ls, d.cur, d.sel)
  BY <1>8, <1>9, <1>10 DEF Becomes, Placed, MarksIn
<1> QED
  BY <1>7, <1>10, <1>11, EditPlaces, TypesAre

-----------------------------------------------------------------------------
(* Edits of agents. *)

\* An edit after which there is a row: the kind "remove" leaves one if it starts below the
\* first, and the others put rows in.
LeavesRow(e) == e.kind = "add" \/ e.y > 1 \/ e.new # <<>>

RowsStay == \A es \in AgentEdits : \A i \in DOMAIN es : LeavesRow(es[i])

\* A place that may be beyond its row or the text, but not before them.
Forth(p) == p.y >= 1 /\ p.x >= 0

\* What is known of the working copy between the edits of a proposal.
Ahead(d) ==
  /\ d.ls # <<>> /\ Forth(d.cur)
  /\ \A p \in {d.sel.s, d.sel.e} : p = NoMark \/ Forth(p)
  /\ "mark" \in Ops \/ d.sel = NoSel

LEMMA MovedForth ==
  ASSUME NEW p \in Places, p = NoMark \/ Forth(p), NEW e \in ProposedEdits, NEW n \in Nat
  PROVE  /\ Forth(p) => Forth(Moved(p, e, n))
         /\ Moved(p, e, n) = NoMark \/ Forth(Moved(p, e, n))
         /\ p = NoMark => Moved(p, e, n) = NoMark
<1> DEFINE y == e.y
           k == Len(e.new)
           q == Shifted(p, y, n, k)
<1>1. y \in Nat \ {0} /\ k \in Nat /\ p.y \in Int /\ p.x \in Int
  BY DEF ProposedEdits, Texts, Places
<1>2. Moved(p, e, n) = IF p = NoMark THEN p ELSE q
  BY Zenon DEF Moved
<1>3. p # NoMark => Forth(p)
  OBVIOUS
<1>4. Forth(p) => p # NoMark
  BY DEF Forth, NoMark
<1> HIDE DEF y, k
<1>5. Forth(p) => Forth(q)
  BY <1>1 DEF Shifted, Forth, At
<1> HIDE DEF q
<1> QED
  BY <1>2, <1>3, <1>4, <1>5

LEMMA ApplyEditAhead ==
  ASSUME NEW a, NEW d, Since(a, d), Ahead(d), NEW e \in ProposedEdits, LeavesRow(e)
  PROVE  Ahead(ApplyEdit(d, e))
<1> DEFINE x == ApplyEdit(d, e)
<1>1. CASE x = d
  BY <1>1
<1>2. CASE x # d
  <2> DEFINE Does(n) == /\ e.y + n <= Len(d.ls) + 1 /\ (e.kind = "add" => n = 0)
                        /\ Becomes(x, Splice(d.ls, e.y, e.y + n - 1, e.new),
                                   Moved(d.cur, e, n), [s |-> Moved(d.sel.s, e, n), e |-> Moved(d.sel.e, e, n)])
  <2>1. \E n \in Nat : Does(n)
    BY <1>2, ApplyEditOn, Zenon
  <2> HIDE DEF Does
  <2>2. PICK n \in Nat : Does(n)
    BY <2>1
  <2> DEFINE ks == Splice(d.ls, e.y, e.y + n - 1, e.new)
  <2>3. /\ e.y + n <= Len(d.ls) + 1 /\ (e.kind = "add" => n = 0)
        /\ x.ls = ks /\ x.cur = Moved(d.cur, e, n)
        /\ x.sel = [s |-> Moved(d.sel.s, e, n), e |-> Moved(d.sel.e, e, n)]
    BY <2>2, Zenon DEF Does, Becomes
  <2> HIDE DEF x
  <2>4. /\ d.ls \in Texts /\ d.cur \in Places /\ d.sel.s \in Places /\ d.sel.e \in Places
        /\ e.y \in Nat \ {0} /\ e.new \in Texts
    BY CopyHas DEF ProposedEdits, Marks
  <2>5. ks # <<>>
    <3> DEFINE l == Len(d.ls)
               k == Len(e.new)
               y == e.y
               to == y + n - 1
    <3>1. l \in Nat \ {0} /\ k \in Nat /\ y \in Nat \ {0} /\ y + n <= l + 1
      BY <2>3, <2>4 DEF Ahead, Texts
    <3>2. Len(ks) = (l + k + y) - (to + 1) /\ to = y + n - 1 /\ ks \in Texts
      <4>1. Spans(d.ls, y, to)
        BY <3>1 DEF Spans
      <4>2. /\ Splice(d.ls, y, to, e.new) \in Texts
            /\ Spliced(Splice(d.ls, y, to, e.new), d.ls, y, to, e.new, Len(e.new))
        BY <2>4, <4>1, SpliceIs
      <4> QED
        BY <4>2 DEF Spliced
    <3>3. n = 0 \/ y > 1 \/ k # 0
      BY <2>3, <2>4 DEF LeavesRow, Texts
    <3> HIDE DEF l, k, y, to, ks
    <3>4. Len(ks) = (l + k) - n
      BY <3>1, <3>2
    <3>5. Len(ks) # 0
      BY <3>1, <3>3, <3>4
    <3> QED
      BY <3>5
  <2> HIDE DEF ks
  <2>6. Forth(x.cur)
    BY <2>3, <2>4, MovedForth DEF Ahead
  <2>7. \A p \in {x.sel.s, x.sel.e} : p = NoMark \/ Forth(p)
    BY <2>3, <2>4, MovedForth DEF Ahead
  <2>8. "mark" \in Ops \/ x.sel = NoSel
    <3>1. CASE d.sel = NoSel
      <4>1. d.sel.s = NoMark /\ d.sel.e = NoMark
        BY <3>1 DEF NoSel
      <4>2. Moved(d.sel.s, e, n) = NoMark /\ Moved(d.sel.e, e, n) = NoMark
        BY <4>1 DEF Moved
      <4> QED
        BY <2>3, <4>2 DEF NoSel
    <3> QED
      BY <3>1 DEF Ahead
  <2> QED
    BY <2>3, <2>5, <2>6, <2>7, <2>8 DEF Ahead, x
<1> QED
  BY <1>1, <1>2

LEMMA ProposedAhead ==
  ASSUME NEW es \in Seq(ProposedEdits), \A i \in DOMAIN es : LeavesRow(es[i]),
         NEW a, Since(a, Working), Ahead(Working)
  PROVE  Since(a, Proposed(es)) /\ Ahead(Proposed(es))
<1> DEFINE S == {d \in Copies : Since(a, d) /\ Ahead(d)}
<1>1. \A d : d \in S <=> Since(a, d) /\ Ahead(d)
  BY DEF Since
<1>2. \A k \in DOMAIN es : es[k] \in ProposedEdits
  OBVIOUS
<1>3. \A k \in DOMAIN es, d \in S : ApplyEdit(d, es[k]) \in S
  BY <1>1, <1>2, ApplyEditOn, ApplyEditAhead
<1>4. Working \in S
  BY <1>1
<1> HIDE DEF S
<1>5. Proposed(es) \in S
  BY <1>3, <1>4, ProposedIn
<1> QED
  BY <1>1, <1>5

LEMMA ClampedPlaced ==
  ASSUME NEW ls \in Texts, ls # <<>>, NEW p \in Places, p # NoMark, Forth(p)
  PROVE  InPlace(Clamped(ls, p), ls)
<1> DEFINE y == Smaller(p.y, Len(ls))
           x == Smaller(p.x, Len(ls[y]))
<1>1. Clamped(ls, p) = At(y, x)
  BY DEF Clamped
<1>2. Len(ls) \in Nat \ {0} /\ DOMAIN ls = 1..Len(ls) /\ p.y \in Nat \ {0} /\ p.x \in Nat
  BY DEF Texts, Places, Forth
<1>3. y \in DOMAIN ls
  BY <1>2 DEF Smaller
<1> HIDE DEF y
<1>4. Len(ls[y]) \in Nat
  BY <1>3, LengthOfRow DEF Texts
<1>5. x \in 0..Len(ls[y])
  BY <1>2, <1>4 DEF Smaller
<1> HIDE DEF x
<1> QED
  BY <1>1, <1>3, <1>5 DEF InPlace, At

LEMMA AgentEditsPlaces ==
  ASSUME HistoryKept, Sound, RowsStay, ApplyAgentEdits PROVE StaysSound
<1> DEFINE Does(d) ==
             IF d.ls = <<>>
             THEN crashed' = TRUE /\ UNCHANGED <<lines, cur, sel, stacks, edits>>
             ELSE LET c == Clamped(d.ls, d.cur)
                      m == [s |-> Clamped(d.ls, d.sel.s), e |-> Clamped(d.ls, d.sel.e)]
                  IN Commit("none", [d EXCEPT !.cur = c, !.sel = m], c, m)
<1>1. PICK es \in AgentEdits : Does(Proposed(es))
  BY Zenon DEF ApplyAgentEdits
<1>2. es \in Seq(ProposedEdits) /\ \A i \in DOMAIN es : LeavesRow(es[i])
  BY DocumentAssumption DEF ProposedEdits, Texts, RowsStay
<1> DEFINE d == Proposed(es)
<1>3. ~crashed /\ InPlace(cur, lines) /\ MarksIn(sel, lines)
  BY WorkingPlaced
<1>4. Since(lines, Working) /\ Ahead(Working)
  <2>1. /\ lines \in Texts /\ Working.ls = lines /\ Working.cur = cur /\ Working.sel = sel
        /\ Since(lines, Working) /\ cur.y \in DOMAIN lines
    BY <1>3, WorkingSince
  <2>2. lines # <<>>
    BY <2>1
  <2>3. \A p : InPlace(p, lines) => Forth(p)
    <3> SUFFICES ASSUME NEW p, InPlace(p, lines) PROVE Forth(p)
      OBVIOUS
    <3>1. p.y \in Nat \ {0} /\ p.x \in Nat
      BY <2>1, PlaceIs
    <3> QED
      BY <3>1 DEF Forth
  <2>4. \A p \in {sel.s, sel.e} : p = NoMark \/ Forth(p)
    BY <1>3, <2>3 DEF MarksIn, NoSel
  <2>5. "mark" \in Ops \/ sel = NoSel
    BY <1>3 DEF MarksIn
  <2> QED
    BY <1>3, <2>1, <2>2, <2>3, <2>4, <2>5 DEF Ahead
<1>5. Since(lines, d) /\ Ahead(d)
  BY <1>2, <1>4, ProposedAhead
<1>6. Does(d)
  BY <1>1
<1> HIDE DEF d
<1> DEFINE c == Clamped(d.ls, d.cur)
           m == [s |-> Clamped(d.ls, d.sel.s), e |-> Clamped(d.ls, d.sel.e)]
           q == [d EXCEPT !.cur = c]
           x == [q EXCEPT !.sel = m]
<1>7. x = [d EXCEPT !.cur = c, !.sel = m]
  BY Zenon
<1>8. Commit("none", x, c, m)
  BY <1>5, <1>6, <1>7, Zenon DEF Ahead
<1>9. /\ d.ls \in Texts /\ d.cur \in Places /\ d.sel \in Marks /\ d.acts \in Acts
      /\ Trail(lines, d.acts, d.ls) /\ IsCopy(d, d.ls, d.cur, d.sel, d.acts)
  BY <1>5, CopyHas DEF IsCopy
<1>10. d.sel.s \in Places /\ d.sel.e \in Places /\ d.ls # <<>>
       /\ \A p \in {d.cur, d.sel.s, d.sel.e} : p = NoMark \/ p.y >= 1
  BY <1>5, <1>9 DEF Marks, Ahead, Forth
<1>11. Clamped(d.ls, d.sel.s) \in Places /\ Clamped(d.ls, d.sel.e) \in Places /\ c \in Places
  BY <1>9, <1>10, ClampedTyped
<1>12. InPlace(c, d.ls)
  <2>1. d.cur # NoMark /\ Forth(d.cur)
    BY <1>5 DEF Ahead, Forth, NoMark
  <2> QED
    BY <1>9, <1>10, <2>1, ClampedPlaced
<1>13. MarksIn(m, d.ls)
  <2>1. \A p \in {d.sel.s, d.sel.e} : Clamped(d.ls, p) = NoMark \/ InPlace(Clamped(d.ls, p), d.ls)
    <3>1. Clamped(d.ls, NoMark) = NoMark
      BY DEF Clamped
    <3>2. \A p \in {d.sel.s, d.sel.e} : p = NoMark \/ (p # NoMark /\ Forth(p))
      BY <1>5 DEF Ahead
    <3> QED
      BY <1>9, <1>10, <3>1, <3>2, ClampedPlaced
  <2>2. CASE "mark" \in Ops
    BY <2>1, <2>2 DEF MarksIn
  <2>3. CASE d.sel = NoSel
    <3>1. d.sel.s = NoMark /\ d.sel.e = NoMark
      BY <2>3 DEF NoSel
    <3>2. m = NoSel
      BY <3>1 DEF Clamped, NoSel
    <3> QED
      BY <3>2 DEF MarksIn
  <2> QED
    BY <1>5, <2>2, <2>3 DEF Ahead
<1>14. m \in Marks
  BY <1>11 DEF Marks
<1> HIDE DEF c, m
<1>15. IsCopy(q, d.ls, c, d.sel, d.acts)
  BY <1>9, PartSet, Zenon
<1> HIDE DEF q
<1>16. IsCopy(x, d.ls, c, m, d.acts)
  BY <1>15, PartSet, Zenon
<1> HIDE DEF x
<1>17. Since(lines, x) /\ x.ls = d.ls
  BY <1>9, <1>11, <1>14, <1>16, CopyIs
<1>18. Placed(x.ls, c, m)
  BY <1>12, <1>13, <1>17 DEF Placed
<1> QED
  BY <1>8, <1>17, <1>18, CommitPlaces, TypesAre

-----------------------------------------------------------------------------
(* undo(), and the whole program. *)

LEMMA UndoPlaces ==
  ASSUME HistoryKept, PlacesKept, Undo, "mark" \notin Ops \/ "undo" \notin Ops PROVE PlacesKept'
<1> DEFINE g == Last(undoStack)
           r == Reverted(g)
<1>1. ~crashed /\ MarksIn(sel, lines) /\ Rooted(undoStack)
  BY WorkingPlaced DEF PlacesKept
<1>2. undoStack \in Seq(Groups) /\ undoStack # <<>> /\ Chain(undoStack, lines) /\ "mark" \notin Ops
  BY DEF Undo, HistoryKept, Typed
<1>3. g \in Groups /\ Kept(g, lines) /\ Rooted(Front(undoStack)) /\ InPlace(g.before, g.was)
  BY <1>1, <1>2, FrontKeeps, FrontRooted, StackHas
<1>4. /\ lines' = r.ls /\ sel' = r.sel /\ cur' = g.before
      /\ undoStack' = Front(undoStack)
  BY Zenon DEF Undo, TakeBack
<1>5. sel \in Marks /\ OnText(sel, lines) /\ sel = NoSel
  BY <1>1, <1>2, WorkingSince DEF MarksIn
<1> HIDE DEF g
<1>6. g.acts \in Acts /\ Trail(g.was, g.acts, lines)
  BY <1>3 DEF Groups, Kept
<1>7. r.ls = g.was /\ r.sel = NoSel
  BY <1>5, <1>6, RevertedOn
<1> HIDE DEF r
<1>8. Placed(lines', cur', sel')
  BY <1>3, <1>4, <1>7 DEF Placed, MarksIn
<1>9. ~crashed'
  BY <1>1, UndoKeeps
<1> QED
  BY <1>3, <1>4, <1>8, <1>9 DEF PlacesKept, Sound, Rooted

\* The commands that leave markers beyond their rows do not meet any: the formatter moves
\* none, and undo only those behind a row that it takes out.
MarksApart == "mark" \notin Ops \/ {"undo", "format"} \cap Ops = {}

LEMMA InitPlaces ==
  ASSUME Init PROVE PlacesKept
<1>1. lines \in Texts /\ lines # <<>> /\ Len(lines) \in Nat /\ DOMAIN lines = 1..Len(lines)
  BY DocumentAssumption DEF Init, Texts
<1>2. 1 \in 1..Len(lines) /\ lines[1] \in Row
  BY <1>1 DEF Texts
<1>3. cur.y = 1 /\ cur.x = 0 /\ 0 <= Len(lines[1])
  BY <1>2, LengthOfRow DEF Init, At
<1>4. InPlace(cur, lines)
  BY <1>1, <1>2, <1>3, PlaceOf
<1>5. Rooted(undoStack)
  BY DEF Init, Rooted
<1> QED
  BY <1>4, <1>5 DEF PlacesKept, Sound, Placed, MarksIn, Init

LEMMA CommandsStaySound ==
  ASSUME RowsStay, HistoryKept, Sound, Typing \/ Deleting \/ Marking \/ Blocks \/ ApplyAgentEdits
  PROVE  StaysSound
<1>1. CASE Typing
  BY <1>1, InsertCharPlaces, SplitLinePlaces, InsertTextPlaces, ReplaceCurrentPlaces DEF Typing
<1>2. CASE Deleting
  BY <1>2, BackspacePlaces, DeleteCharPlaces, CutRowPlaces, JoinByWordPlaces, DeleteLinePlaces DEF Deleting
<1>3. CASE Marking
  BY <1>3, MoveCursorPlaces, MarkingPlaces DEF Marking
<1>4. CASE Blocks
  BY <1>4, DeleteSelectionPlaces, CopySelectionPlaces, MoveSelectionPlaces DEF Blocks
<1>5. CASE ApplyAgentEdits
  BY <1>5, AgentEditsPlaces
<1> QED
  BY <1>1, <1>2, <1>3, <1>4, <1>5

LEMMA NextPlaces ==
  ASSUME "redo" \notin Ops, MarksApart, RowsStay, HistoryKept, PlacesKept, [Next]_vars
  PROVE  PlacesKept'
<1>1. CASE Next
  <2>1. CASE Typing \/ Deleting \/ Marking \/ Blocks \/ ApplyAgentEdits
    BY <2>1, CommandsStaySound DEF PlacesKept, StaysSound
  <2>2. CASE FormatRange
    BY <2>2, FormatRangePlaces DEF MarksApart, PlacesKept, StaysSound
  <2>3. CASE Undo
    BY <2>3, UndoPlaces DEF MarksApart
  <2>4. CASE Redo
    BY <2>4 DEF Redo
  <2> QED
    BY <1>1, <2>1, <2>2, <2>3, <2>4 DEF Next
<1>2. CASE UNCHANGED vars
  <2>1. /\ lines' = lines /\ cur' = cur /\ sel' = sel /\ undoStack' = undoStack /\ crashed' = crashed
    BY <1>2 DEF vars, stacks
  <2> QED
    BY <2>1 DEF PlacesKept, Sound, Rooted
<1> QED
  BY <1>1, <1>2

LEMMA SoundInText ==
  ASSUME Sound PROVE InText
BY DEF Sound, Placed, MarksIn, NoSel, InText

\* A text with marks is sound where there are marker commands.
LEMMA InTextSound ==
  ASSUME "mark" \in Ops, InText PROVE Sound
BY DEF Sound, Placed, MarksIn, InText

\* AlwaysInText: without redo, for any text, commands and limit of the stack, the cursor and
\* the markers are at places of the text after every command, if the markers are not used
\* together with undo or the formatter, which leave them beyond their rows, and no agent
\* proposes to remove the first row: where all rows go, apply_external_edits_json indexes
\* lines_ by -1.
THEOREM AlwaysInText ==
  ASSUME "redo" \notin Ops, MarksApart, RowsStay
  PROVE  Spec => []InText
<1>1. Init => HistoryKept /\ PlacesKept
  BY InitKept, InitPlaces
<1>2. HistoryKept /\ PlacesKept /\ [Next]_vars => (HistoryKept /\ PlacesKept)'
  BY NextKept, NextPlaces
<1>3. HistoryKept /\ PlacesKept => InText
  BY SoundInText DEF PlacesKept
<1> QED
  BY <1>1, <1>2, <1>3, PTL DEF Spec

\* CommandsStayInText: without redo, and whichever commands are used together: typing,
\* deleting, marking, blocks and the edits of agents that leave a row put the cursor and the
\* markers at places of the new text, from every state in which they were at places of the
\* text, also one that the formatter or undo came to before.
THEOREM CommandsStayInText ==
  ASSUME "redo" \notin Ops, RowsStay
  PROVE  Spec => StaysInText
<1> DEFINE Step == InText /\ (Typing \/ Deleting \/ Marking \/ Blocks \/ ApplyAgentEdits) => InText'
<1>1. CASE "mark" \in Ops
  <2>1. HistoryKept => [Step]_vars
    <3> SUFFICES ASSUME HistoryKept, InText, Typing \/ Deleting \/ Marking \/ Blocks \/ ApplyAgentEdits
                 PROVE  InText'
      OBVIOUS
    <3>1. Sound'
      BY <1>1, InTextSound, CommandsStaySound DEF StaysSound
    <3> QED
      BY <3>1 DEF Sound, Placed, MarksIn, NoSel, InText
  <2>2. Spec => []HistoryKept
    BY HistoryStays
  <2>3. Spec => [][Step]_vars
    <3> HIDE DEF Step
    <3> QED
      BY <2>1, <2>2, PTL
  <2> QED
    BY <2>3 DEF StaysInText
<1>2. CASE "mark" \notin Ops
  <2>1. Spec => []InText
    BY <1>2, AlwaysInText DEF MarksApart
  <2>2. InText' => Step
    OBVIOUS
  <2>3. Spec => [][Step]_vars
    <3> HIDE DEF Step
    <3> QED
      BY <2>1, <2>2, PTL
  <2> QED
    BY <2>3 DEF StaysInText
<1> QED
  BY <1>1, <1>2

-----------------------------------------------------------------------------
(***************************************************************************)
(* Redo gives back what undo took away, for the commands whose group       *)
(* changes one row, or one row and the one below it. Redo puts the actions *)
(* of a group back in the order in which undo took them away, the last one *)
(* first, which is the wrong order; for such a group it comes to the same  *)
(* (Turned).                                                               *)
(***************************************************************************)
\* The commands whose group changes one row, or one row and the one below it, with undo
\* and redo.
RowWise == {"type", "enter", "replace", "backspace", "cut", "move", "mark", "undo", "redo"}

\* A group of such a command: its cursor is left in the text it leads to, and one that
\* backspace may be merged into leaves it on the row that it saved.
Twofold ==
  {g \in Groups : /\ Turns(g.acts)
                  /\ g.after.y \in 1..Len(g.was) + Gain(g.acts)
                  /\ g.type = "backspace" => g.after.y = g.acts[1].y}

\* The groups of both stacks are such, and those of redo lead on from the text.
Redoable ==
  /\ undoStack \in Seq(Twofold) /\ redoStack \in Seq(Twofold)
  /\ Chain(redoStack, lines)

RedoKept == HistoryKept /\ Redoable

LEMMA TwofoldGroups == Twofold \subseteq Groups /\ \A s \in Seq(Twofold) : s \in Seq(Groups)
<1>1. Twofold \subseteq Groups
  BY DEF Twofold
<1> QED
  BY <1>1, Wider

\* Such a group starts with a row that it saves.
LEMMA TurnsSave ==
  ASSUME NEW p \in Acts, Turns(p)
  PROVE  /\ p # <<>> /\ Saves(p, p[1].y) /\ p[1].kind = "replace"
         /\ Replaces(p) => p = <<p[1]>> /\ p[1] \in Actions
<1>1. ASSUME NEW e \in Actions, e.kind = "replace", p = <<e>> PROVE p # <<>> /\ p[1] = e /\ 1 \in DOMAIN p
  BY <1>1
<1>2. ASSUME NEW e \in Actions, NEW f \in Actions, e.kind = "replace", p = Append(<<e>>, f)
      PROVE  p # <<>> /\ p[1] = e /\ 1 \in DOMAIN p
  BY <1>2
<1>3. p # <<>> /\ p[1].kind = "replace" /\ 1 \in DOMAIN p
  BY <1>1, <1>2, Zenon DEF Turns, Replaces
<1>4. Saves(p, p[1].y)
  BY <1>3, Zenon DEF Saves
<1>5. Replaces(p) => p = <<p[1]>> /\ p[1] \in Actions
  BY <1>1 DEF Replaces
<1> QED
  BY <1>3, <1>4, <1>5

\* What a command may add to a stack of such groups: one that may be merged leaves the
\* cursor on the row it saves, and changes no other unless the cursor came from there.
Adds(g) ==
  g.type # "none" => /\ g.after.y = g.acts[1].y
                     /\ Replaces(g.acts) \/ (g.type = "backspace" /\ g.acts[1].y # g.before.y)

LEMMA MergedTurns ==
  ASSUME NEW l \in Twofold, NEW g \in Twofold, Trail(l.was, l.acts, g.was), Adds(g), Mergeable(l, g)
  PROVE  Merged(l, g) \in Twofold
<1> DEFINE m == Merged(l, g)
           q == [l EXCEPT !.acts = l.acts]
           b == g.was
           gain == Gain(l.acts)
<1>1. /\ l \in Groups /\ Turns(l.acts) /\ g \in Groups /\ Turns(g.acts) /\ g.after.y \in 1..Len(b) + Gain(g.acts)
      /\ l.type = "backspace" => l.after.y = l.acts[1].y
  BY DEF Twofold
<1>2. l.acts \in Acts /\ l.was \in Texts /\ g.acts \in Acts /\ g.after \in Places /\ b \in Texts
  BY <1>1 DEF Groups
<1>3. g.type # "none" /\ l.type = g.type /\ l.after = g.before /\ l.acts[1].y = g.acts[1].y
  BY DEF Mergeable
<1>4. g.after.y = g.acts[1].y /\ Replaces(g.acts)
  <2>1. l.type = "backspace" => l.acts[1].y = g.before.y
    BY <1>1, <1>3
  <2> QED
    BY <1>3, <2>1 DEF Adds
<1>5. Folded(l.acts, g.acts) = l.acts
  <2> DEFINE e == g.acts[1]
  <2>1. g.acts = <<e>> /\ e \in Actions /\ e.kind = "replace"
    BY <1>1, <1>2, <1>4, TurnsSave
  <2>2. Saves(l.acts, e.y)
    BY <1>1, <1>2, <1>3, TurnsSave
  <2> HIDE DEF e
  <2>3. Taken(l.acts, e) = l.acts
    BY <2>1, <2>2 DEF Taken
  <2> QED
    BY <1>2, <2>1, <2>3, FoldedOne
<1>6. Gain(g.acts) = 0
  BY <1>1, <1>2, <1>4, TurnsSave, GainIs
<1>7. Len(b) = Len(l.was) + gain
  BY <1>1, <1>2, TrailGain
<1>8. m = [q EXCEPT !.after = g.after]
  BY <1>5, Zenon DEF Merged
<1> HIDE DEF m
<1>9. q = l
  BY <1>1 DEF Groups
<1> HIDE DEF q
<1>10. /\ m \in Groups /\ m.acts = l.acts /\ m.was = l.was /\ m.after = g.after /\ m.type = l.type
  BY <1>1, <1>2, <1>8, <1>9 DEF Groups
<1>11. m.after.y \in 1..Len(m.was) + Gain(m.acts)
  <2>1. Len(b) \in Nat /\ Len(b) + 0 = Len(b)
    BY <1>2 DEF Texts
  <2> QED
    BY <1>1, <1>6, <1>7, <1>10, <2>1
<1>12. m.after.y = m.acts[1].y
  BY <1>3, <1>4, <1>10
<1> QED
  BY <1>1, <1>10, <1>11, <1>12 DEF Twofold, m

LEMMA PushedTurns ==
  ASSUME NEW stack \in Seq(Twofold), NEW g \in Twofold, Chain(stack, g.was), Adds(g)
  PROVE  Pushed(stack, g) \in Seq(Twofold)
<1> DEFINE n == Len(stack)
           l == stack[n]
<1>1. CASE stack # <<>> /\ Mergeable(Last(stack), g)
  <2>1. n \in 1..n /\ n \in Nat /\ l \in Twofold /\ Last(stack) = l
    BY <1>1 DEF Last
  <2>2. Trail(l.was, l.acts, g.was)
    BY <2>1 DEF Chain, Follows, Kept
  <2>3. Pushed(stack, g) = [stack EXCEPT ![n] = Merged(l, g)]
    BY <1>1, Zenon DEF Pushed
  <2>4. Merged(l, g) \in Twofold
    BY <1>1, <2>1, <2>2, MergedTurns
  <2> HIDE DEF l
  <2> QED
    BY <2>1, <2>3, <2>4
<1>2. CASE ~(stack # <<>> /\ Mergeable(Last(stack), g))
  <2>1. Pushed(stack, g) = IF Len(stack) = MaxUndo THEN Append(Tail(stack), g) ELSE Append(stack, g)
    BY <1>2, Zenon DEF Pushed
  <2>2. Append(stack, g) \in Seq(Twofold)
    OBVIOUS
  <2>3. CASE Len(stack) = MaxUndo
    <3>1. stack # <<>>
      BY <2>3, DocumentAssumption
    <3>2. Tail(stack) \in Seq(Twofold)
      BY <3>1
    <3> QED
      BY <2>1, <2>3, <3>2
  <2> QED
    BY <2>1, <2>2, <2>3
<1> QED
  BY <1>1, <1>2

\* A command that records such a group.
LEMMA EditTurns ==
  ASSUME RedoKept, ~crashed, NEW d, Since(lines, d), NEW type \in Types, NEW op, Edit(op, type, d),
         Turns(d.acts), d.cur.y \in DOMAIN d.ls,
         type # "none" => /\ d.cur.y = d.acts[1].y
                          /\ Replaces(d.acts) \/ (type = "backspace" /\ d.acts[1].y # cur.y)
  PROVE  Redoable'
<1> DEFINE g == [acts |-> d.acts, before |-> cur, after |-> d.cur, type |-> type, was |-> lines]
<1>1. /\ lines \in Texts /\ cur \in Places /\ undoStack \in Seq(Twofold) /\ Chain(undoStack, lines)
  BY DEF RedoKept, Redoable, HistoryKept, Typed
<1>2. d.ls \in Texts /\ d.cur \in Places /\ d.acts \in Acts /\ Trail(lines, d.acts, d.ls)
  BY CopyHas
<1>3. d.acts # <<>>
  BY <1>2, TurnsSave
<1>4. undoStack' = Pushed(undoStack, g) /\ redoStack' = <<>>
  BY <1>3, Zenon DEF Edit, Commit, Store
<1>5. g \in Groups
  BY <1>1, <1>2 DEF Groups
<1>6. g.acts = d.acts /\ g.before = cur /\ g.after = d.cur /\ g.type = type /\ g.was = lines
  OBVIOUS
<1> HIDE DEF g
<1>7. g.after.y \in 1..Len(g.was) + Gain(g.acts)
  <2>1. Len(d.ls) = Len(lines) + Gain(d.acts)
    BY <1>2, TrailGain
  <2>2. DOMAIN d.ls = 1..Len(d.ls)
    BY <1>2 DEF Texts
  <2> QED
    BY <1>6, <2>1, <2>2
<1>8. g \in Twofold
  BY <1>5, <1>6, <1>7 DEF Twofold
<1>9. Adds(g)
  BY <1>6 DEF Adds
<1>10. Pushed(undoStack, g) \in Seq(Twofold)
  BY <1>1, <1>6, <1>8, <1>9, PushedTurns
<1>11. redoStack' \in Seq(Twofold) /\ Chain(redoStack', lines')
  <2>1. redoStack' = <<>> /\ Len(redoStack') = 0 /\ 1..0 = {}
    BY <1>4
  <2> QED
    BY <2>1 DEF Chain
<1> QED
  BY <1>4, <1>10, <1>11 DEF Redoable

-----------------------------------------------------------------------------
(* Each of these commands keeps the groups so. *)

\* Where a command leaves the cursor.
LEMMA CursorEnds ==
  ASSUME NEW a, NEW d, Since(a, d)
  PROVE  /\ d.cur.y \in DOMAIN d.ls => \A c \in Nat : Put(d, c).cur = At(d.cur.y, d.cur.x + 1)
         /\ \A p \in Places, n \in Int : p.y \in DOMAIN d.ls => Cut(d, p, n).cur = p
         /\ \A y \in DOMAIN d.ls : y - 1 \in DOMAIN d.ls => Join(d, y).cur = At(y - 1, Len(d.ls[y - 1]))
<1>1. ASSUME d.cur.y \in DOMAIN d.ls, NEW c \in Nat PROVE Put(d, c).cur = At(d.cur.y, d.cur.x + 1)
  <2> DEFINE y == d.cur.y
             x == d.cur.x
             ks == [d.ls EXCEPT ![y] = Before(d.ls[y], x) \o <<c>> \o After(d.ls[y], x)]
             to == At(y, x + 1)
             ms == ForInsert(d.sel, d.cur, 1)
  <2>1. Becomes(Put(d, c), ks, to, ms)
    BY <1>1, PutOn
  <2> HIDE DEF ks, to, ms
  <2> QED
    BY <2>1 DEF Becomes, to
<1>2. ASSUME NEW p \in Places, NEW n \in Int, p.y \in DOMAIN d.ls PROVE Cut(d, p, n).cur = p
  <2> DEFINE ks == [d.ls EXCEPT ![p.y] = Before(d.ls[p.y], p.x) \o After(d.ls[p.y], p.x + n)]
             ms == ForDelete(d.sel, p, n)
  <2>1. Becomes(Cut(d, p, n), ks, p, ms)
    BY <1>2, CutOn
  <2> HIDE DEF ks, ms
  <2> QED
    BY <2>1 DEF Becomes
<1>3. ASSUME NEW y \in DOMAIN d.ls, y - 1 \in DOMAIN d.ls PROVE Join(d, y).cur = At(y - 1, Len(d.ls[y - 1]))
  BY <1>3, JoinOn, Zenon DEF Becomes
<1> QED
  BY <1>1, <1>2, <1>3

\* One row replaced, and the cursor left on it.
LEMMA RowEditTurns ==
  ASSUME RedoKept, ~crashed, NEW d, Since(lines, d), NEW type \in Types,
         NEW y \in DOMAIN lines, Alone(Working, d, Act("replace", y, lines[y])),
         d.cur.y = y, NEW op, Edit(op, type, d)
  PROVE  Redoable'
<1> DEFINE e == Act("replace", y, lines[y])
<1>1. lines \in Texts /\ Working.acts = <<>>
  BY WorkingSince DEF RedoKept
<1>2. e \in Actions /\ e.kind = "replace" /\ e.y = y
  BY <1>1 DEF Act, Actions, Kinds, Texts
<1>3. d.acts = <<e>>
  BY <1>1 DEF Alone
<1> HIDE DEF e
<1>4. Replaces(d.acts) /\ Turns(d.acts) /\ d.acts[1].y = y
  BY <1>2, <1>3 DEF Replaces, Turns
<1>5. y \in DOMAIN d.ls
  <2>1. d.ls \in Texts /\ d.acts \in Acts /\ Trail(lines, d.acts, d.ls)
    BY CopyHas
  <2>2. Len(d.ls) = Len(lines) + Gain(d.acts) /\ Gain(d.acts) = 0
    BY <1>3, <1>4, <2>1, TrailGain, GainIs
  <2> QED
    BY <1>1, <2>1, <2>2 DEF Texts
<1> QED
  BY <1>4, <1>5, EditTurns

\* One row replaced, and the row below it put in or taken out.
LEMMA TwoTurn ==
  ASSUME NEW e \in Actions, NEW f \in Actions, NEW p, p = Append(<<e>>, f),
         e.kind = "replace", f.kind \in {"insert", "delete"}, f.y = e.y + 1
  PROVE  Turns(p) /\ p[1] = e
<1>1. Turns(p)
  BY DEF Turns
<1> QED
  BY <1>1

LEMMA JoinEditTurns ==
  ASSUME RedoKept, ~crashed, NEW y \in DOMAIN lines, y - 1 \in DOMAIN lines,
         NEW type \in Types, type = "none" \/ (type = "backspace" /\ y = cur.y),
         NEW op, Edit(op, type, Join(Working, y))
  PROVE  Redoable'
<1> DEFINE d == Join(Working, y)
           e == Act("replace", y - 1, lines[y - 1])
           f == Act("delete", y, lines[y])
           n == Len(lines[y - 1])
<1>1. /\ lines \in Texts /\ Since(lines, Working) /\ Working.ls = lines /\ Working.acts = <<>> /\ y \in Int
      /\ cur.y \in Int /\ y - 1 \in Int /\ lines[y] \in Row /\ lines[y - 1] \in Row
  BY WorkingSince DEF RedoKept, Texts
<1>2. Since(lines, d) /\ d.acts = Append(<<e>>, f) /\ d.cur = At(y - 1, n)
  <2>1. Since(lines, d) /\ d.acts = Append(<<e>>, f)
    BY <1>1, JoinOn
  <2>2. d.cur = At(y - 1, Len(Working.ls[y - 1]))
    BY <1>1, CursorEnds
  <2> QED
    BY <1>1, <2>1, <2>2
<1>3. e \in Actions /\ f \in Actions /\ e.kind = "replace" /\ f.kind = "delete" /\ f.y = e.y + 1 /\ e.y = y - 1
  BY <1>1 DEF Act, Actions, Kinds
<1>4. d.cur.y = y - 1
  BY <1>2 DEF At
<1>5. Edit(op, type, d)
  OBVIOUS
<1>6. d.ls \in Texts /\ d.acts \in Acts /\ Trail(lines, d.acts, d.ls)
  BY <1>2, CopyHas
<1> HIDE DEF e, f, d
<1>7. Turns(d.acts) /\ d.acts[1] = e
  BY <1>2, <1>3, TwoTurn
<1>8. y - 1 \in DOMAIN d.ls
  <2>1. Gain(d.acts) = -1
    BY <1>2, <1>3, GainIs
  <2>2. Len(d.ls) = Len(lines) + Gain(d.acts)
    BY <1>6, <1>7, TrailGain
  <2>3. y \in 1..Len(lines) /\ y - 1 \in 1..Len(lines) /\ Len(lines) \in Nat /\ DOMAIN d.ls = 1..Len(d.ls)
    BY <1>1, <1>6 DEF Texts
  <2> QED
    BY <2>1, <2>2, <2>3
<1>9. type # "none" => d.acts[1].y # cur.y /\ type = "backspace"
  BY <1>1, <1>3, <1>7
<1> QED
  BY <1>2, <1>3, <1>4, <1>5, <1>7, <1>8, <1>9, EditTurns

LEMMA InsertCharTurns ==
  ASSUME RedoKept, ~crashed, InsertChar PROVE Redoable'
<1> DEFINE d == Put(Working, NextChar)
<1>0. /\ Since(lines, Working) /\ Working.ls = lines /\ Working.cur = cur /\ cur.y \in DOMAIN lines
      /\ NextChar \in Nat
  BY WorkingSince DEF RedoKept
<1>1. /\ Since(lines, d) /\ Alone(Working, d, Act("replace", cur.y, lines[cur.y]))
      /\ d.cur = At(cur.y, cur.x + 1)
  <2>1. Since(lines, d) /\ Alone(Working, d, Act("replace", Working.cur.y, Working.ls[Working.cur.y]))
    BY <1>0, PutOn
  <2>2. d.cur = At(Working.cur.y, Working.cur.x + 1)
    BY <1>0, CursorEnds
  <2> QED
    BY <1>0, <2>1, <2>2
<1>2. Edit("type", "typing", d)
  BY DEF InsertChar
<1> HIDE DEF d
<1>3. d.cur.y = cur.y
  BY <1>1 DEF At
<1>4. "typing" \in Types /\ cur.y \in DOMAIN lines
  BY WorkingSince DEF RedoKept, Types
<1> QED
  BY <1>1, <1>2, <1>3, <1>4, RowEditTurns

LEMMA SplitLineTurns ==
  ASSUME RedoKept, ~crashed, SplitLine PROVE Redoable'
<1> DEFINE d == Split(Working)
           y == cur.y
           e == Act("replace", y, lines[y])
           f == Act("insert", y + 1, <<>>)
<1>1. /\ Since(lines, d) /\ d.cur.y \in DOMAIN d.ls /\ d.acts = Append(<<e>>, f)
  BY WorkingSince, SplitOn DEF RedoKept
<1>2. Edit("enter", "none", d)
  BY DEF SplitLine
<1>3. e \in Actions /\ f \in Actions /\ e.kind = "replace" /\ f.kind = "insert" /\ f.y = e.y + 1
  <2>1. y \in Int /\ y \in DOMAIN lines /\ lines[y] \in Row
    BY WorkingSince DEF RedoKept, Texts
  <2> QED
    BY <2>1, NoChar DEF Act, Actions, Kinds
<1> HIDE DEF d, e, f
<1>4. Turns(d.acts)
  BY <1>1, <1>3, TwoTurn
<1>5. "none" \in Types
  BY DEF Types
<1> QED
  BY <1>1, <1>2, <1>4, <1>5, EditTurns

LEMMA CutTurns ==
  ASSUME RedoKept, ~crashed, NEW x \in Int, NEW n \in Int, NEW p, p = At(cur.y, x),
         NEW op, NEW type \in Types, Edit(op, type, Cut(Working, p, n))
  PROVE  Redoable'
<1> DEFINE d == Cut(Working, p, n)
<1>1. p \in Places /\ p.y = cur.y
  BY WorkingSince, AtTyped DEF RedoKept
<1>0. /\ Since(lines, Working) /\ Working.ls = lines /\ Working.cur = cur /\ p.y \in DOMAIN lines
  BY <1>1, WorkingSince DEF RedoKept
<1>2. Since(lines, d) /\ Alone(Working, d, Act("replace", cur.y, lines[cur.y])) /\ d.cur = p
  <2>1. Since(lines, d) /\ Alone(Working, d, Act("replace", p.y, Working.ls[p.y]))
    BY <1>0, <1>1, CutOn
  <2>2. d.cur = p
    BY <1>0, <1>1, CursorEnds
  <2> QED
    BY <1>0, <1>1, <2>1, <2>2
<1>3. Edit(op, type, d)
  OBVIOUS
<1> HIDE DEF d
<1>4. cur.y \in DOMAIN lines
  BY WorkingSince DEF RedoKept
<1> QED
  BY <1>1, <1>2, <1>3, <1>4, RowEditTurns

LEMMA BackspaceTurns ==
  ASSUME RedoKept, ~crashed, Backspace PROVE Redoable'
<1>1. /\ cur.x \in Int /\ cur.y \in Int /\ cur.y \in DOMAIN lines
      /\ DOMAIN lines = 1..Len(lines) /\ Len(lines) \in Nat /\ "backspace" \in Types
  BY WorkingSince DEF RedoKept, Types
<1>2. CASE cur.x > 0 /\ Edit("backspace", "backspace", Cut(Working, At(cur.y, cur.x - 1), 1))
  <2>1. cur.x - 1 \in Int /\ 1 \in Int
    BY <1>1
  <2> QED
    BY <1>1, <1>2, <2>1, CutTurns
<1>3. CASE cur.x <= 0 /\ cur.y > 1 /\ Edit("backspace", "backspace", Join(Working, cur.y))
  <2>1. cur.y - 1 \in DOMAIN lines
    BY <1>1, <1>3
  <2> QED
    BY <1>1, <1>3, <2>1, JoinEditTurns
<1> QED
  BY <1>2, <1>3 DEF Backspace

LEMMA CutRowTurns ==
  ASSUME RedoKept, ~crashed, CutRow PROVE Redoable'
<1>1. cur \in Places /\ cur.x \in Int /\ cur = At(cur.y, cur.x) /\ "none" \in Types
  BY WorkingSince DEF RedoKept, Places, At, Types
<1>2. CASE \E n \in 1..Len(lines[cur.y]) : cur.x + n <= Len(lines[cur.y]) /\ Edit("cut", "none", Cut(Working, cur, n))
  <2>1. PICK n \in 1..Len(lines[cur.y]) : Edit("cut", "none", Cut(Working, cur, n))
    BY <1>2
  <2>2. n \in Int
    OBVIOUS
  <2> QED
    BY <1>1, <2>1, <2>2, CutTurns
<1>3. CASE \E x \in 0..(cur.x - 1) : Edit("cut", "none", Cut(Working, At(cur.y, x), cur.x - x))
  <2>1. PICK x \in 0..(cur.x - 1) : Edit("cut", "none", Cut(Working, At(cur.y, x), cur.x - x))
    BY <1>3
  <2>2. x \in Int /\ cur.x - x \in Int
    BY <1>1
  <2> QED
    BY <1>1, <2>1, <2>2, CutTurns
<1> QED
  BY <1>2, <1>3 DEF CutRow

LEMMA JoinByWordTurns ==
  ASSUME RedoKept, ~crashed, JoinByWord PROVE Redoable'
<1>1. /\ cur.x \in Int /\ cur.y \in Int /\ cur.y \in DOMAIN lines
      /\ DOMAIN lines = 1..Len(lines) /\ Len(lines) \in Nat /\ "none" \in Types /\ "backspace" \in Types
  BY WorkingSince DEF RedoKept, Types
<1>2. CASE /\ cur.x >= Len(lines[cur.y]) /\ cur.y < Len(lines)
           /\ Edit("cut", "none", Join(Working, cur.y + 1))
  <2> DEFINE y == cur.y + 1
  <2>1. y \in DOMAIN lines /\ y - 1 \in DOMAIN lines
    BY <1>1, <1>2
  <2>2. Edit("cut", "none", Join(Working, y))
    BY <1>2
  <2> HIDE DEF y
  <2> QED
    BY <1>1, <2>1, <2>2, JoinEditTurns
<1>3. CASE cur.x = 0 /\ cur.y > 1 /\ Edit("cut", "backspace", Join(Working, cur.y))
  <2>1. cur.y - 1 \in DOMAIN lines
    BY <1>1, <1>3
  <2> QED
    BY <1>1, <1>3, <2>1, JoinEditTurns
<1> QED
  BY <1>2, <1>3 DEF JoinByWord

LEMMA ReplaceCurrentTurns ==
  ASSUME RedoKept, ~crashed, ReplaceCurrent PROVE Redoable'
<1>1. PICK n \in 1..(Len(lines[cur.y]) - cur.x), new \in {<<>>, <<NextChar>>} :
        Edit("replace", "typing",
          [Record(Working, "replace", cur.y)
             EXCEPT !.ls[cur.y] = Before(@, cur.x) \o new \o After(@, cur.x + n),
                    !.sel = ForInsert(ForDelete(@, cur, n), cur, Len(new)),
                    !.cur = At(cur.y, cur.x + Len(new))])
  BY DEF ReplaceCurrent
<1> DEFINE r == Record(Working, "replace", cur.y)
           d == [r EXCEPT !.ls[cur.y] = Before(@, cur.x) \o new \o After(@, cur.x + n),
                          !.sel = ForInsert(ForDelete(@, cur, n), cur, Len(new)),
                          !.cur = At(cur.y, cur.x + Len(new))]
<1>2. /\ Since(lines, Working) /\ Working.ls = lines /\ Working.cur = cur /\ Working.sel = sel
      /\ cur.y \in DOMAIN lines /\ NextChar \in Nat /\ "typing" \in Types
  BY WorkingSince DEF RedoKept, Types
<1>3. n \in Int /\ new \in Row
  BY <1>2, OneChar, NoChar
<1>4. r.ls = lines /\ r.sel = sel
  BY <1>2, RecordReplaces
<1> HIDE DEF r
<1>5. SetTo(d, r, [lines EXCEPT ![cur.y] = Before(@, cur.x) \o new \o After(@, cur.x + n)],
            ForInsert(ForDelete(sel, cur, n), cur, Len(new)), At(cur.y, cur.x + Len(new)))
  BY <1>4, Zenon DEF SetTo
<1>6. Edit("replace", "typing", d)
  BY <1>1, Zenon DEF r
<1> HIDE DEF d
<1>7. SetTo(d, Record(Working, "replace", Working.cur.y),
            [Working.ls EXCEPT ![Working.cur.y] = Before(@, Working.cur.x) \o new \o After(@, Working.cur.x + n)],
            ForInsert(ForDelete(Working.sel, Working.cur, n), Working.cur, Len(new)),
            At(Working.cur.y, Working.cur.x + Len(new)))
  BY <1>2, <1>5, Zenon DEF r
<1> DEFINE p == At(cur.y, cur.x + Len(new))
<1>8. /\ Since(lines, d) /\ Alone(Working, d, Act("replace", Working.cur.y, Working.ls[Working.cur.y]))
      /\ Becomes(d, [Working.ls EXCEPT ![Working.cur.y] =
                       Before(Working.ls[Working.cur.y], Working.cur.x) \o new
                         \o After(Working.ls[Working.cur.y], Working.cur.x + n)],
                 At(Working.cur.y, Working.cur.x + Len(new)),
                 ForInsert(ForDelete(Working.sel, Working.cur, n), Working.cur, Len(new)))
  BY <1>2, <1>3, <1>7, ReplaceOn, Zenon
<1>9. d.cur = p
  BY <1>2, <1>8, Zenon DEF Becomes
<1>10. d.cur.y = cur.y
  BY <1>9 DEF At
<1>11. Alone(Working, d, Act("replace", cur.y, lines[cur.y]))
  BY <1>2, <1>8, Zenon
<1> QED
  BY <1>2, <1>6, <1>8, <1>10, <1>11, RowEditTurns

\* Moving the cursor and setting the markers.
LEMMA MarkingTurns ==
  ASSUME RedoKept, Marking PROVE Redoable'
<1> DEFINE n == Len(undoStack)
           l == undoStack[n]
           g == [l EXCEPT !.type = "none"]
<1>1. undoStack' = Uncoalesced(undoStack) /\ redoStack' = redoStack /\ lines' = lines
  BY Zenon DEF Marking, MoveCursor, SetSelectionStart, SetSelectionEnd, ClearSelection, Settle
<1>2. undoStack \in Seq(Twofold)
  BY DEF RedoKept, Redoable
<1>3. CASE undoStack = <<>>
  BY <1>1, <1>2, <1>3 DEF Uncoalesced, RedoKept, Redoable
<1>4. CASE undoStack # <<>>
  <2>1. n \in 1..n /\ l \in Twofold
    BY <1>2, <1>4
  <2>2. g \in Twofold
    <3>1. l \in Groups
      BY <2>1 DEF Twofold
    <3>2. /\ g \in Groups /\ g.type = "none"
          /\ g.acts = l.acts /\ g.after = l.after /\ g.was = l.was
      BY <3>1 DEF Groups, Types
    <3> HIDE DEF g, l
    <3> QED
      BY <2>1, <3>2 DEF Twofold
  <2>3. Uncoalesced(undoStack) = [undoStack EXCEPT ![n] = g]
    BY <1>4, Zenon DEF Uncoalesced
  <2> HIDE DEF g
  <2>4. Uncoalesced(undoStack) \in Seq(Twofold)
    BY <1>2, <2>1, <2>2, <2>3
  <2> QED
    BY <1>1, <2>4 DEF RedoKept, Redoable
<1> QED
  BY <1>3, <1>4

-----------------------------------------------------------------------------
(* Undo and redo keep them so. *)

\* A group that leads to the text, taken back; its inverse leads to it again from the text
\* of before.
LEMMA TakenBackTurns ==
  ASSUME HistoryKept, ~crashed, NEW g \in Twofold, Kept(g, lines), TakeBack(g)
  PROVE  /\ lines' = g.was /\ lines' \in Texts /\ cur' \in Places /\ sel' \in Marks /\ edits' \in Nat
         /\ crashed' \in BOOLEAN /\ ~crashed' /\ ~OffText(lines', cur', sel')
         /\ InverseGroup(g, Reverted(g)) \in Twofold /\ InverseGroup(g, Reverted(g)).was = lines
         /\ Kept(InverseGroup(g, Reverted(g)), g.was)
<1> DEFINE r == Reverted(g)
           h == InverseGroup(g, r)
<1>1. /\ g \in Groups /\ Turns(g.acts) /\ g.after.y \in 1..Len(g.was) + Gain(g.acts)
  BY DEF Twofold
<1>2. g.acts \in Acts /\ g.before \in Places /\ g.after \in Places /\ g.was \in Texts
  BY <1>1 DEF Groups
<1>3. Trail(g.was, g.acts, lines) /\ g.before.y \in DOMAIN g.was
  BY DEF Kept
<1>4. sel \in Marks /\ OnText(sel, lines) /\ edits \in Nat /\ lines \in Texts
  BY WorkingSince
<1>5. /\ lines' = r.ls /\ sel' = r.sel /\ cur' = g.before /\ edits' = edits
      /\ crashed' = (r.bad \/ OffText(r.ls, g.before, r.sel))
  BY Zenon DEF TakeBack
<1>6. r.ls = g.was /\ ~r.bad /\ r.sel \in Marks /\ OnText(r.sel, g.was)
  BY <1>2, <1>3, <1>4, RevertedOn
<1>7. TurnsTo(r.acts, lines, g.was)
  BY <1>1, <1>2, <1>3, <1>4, Turned
<1>8. Len(lines) = Len(g.was) + Gain(g.acts)
  BY <1>1, <1>2, <1>3, TrailGain
<1>9. h.acts = r.acts /\ h.before = g.after /\ h.after = g.before /\ h.type = "none" /\ h.was = lines
  BY DEF InverseGroup
<1>10. h = [acts |-> r.acts, before |-> g.after, after |-> g.before, type |-> "none", was |-> lines]
  BY DEF InverseGroup
<1> HIDE DEF r, h
<1>11. ~OffText(r.ls, g.before, r.sel)
  BY <1>3, <1>6 DEF OffText, OnText
<1>12. r.acts \in Acts /\ Turns(r.acts) /\ Trail(lines, r.acts, g.was)
  BY <1>7 DEF TurnsTo
<1>13. h \in Groups
  BY <1>2, <1>4, <1>10, <1>12 DEF Groups, Types
<1>14. h.after.y \in 1..Len(h.was) + Gain(h.acts)
  <2>1. Len(g.was) = Len(lines) + Gain(r.acts)
    BY <1>12, TrailGain
  <2> QED
    BY <1>2, <1>3, <1>9, <2>1 DEF Texts
<1>15. h \in Twofold
  BY <1>9, <1>12, <1>13, <1>14 DEF Twofold
<1>16. h.before.y \in DOMAIN lines
  BY <1>1, <1>4, <1>8, <1>9 DEF Texts
<1>17. Kept(h, g.was)
  BY <1>9, <1>12, <1>16 DEF Kept, Shaped
<1>18. h.was = lines
  BY <1>9
<1>19. /\ lines' = g.was /\ lines' \in Texts /\ cur' \in Places /\ sel' \in Marks /\ edits' \in Nat
       /\ crashed' \in BOOLEAN /\ ~crashed' /\ ~OffText(lines', cur', sel')
  BY <1>2, <1>4, <1>5, <1>6, <1>11
<1> QED
  BY <1>15, <1>17, <1>18, <1>19 DEF h, r

\* One stack gives a group to the other.
LEMMA StacksTurn ==
  ASSUME HistoryKept, ~crashed, NEW s \in Seq(Twofold), s # <<>>, Chain(s, lines),
         NEW t \in Seq(Twofold), Chain(t, lines), TakeBack(Last(s))
  PROVE  /\ lines' \in Texts /\ cur' \in Places /\ sel' \in Marks /\ edits' \in Nat /\ crashed' \in BOOLEAN
         /\ ~OffText(lines', cur', sel')
         /\ Front(s) \in Seq(Twofold) /\ Chain(Front(s), lines')
         /\ Append(t, InverseGroup(Last(s), Reverted(Last(s)))) \in Seq(Twofold)
         /\ Chain(Append(t, InverseGroup(Last(s), Reverted(Last(s)))), lines')
<1> DEFINE g == Last(s)
           h == InverseGroup(g, Reverted(g))
<1>1. s \in Seq(Groups) /\ t \in Seq(Groups)
  BY TwofoldGroups
<1>2. Kept(g, lines) /\ Chain(Front(s), g.was)
  BY <1>1, FrontKeeps
<1>3. g \in Twofold
  BY DEF Last
<1> HIDE DEF g
<1>4. /\ lines' = g.was /\ lines' \in Texts /\ cur' \in Places /\ sel' \in Marks /\ edits' \in Nat
      /\ crashed' \in BOOLEAN /\ ~OffText(lines', cur', sel')
      /\ h \in Twofold /\ h.was = lines /\ Kept(h, g.was)
  <2>1. TakeBack(g)
    BY DEF g
  <2> QED
    BY <1>2, <1>3, <2>1, TakenBackTurns
<1> HIDE DEF h
<1>5. Chain(Append(t, h), g.was)
  BY <1>1, <1>4, AppendKeeps, TwofoldGroups
<1>6. Append(t, h) \in Seq(Twofold) /\ Front(s) \in Seq(Twofold)
  BY <1>4, Transferred
<1> QED
  BY <1>2, <1>4, <1>5, <1>6 DEF g, h

LEMMA UndoTurns ==
  ASSUME RedoKept, ~crashed, Undo PROVE RedoKept'
<1> DEFINE h == InverseGroup(Last(undoStack), Reverted(Last(undoStack)))
<1>1. /\ undoStack \in Seq(Twofold) /\ redoStack \in Seq(Twofold) /\ Chain(undoStack, lines) /\ Chain(redoStack, lines)
      /\ HistoryKept
  BY DEF RedoKept, Redoable, HistoryKept
<1>2. /\ undoStack # <<>> /\ TakeBack(Last(undoStack))
      /\ undoStack' = Front(undoStack) /\ redoStack' = Append(redoStack, h)
  BY Zenon DEF Undo
<1>3. /\ lines' \in Texts /\ cur' \in Places /\ sel' \in Marks /\ edits' \in Nat /\ crashed' \in BOOLEAN
      /\ ~OffText(lines', cur', sel')
      /\ Front(undoStack) \in Seq(Twofold) /\ Chain(Front(undoStack), lines')
      /\ Append(redoStack, h) \in Seq(Twofold) /\ Chain(Append(redoStack, h), lines')
  BY <1>1, <1>2, StacksTurn
<1> HIDE DEF h
<1>4. undoStack' \in Seq(Groups)
  BY <1>2, <1>3, TwofoldGroups
<1> QED
  BY <1>2, <1>3, <1>4 DEF RedoKept, Redoable, HistoryKept, Typed

LEMMA RedoTurns ==
  ASSUME RedoKept, ~crashed, Redo PROVE RedoKept'
<1> DEFINE h == InverseGroup(Last(redoStack), Reverted(Last(redoStack)))
<1>1. /\ undoStack \in Seq(Twofold) /\ redoStack \in Seq(Twofold) /\ Chain(undoStack, lines) /\ Chain(redoStack, lines)
      /\ HistoryKept
  BY DEF RedoKept, Redoable, HistoryKept
<1>2. /\ redoStack # <<>> /\ TakeBack(Last(redoStack))
      /\ redoStack' = Front(redoStack) /\ undoStack' = Append(undoStack, h)
  BY Zenon DEF Redo
<1>3. /\ lines' \in Texts /\ cur' \in Places /\ sel' \in Marks /\ edits' \in Nat /\ crashed' \in BOOLEAN
      /\ ~OffText(lines', cur', sel')
      /\ Front(redoStack) \in Seq(Twofold) /\ Chain(Front(redoStack), lines')
      /\ Append(undoStack, h) \in Seq(Twofold) /\ Chain(Append(undoStack, h), lines')
  BY <1>1, <1>2, StacksTurn
<1> HIDE DEF h
<1>4. undoStack' \in Seq(Groups)
  BY <1>2, <1>3, TwofoldGroups
<1> QED
  BY <1>2, <1>3, <1>4 DEF RedoKept, Redoable, HistoryKept, Typed

-----------------------------------------------------------------------------
(* Redo gives back what undo took away. *)

LEMMA InitTurns ==
  ASSUME Init PROVE RedoKept
<1>1. undoStack = <<>> /\ redoStack = <<>> /\ Len(redoStack) = 0 /\ 1..0 = {}
  BY DEF Init
<1>2. Redoable
  BY <1>1 DEF Redoable, Chain
<1> QED
  BY <1>2, InitKept DEF RedoKept

LEMMA NextTurns ==
  ASSUME Ops \subseteq RowWise, RedoKept, [Next]_vars PROVE RedoKept'
<1>0. HistoryKept /\ "paste" \notin Ops /\ "delete" \notin Ops /\ "line" \notin Ops /\ "block" \notin Ops
      /\ "copy" \notin Ops /\ "format" \notin Ops /\ "agent" \notin Ops
  BY DEF RedoKept, RowWise
<1>1. CASE Next
  <2>0. ~crashed
    BY <1>1 DEF Next
  <2>1. CASE Typing
    <3>1. ~InsertText
      BY <1>0 DEF InsertText, Edit
    <3>2. HistoryKept'
      BY <1>0, <2>0, <2>1, <3>1, InsertCharKeeps, SplitLineKeeps, ReplaceCurrentKeeps DEF Typing
    <3>3. Redoable'
      BY <2>0, <2>1, <3>1, InsertCharTurns, SplitLineTurns, ReplaceCurrentTurns DEF Typing
    <3> QED
      BY <3>2, <3>3 DEF RedoKept
  <2>2. CASE Deleting
    <3>1. ~DeleteChar /\ ~DeleteLine
      BY <1>0, Zenon DEF DeleteChar, DeleteLine, Edit
    <3>2. HistoryKept'
      BY <1>0, <2>0, <2>2, <3>1, BackspaceKeeps, CutRowKeeps, JoinByWordKeeps DEF Deleting
    <3>3. Redoable'
      BY <2>0, <2>2, <3>1, BackspaceTurns, CutRowTurns, JoinByWordTurns DEF Deleting
    <3> QED
      BY <3>2, <3>3 DEF RedoKept
  <2>3. CASE Marking
    <3>1. HistoryKept'
      BY <1>0, <2>0, <2>3, MoveCursorKeeps, MarkingKeeps DEF Marking
    <3>2. Redoable'
      BY <2>3, MarkingTurns
    <3> QED
      BY <3>1, <3>2 DEF RedoKept
  <2>4. CASE Blocks
    BY <1>0, <2>4, Zenon DEF Blocks, DeleteSelection, CopySelection, MoveSelection
  <2>5. CASE FormatRange
    BY <1>0, <2>5, Zenon DEF FormatRange, Edit
  <2>6. CASE ApplyAgentEdits
    BY <1>0, <2>6, Zenon DEF ApplyAgentEdits
  <2>7. CASE Undo
    BY <2>0, <2>7, UndoTurns
  <2>8. CASE Redo
    BY <2>0, <2>8, RedoTurns
  <2> QED
    BY <1>1, <2>1, <2>2, <2>3, <2>4, <2>5, <2>6, <2>7, <2>8 DEF Next
<1>2. CASE UNCHANGED vars
  <2>1. /\ lines' = lines /\ cur' = cur /\ sel' = sel /\ undoStack' = undoStack /\ redoStack' = redoStack
        /\ edits' = edits /\ crashed' = crashed
    BY <1>2 DEF vars, stacks
  <2> QED
    BY <2>1 DEF RedoKept, Redoable, HistoryKept, Typed
<1> QED
  BY <1>1, <1>2

LEMMA TurnsReapply == RedoKept => RedoReapplies
<1> SUFFICES ASSUME RedoKept, redoStack # <<>>
             PROVE  ~Reverted(Last(redoStack)).bad /\ Reverted(Last(redoStack)).ls = Last(redoStack).was
  BY DEF RedoReapplies
<1> DEFINE g == Last(redoStack)
<1>1. redoStack \in Seq(Twofold) /\ redoStack \in Seq(Groups) /\ Chain(redoStack, lines) /\ sel \in Marks
  BY TwofoldGroups DEF RedoKept, Redoable, HistoryKept, Typed
<1>2. Kept(g, lines) /\ g \in Groups
  BY <1>1, FrontKeeps, StackHas
<1> HIDE DEF g
<1>3. g.acts \in Acts /\ Trail(g.was, g.acts, lines)
  BY <1>2 DEF Kept, Groups
<1>4. ~Reverted(g).bad /\ Reverted(g).ls = g.was
  BY <1>1, <1>3, RevertedOn
<1> QED
  BY <1>4 DEF g

\* RowWiseHistory: with redo, as long as each command changes one row, or one row and the
\* one below it, the groups of both stacks lead, action by action, from one text to the
\* next, and each keeps a cursor that is on a row of the text it leads to.
THEOREM RowWiseHistory ==
  ASSUME Ops \subseteq RowWise PROVE Spec => []RedoKept
<1>1. Init => RedoKept
  BY InitTurns
<1>2. RedoKept /\ [Next]_vars => RedoKept'
  BY NextTurns
<1> QED
  BY <1>1, <1>2, PTL DEF Spec

\* RedoReturns: for such commands, however they were coalesced and however often they were
\* undone and redone, redo gives back the text that undo took away and indexes no row that
\* is gone, although it walks the actions of the group in the wrong order
\* (document_undo.cpp, undo and redo).
THEOREM RedoReturns ==
  ASSUME Ops \subseteq RowWise PROVE Spec => []RedoReapplies
<1>1. Spec => []RedoKept
  BY RowWiseHistory
<1> QED
  BY <1>1, TurnsReapply, PTL

\* RedoneTakesBack: and what was redone can be undone again: get_lines_at_undo(k) is the
\* text of before the last k groups, those that redo put back included.
THEOREM RedoneTakesBack ==
  ASSUME Ops \subseteq RowWise PROVE Spec => []UndoTakesBack
<1>1. Spec => []RedoKept
  BY RowWiseHistory
<1>2. RedoKept => UndoTakesBack
  BY KeptTakesBack DEF RedoKept
<1> QED
  BY <1>1, <1>2, PTL
=============================================================================
