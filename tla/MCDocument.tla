----------------------------- MODULE MCDocument -----------------------------
(* Small instances of Document and DocumentProps for TLC. *)
EXTENDS DocumentProps

TwoRows   == <<<<1, 2>>, <<3>>>>
BlankRow  == <<<<1, 2>>, <<>>, <<3>>>>

NoProposals == {}

\* Where nothing is undone, states that differ in the undo history are one.
WithoutHistory == <<lines, cur, sel, crashed, edits>>

\* Proposals of an agent: one edit, and two in descending order.
Proposal(kind, y, gone, new) == [kind |-> kind, y |-> y, gone |-> gone, new |-> new]
OneEdit ==
    {Proposal("add", y, 0, <<<<90 + y>>>>) : y \in 1..4}
      \cup {Proposal("replace", y, n, <<<<80 + y>>, <<>>>>) : y \in 1..3, n \in 1..2}
      \cup {Proposal("remove", y, n, <<>>) : y \in 2..3, n \in 1..2}
Proposals ==
    {<<e>> : e \in OneEdit}
      \cup {<<e, f>> : e \in {o \in OneEdit : o.y = 3 /\ o.gone < 2}, f \in {o \in OneEdit : o.y = 1}}
FewProposals == {<<Proposal("replace", 1, 2, <<<<80>>, <<>>>>)>>,
                 <<Proposal("add", 3, 0, <<<<90>>>>), Proposal("remove", 1, 1, <<>>)>>}
=============================================================================
