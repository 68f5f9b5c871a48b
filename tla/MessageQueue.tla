---------------------------- MODULE MessageQueue ----------------------------
(***************************************************************************)
(* What an agent promises to whoever hands it a message, without threads,  *)
(* workers or transactions: a message waits until a response is recorded   *)
(* with it or after it, and does not wait for ever.                        *)
(***************************************************************************)
CONSTANT Messages

VARIABLES waiting, covered

vars == <<waiting, covered>>

Init == waiting = {} /\ covered = {}

Hand(m) ==
    /\ m \notin waiting \cup covered
    /\ waiting' = waiting \cup {m}
    /\ UNCHANGED covered

\* A response covers the messages up to some point; later ones wait on.
Cover(ms) ==
    /\ ms # {}
    /\ waiting' = waiting \ ms
    /\ covered' = covered \cup ms

Next ==
    \/ \E m \in Messages : Hand(m)
    \/ \E ms \in SUBSET waiting : Cover(ms)

Spec == Init /\ [][Next]_vars

Live == \A m \in Messages : m \in waiting ~> m \in covered
=============================================================================
