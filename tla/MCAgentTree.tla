---- MODULE MCAgentTree ----
(* Instances of AgentTree for TLC. *)
EXTENDS AgentTreeProps, TLC
CONSTANTS r, a, b, c

\* r is the root; a is born first, c last.
Tools(ofR, ofA, ofB, ofC) == (r :> ofR) @@ (a :> ofA) @@ (b :> ofB) @@ (c :> ofC)
Same(ts) == Tools(ts, ts, ts, ts)

\* A subagent that waits for one of its own when the parent of both dies; a reviewer that
\* dies with who asked for the review; waits that time out; agents that are killed; timers.
SomeTools ==
    {Tools({"spawn"}, {"spawn", "conclude"}, {"spawn", "wait"}, {}),
     Tools({"spawn"}, {"review", "conclude"}, {}, {}),
     Tools({"invoke"}, {"invoke", "send"}, {}, {}), Tools({"invoke"}, {"conclude"}, {}, {}),
     Same({"review", "kill"}), Same({"timer"})}
====
