--------------------------- MODULE AgentTreeProps ---------------------------
(* What parents and children owe each other, over AgentTree. *)
EXTENDS AgentTree

Cascading == \E c \in Agents : doomed[c] # "no"

\* OnlyLateSpawnsEscape: when an agent was declared dead and the cascade is over, each
\* of its subagents is closed, but for those it spawned after they were collected.
OnlyLateSpawnsEscape ==
    ~Cascading => \A a \in fallen : \A c \in subs[a] \ late : closed[c] /\ c \in fallen

\* WaitersReturn: a run loop or a verifier thread that waits for a subagent for ever waits
\* for one that kill_subagent closed and removed without setting it to dead, or for one
\* whose own loop wrote another status over the dead of the cascade that closed it, and
\* stays with that.  Every other wait ends: when the subagent has ended its turn, when it
\* died with a result, when it died in a cascade, also together with who waits for it.
Killed(c)      == closed[c] /\ c \notin fallen /\ \A a \in Agents : c \notin subs[a]
Overwritten(c) == c \in fallen /\ status[c] # "dead"
Forgotten(c)   == Killed(c) \/ Overwritten(c)
Verifying      == verifier.phase = "reaping" \/ (verifier.phase = "reviewing" /\ Unborn # {})
WaitersReturn ==
    /\ \A a \in Agents :
         <>[](loop[a] = "waiting") => <>[](\E c \in Agents : on[a] = c /\ Forgotten(c))
    /\ <>[]Verifying => <>[](\E c \in Agents : verifier.on = c /\ Forgotten(c))

\* Who is closed or was declared dead.
Gone(a) == closed[a] \/ a \in fallen

\* CompletionsHeard: a subagent that no invoke_subagent waited for is heard of when its
\* turn ends, also when it ends dead with a result: its parent returns from a wait for
\* it or reads its message, unless it was closed or the parent is gone.
CompletionsHeard ==
    \A c \in Agents \ {Root} :
      reports[c] > 0 ~> c \in heard \/ ~notify[c] \/ closed[c] \/ \E a \in Agents : parent[c] = a /\ Gone(a)
=============================================================================
