------------------------------ MODULE AgentTree ------------------------------
(* The agents of one window and the threads between them (ai_agent.cpp and the tools
   invoke_subagent, wait_for_subagent, kill_subagent, send_message,
   report_final_result, agent_set_timer, perform_code_review under src/src/tools).
   Every agent has a run loop thread; here the loop is its turns and its tools, and
   AgentLoop has its inside.  A set_status(dead) closes the subagents it finds one by
   one, while their loops go on.  A loop looks at is_closed_ first and sets its status
   later, without another look, so that it may write over the dead of a cascade. *)
EXTENDS Naturals, FiniteSets

CONSTANTS Agents,   \* every agent there may be
          Root,     \* the agent of the window
          MaxCalls, \* bound: tool calls that reach another agent
          MaxSent,  \* bound: prompts of the user
          Granted   \* which tools each agent has: the choices there are

ASSUME RootAssumption == Root \in Agents

Nobody == "nobody"
User   == "user"    \* the user, or a timer

VARIABLES
  status,   \* status_: unborn, idle, thinking, tool, waiting, dead
  closed,   \* is_closed_
  parent,   \* parent_agent_
  subs,     \* subagents_, as a set
  tools,    \* the tools each has (its active families)
  notify,   \* notify_parent_on_completion_
  result,   \* has_final_result()
  inbox,    \* who sent the prompts and notifications its loop did not read yet
  loop,     \* the run loop: off, top, called, going, asking, ending, and in a tool
            \* invoked, marking, waiting, removing
  on,       \* the agent it waits for, or removes
  old,      \* what it sets its status to afterwards
  reports,  \* loops that ended a turn and did not notify the parent yet
  doomed,   \* subs_to_kill of the set_status(dead) in progress: no, close, dead
  timer,    \* an agent_set_timer thread sleeps
  verifier, \* the cr_verifier thread of a review: off, reviewing, reaping; its agent
  calls, sent,
  late,     \* history: spawned by an agent that had been declared dead
  fallen,   \* history: declared dead
  heard     \* history: the end of its last turn reached the parent

turns  == <<status, loop, on, old, inbox, result, reports, calls, sent>>
family == <<parent, subs, closed, doomed, late, fallen>>
news   == <<notify, heard>>
side   == <<timer, tools>>
treeVars == <<turns, family, news, side, verifier>>

TypeOK ==
    /\ status \in [Agents -> {"unborn", "idle", "thinking", "tool", "waiting", "dead"}]
    /\ closed \in [Agents -> BOOLEAN] /\ notify \in [Agents -> BOOLEAN] /\ result \in [Agents -> BOOLEAN]
    /\ parent \in [Agents -> Agents \union {Nobody}] /\ on \in [Agents -> Agents \union {Nobody}]
    /\ subs \in [Agents -> SUBSET Agents] /\ inbox \in [Agents -> SUBSET (Agents \union {User})] /\ reports \in [Agents -> Nat]
    /\ loop \in [Agents -> {"off", "top", "called", "going", "asking", "ending",
                            "invoked", "marking", "waiting", "removing"}]
    /\ old \in [Agents -> {"tool", "dead"}]
    /\ doomed \in [Agents -> {"no", "close", "dead"}]
    /\ timer \in [Agents -> BOOLEAN]
    /\ verifier \in [phase : {"off", "reviewing", "reaping"}, of : Agents \union {Nobody}, on : Agents \union {Nobody}]
    /\ calls \in 0..MaxCalls /\ sent \in 0..MaxSent
    /\ late \subseteq Agents /\ fallen \subseteq Agents /\ heard \subseteq Agents /\ tools \in Granted

Settled(a) == status[a] \in {"idle", "dead"}   \* the predicate of wait_until_idle
Unborn     == {a \in Agents : status[a] = "unborn"}
Newborn    == CHOOSE c \in Unborn : TRUE  \* an id of its own: ++subagent_sequence_counter_

\* submit_prompt, or inject_context with a trigger, by s: c's conversation grows, and
\* an idle c gets a loop.  st and lp are what else the step makes of status and loop.
Wakes(c) == status[c] = "idle" /\ ~closed[c]
Submit(s, c, st, lp) ==
    /\ inbox' = [inbox EXCEPT ![c] = @ \union {s}]
    /\ status' = [st EXCEPT ![c] = IF Wakes(c) THEN "thinking" ELSE @]
    /\ loop' = [lp EXCEPT ![c] = IF Wakes(c) THEN "top" ELSE @]

\* Mutant: no subagent is collected.
CollectNone(a) == doomed

\* What set_status(dead) of a collects.
Collect(a) == [c \in Agents |-> IF c \in subs[a] THEN "close" ELSE doomed[c]]

\* spawn_subagent and the first prompt: the child's loop starts.
Born(c, a, st, lp) ==
    /\ status' = [st EXCEPT ![c] = "thinking"]
    /\ loop' = [lp EXCEPT ![c] = "top"]
    /\ inbox' = [inbox EXCEPT ![c] = {a}]
    /\ parent' = [parent EXCEPT ![c] = a]
    /\ subs' = [subs EXCEPT ![a] = @ \union {c}]
    /\ late' = IF a \in fallen THEN late \union {c} ELSE late

-----------------------------------------------------------------------------
(* Turns *)

\* The user types into the window.
Prompt ==
    /\ sent < MaxSent /\ sent' = sent + 1
    /\ Submit(User, Root, status, loop)
    /\ UNCHANGED <<on, old, result, reports, calls, family, news, side, verifier>>

\* The top of the loop, where a loop that comes from its tools is thinking again: it
\* leaves when the agent was closed.
Top(a) ==
    /\ loop[a] \in {"top", "called"}
    /\ status' = IF loop[a] = "called" THEN [status EXCEPT ![a] = "thinking"] ELSE status
    /\ loop' = [loop EXCEPT ![a] = IF closed[a] THEN "off" ELSE "going"]
    /\ UNCHANGED <<on, old, inbox, result, reports, calls, sent, family, news, side, verifier>>

\* It copies the conversation, is thinking, closed or not, and asks the model.
Asks(a) ==
    /\ loop[a] = "going"
    /\ loop' = [loop EXCEPT ![a] = "asking"]
    /\ status' = [status EXCEPT ![a] = "thinking"]
    /\ inbox' = [inbox EXCEPT ![a] = {}]
    /\ heard' = heard \union {c \in Agents \intersect inbox[a] : parent[c] = a}
    /\ UNCHANGED <<on, old, result, reports, calls, sent, family, notify, side, verifier>>

\* An answer without tools ends the turn, but for what came in meanwhile.
TurnEnds(a) ==
    /\ loop[a] = "asking" /\ inbox[a] = {}
    /\ loop' = [loop EXCEPT ![a] = IF closed[a] THEN "off" ELSE "ending"]
    /\ UNCHANGED <<status, on, old, inbox, result, reports, calls, sent, family, news, side, verifier>>

TurnsBack(a) ==
    /\ loop[a] \in {"asking", "ending"} /\ inbox[a] # {}
    /\ loop' = [loop EXCEPT ![a] = "top"]
    /\ UNCHANGED <<status, on, old, inbox, result, reports, calls, sent, family, news, side, verifier>>

\* A tool was called for, and the agent is closed before it comes to it.
LeavesClosed(a) ==
    /\ loop[a] = "asking" /\ closed[a]
    /\ loop' = [loop EXCEPT ![a] = "off"]
    /\ UNCHANGED <<status, on, old, inbox, result, reports, calls, sent, family, news, side, verifier>>

\* The end of the loop, under the mutex of the conversation: a subagent with a result
\* is dead, another agent idle, whatever its status was set to since it looked whether
\* it is closed.
Finishes(a) ==
    /\ loop[a] = "ending" /\ inbox[a] = {}
    /\ loop' = [loop EXCEPT ![a] = "off"]
    /\ reports' = [reports EXCEPT ![a] = @ + 1]
    /\ heard' = heard \ {a}
    /\ IF result[a] /\ parent[a] # Nobody
       THEN /\ status' = [status EXCEPT ![a] = "dead"]
            /\ doomed' = Collect(a) /\ fallen' = fallen \union {a}
            /\ UNCHANGED result
       ELSE /\ status' = [status EXCEPT ![a] = "idle"]
            /\ result' = [result EXCEPT ![a] = FALSE]
            /\ UNCHANGED <<doomed, fallen>>
    /\ UNCHANGED <<on, old, inbox, calls, sent, parent, subs, closed, late, notify, side, verifier>>

\* Mutant: a dead agent tells its parent nothing.
TellsUnlessDead(a) == parent[a] # Nobody /\ notify[a] /\ status[a] # "dead"

Tells(a) == parent[a] # Nobody /\ notify[a]

\* After the turn: the parent gets the SubagentStop message.
Report(a) ==
    /\ reports[a] > 0
    /\ reports' = [reports EXCEPT ![a] = @ - 1]
    /\ IF Tells(a) THEN Submit(a, parent[a], status, loop)
       ELSE UNCHANGED <<status, loop, inbox>>
    /\ UNCHANGED <<on, old, result, calls, sent, family, news, side, verifier>>

-----------------------------------------------------------------------------
(* Tools, run by the loop; the turn goes on at its top.  The loop has looked whether the
   agent is closed before it sets the status to tool and runs the tool, so that a close
   in between does not keep it from either: the first three are one step, in which
   nobody is asked whether the agent is closed. *)

Tool(a, t) == t \in tools[a] /\ loop[a] = "asking" /\ calls < MaxCalls /\ calls' = calls + 1
InTool(a)   == [status EXCEPT ![a] = "tool"]
Onwards(a)  == [loop EXCEPT ![a] = "called"]

\* invoke_subagent without wait
Spawns(a, c) ==
    /\ Tool(a, "spawn") /\ c \in Unborn /\ c = Newborn
    /\ Born(c, a, InTool(a), Onwards(a))
    /\ UNCHANGED <<on, old, result, reports, sent, closed, doomed, fallen, news, side, verifier>>

\* invoke_subagent with wait: the child runs, then the status is saved and set to
\* waiting, then the child's notification is turned off.
Invokes(a, c) ==
    /\ Tool(a, "invoke") /\ c \in Unborn /\ c = Newborn
    /\ Born(c, a, InTool(a), [loop EXCEPT ![a] = "invoked"])
    /\ on' = [on EXCEPT ![a] = c]
    /\ UNCHANGED <<old, result, reports, sent, closed, doomed, fallen, news, side, verifier>>

Pauses(a) ==
    /\ loop[a] = "invoked"
    /\ old' = [old EXCEPT ![a] = IF status[a] = "dead" THEN "dead" ELSE "tool"]
    /\ status' = [status EXCEPT ![a] = "waiting"]
    /\ loop' = [loop EXCEPT ![a] = "marking"]
    /\ UNCHANGED <<on, inbox, result, reports, calls, sent, family, news, side, verifier>>

Mutes(a) ==
    /\ loop[a] = "marking"
    /\ notify' = [notify EXCEPT ![on[a]] = FALSE]
    /\ loop' = [loop EXCEPT ![a] = "waiting"]
    /\ UNCHANGED <<status, on, old, inbox, result, reports, calls, sent, family, heard, side, verifier>>

\* The 120 seconds of invoke_subagent are over.
TimesOut(a) ==
    /\ loop[a] = "waiting" /\ on[a] \in Agents /\ ~notify[on[a]] /\ ~Settled(on[a])
    /\ status' = [status EXCEPT ![a] = old[a]]
    /\ loop' = Onwards(a)
    /\ on' = [on EXCEPT ![a] = Nobody]
    /\ UNCHANGED <<old, inbox, result, reports, calls, sent, family, notify, heard, side, verifier>>

\* wait_for_subagent
Waits(a, c) ==
    /\ Tool(a, "wait") /\ c \in subs[a]
    /\ status' = [status EXCEPT ![a] = "waiting"]
    /\ loop' = [loop EXCEPT ![a] = "waiting"]
    /\ on' = [on EXCEPT ![a] = c] /\ old' = [old EXCEPT ![a] = "tool"]
    /\ UNCHANGED <<inbox, result, reports, sent, family, news, side, verifier>>

\* Either wait ends: the agent is set to its status again, whatever it was set to
\* meanwhile, and has the child's result.
Returns(a) ==
    /\ loop[a] = "waiting" /\ Settled(on[a])
    /\ status' = [status EXCEPT ![a] = old[a]]
    /\ loop' = Onwards(a)
    /\ heard' = heard \union {on[a]} /\ on' = [on EXCEPT ![a] = Nobody]
    /\ UNCHANGED <<old, inbox, result, reports, calls, sent, family, notify, side, verifier>>

\* kill_subagent, and agent_get_output without keep: closed, and then removed, not dead.
Kills(a, c) ==
    /\ Tool(a, "kill") /\ c \in subs[a]
    /\ closed' = [closed EXCEPT ![c] = TRUE]
    /\ on' = [on EXCEPT ![a] = c]
    /\ status' = InTool(a) /\ loop' = [loop EXCEPT ![a] = "removing"]
    /\ UNCHANGED <<old, inbox, result, reports, sent, parent, subs, doomed, late, fallen, news, side, verifier>>

Removes(a) ==
    /\ loop[a] = "removing"
    /\ subs' = [subs EXCEPT ![a] = @ \ {on[a]}]
    /\ on' = [on EXCEPT ![a] = Nobody] /\ loop' = Onwards(a)
    /\ UNCHANGED <<status, old, inbox, result, reports, calls, sent, parent, closed, doomed, late, fallen, news, side, verifier>>

\* send_message
Sends(a, c) ==
    /\ Tool(a, "send") /\ c \in subs[a]
    /\ Submit(a, c, InTool(a), Onwards(a))
    /\ UNCHANGED <<on, old, result, reports, sent, family, news, side, verifier>>

\* report_final_result
Concludes(a) ==
    /\ Tool(a, "conclude") /\ ~result[a]
    /\ result' = [result EXCEPT ![a] = TRUE]
    /\ status' = InTool(a) /\ loop' = Onwards(a)
    /\ UNCHANGED <<on, old, inbox, reports, sent, family, news, side, verifier>>

\* agent_set_timer: when the time is over, an agent that is not idle is not told.
SetsTimer(a) ==
    /\ Tool(a, "timer") /\ ~timer[a] /\ timer' = [timer EXCEPT ![a] = TRUE]
    /\ status' = InTool(a) /\ loop' = Onwards(a)
    /\ UNCHANGED <<on, old, inbox, result, reports, sent, family, news, tools, verifier>>

TimerEnds(a) ==
    /\ timer[a] /\ timer' = [timer EXCEPT ![a] = FALSE]
    /\ IF ~closed[a] /\ status[a] = "idle" THEN Submit(User, a, status, loop)
       ELSE UNCHANGED <<status, loop, inbox>>
    /\ UNCHANGED <<on, old, result, reports, calls, sent, family, news, tools, verifier>>

\* perform_code_review, async: a reviewer, and a thread that waits for it and then has
\* a second agent verify what it found.
Reviews(a, c) ==
    /\ Tool(a, "review") /\ c \in Unborn /\ c = Newborn /\ verifier.phase = "off"
    /\ Born(c, a, InTool(a), Onwards(a))
    /\ verifier' = [phase |-> "reviewing", of |-> a, on |-> c]
    /\ UNCHANGED <<on, old, result, reports, sent, closed, doomed, fallen, news, side>>

VerifierSpawns(c) ==
    /\ verifier.phase = "reviewing" /\ Settled(verifier.on) /\ c \in Unborn /\ c = Newborn
    /\ Born(c, verifier.of, status, loop)
    /\ verifier' = [verifier EXCEPT !.phase = "reaping", !.on = c]
    /\ UNCHANGED <<on, old, result, reports, calls, sent, closed, doomed, fallen, news, side>>

VerifierReaps ==
    /\ verifier.phase = "reaping" /\ Settled(verifier.on)
    /\ subs' = [subs EXCEPT ![verifier.of] = @ \ {verifier.on}]
    /\ verifier' = [phase |-> "off", of |-> Nobody, on |-> Nobody]
    /\ UNCHANGED <<turns, parent, closed, doomed, late, fallen, news, side>>

-----------------------------------------------------------------------------
(* The cascade of set_status(dead) *)

CascadeCloses(c) ==
    /\ doomed[c] = "close"
    /\ closed' = [closed EXCEPT ![c] = TRUE] /\ doomed' = [doomed EXCEPT ![c] = "dead"]
    /\ UNCHANGED <<turns, parent, subs, late, fallen, news, side, verifier>>

\* Mutant: a subagent is closed as kill_subagent does it.
ClosesOnly(c) ==
    /\ doomed[c] = "dead"
    /\ doomed' = [doomed EXCEPT ![c] = "no"]
    /\ UNCHANGED <<turns, parent, subs, closed, late, fallen, news, side, verifier>>

CascadeKills(c) ==
    /\ doomed[c] = "dead"
    /\ status' = [status EXCEPT ![c] = "dead"] /\ fallen' = fallen \union {c}
    /\ doomed' = [Collect(c) EXCEPT ![c] = "no"]
    /\ UNCHANGED <<loop, on, old, inbox, result, reports, calls, sent, parent, subs, closed, late, news, side, verifier>>

-----------------------------------------------------------------------------
TreeInit ==
    /\ status = [a \in Agents |-> IF a = Root THEN "idle" ELSE "unborn"]
    /\ closed = [a \in Agents |-> FALSE] /\ notify = [a \in Agents |-> TRUE] /\ result = [a \in Agents |-> FALSE]
    /\ parent = [a \in Agents |-> Nobody] /\ on = [a \in Agents |-> Nobody] /\ old = [a \in Agents |-> "tool"]
    /\ subs = [a \in Agents |-> {}] /\ inbox = [a \in Agents |-> {}] /\ reports = [a \in Agents |-> 0]
    /\ loop = [a \in Agents |-> "off"] /\ doomed = [a \in Agents |-> "no"] /\ timer = [a \in Agents |-> FALSE]
    /\ verifier = [phase |-> "off", of |-> Nobody, on |-> Nobody]
    /\ calls = 0 /\ sent = 0 /\ late = {} /\ fallen = {} /\ heard = {} /\ tools \in Granted

\* A loop that neither calls a tool nor waits.
Goes(a) == \/ Top(a) \/ Asks(a) \/ TurnEnds(a) \/ TurnsBack(a) \/ LeavesClosed(a) \/ Finishes(a)
           \/ Pauses(a) \/ Mutes(a) \/ Returns(a) \/ Removes(a)

Step(a) == Goes(a) \/ Report(a) \/ TimerEnds(a) \/ CascadeCloses(a) \/ CascadeKills(a)
Calls(a) ==
    \/ Concludes(a) \/ SetsTimer(a)
    \/ \E c \in Agents \ {a} : Spawns(a, c) \/ Invokes(a, c) \/ Waits(a, c) \/ Kills(a, c)
                                 \/ Sends(a, c) \/ Reviews(a, c)
Verifies == VerifierReaps \/ \E c \in Agents : VerifierSpawns(c)

TreeNext == Prompt \/ Verifies \/ \E a \in Agents : Step(a) \/ Calls(a) \/ TimesOut(a)

TreeSpec == TreeInit /\ [][TreeNext]_treeVars

\* Every thread runs on, and the model ends its turns; the user need not type and no
\* tool need be called.
FairTreeSpec ==
    /\ TreeSpec
    /\ \A a \in Agents : /\ WF_treeVars(Goes(a))
                         /\ WF_treeVars(Report(a))
                         /\ WF_treeVars(CascadeCloses(a) \/ CascadeKills(a))
    /\ WF_treeVars(Verifies)
=============================================================================
