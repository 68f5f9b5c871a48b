------------------------------ MODULE McpServer ------------------------------
(* One MCP server and its manager (mcp/mcp_server.cpp, mcp/mcp_manager.cpp): the thread
   that starts it with the project, the editor's thread that toggles it and ends the
   program, agents that call its tools, the server's process with the thread that reads
   its answers, and the thread that writes activation prompts. *)
EXTENDS Naturals, FiniteSets

CONSTANTS Agents,      \* threads that call tools
          MaxToggles,  \* bound: toggles of the server
          MaxSent, \* bound: requests sent
          MaxDeaths    \* bound: processes that die by themselves

Starters == {"boot", "ui"}

ASSUME AgentsAssumption == Agents \cap Starters = {}

Threads == Starters \union Agents

VARIABLES
  pid,       \* pid_: the process, numbered; 0 for none
  stdin,     \* stdin_fd_: the process whose input is open; 0 when closed
  alive,     \* the process runs
  spawned,   \* processes so far
  stateLock, \* state_mutex_ and the manager's mutex_: who holds it
  mutex,
  enabled,   \* enabled_, whether tools_ has tools, whether they are registered
  tools,
  registered,
  exiting,   \* project_manager::is_exiting
  at,        \* each thread: what it does next
  call,      \* its request: none, checked, write, wait, back; id and answer
  nextId,    \* next_request_id_
  pending,   \* pending_requests_: ids with the thread that holds the future
  wire,      \* requests the process has read: id, and who sent it
  prompts,   \* prompt_generation_queue_ has the server
  prompter,  \* prompt_generation_thread_: none, top, asleep, busy, off
  toggles, deaths

mcpVars == <<pid, stdin, alive, spawned, stateLock, mutex, enabled, tools, registered, exiting, at, call, nextId,
             pending, wire, prompts, prompter, toggles, deaths>>
process == <<pid, stdin, alive, spawned, wire>>
requests == <<call, nextId, pending>>
manager == <<mutex, enabled, tools, registered>>
prompting == <<prompts, prompter>>
bounds == <<toggles, deaths>>

NoCall == [at |-> "none", id |-> 0, answer |-> "none"]
Goes(t, where) == at' = [at EXCEPT ![t] = where]

-----------------------------------------------------------------------------
(* send_request *)

\* Mutant: a restarted server counts its requests from 1 again.
NumberingAnew == 1

\* A start leaves the numbers as they are.
Numbering == nextId

\* Begins a request, unless the server is not running or the program ends.
Sends(t) ==
    /\ call[t].at = "none" /\ (exiting \/ nextId <= MaxSent)
    /\ call' = [call EXCEPT ![t] = IF pid = 0 \/ exiting THEN [at |-> "back", id |-> 0, answer |-> "error"]
                                  ELSE [NoCall EXCEPT !.at = "checked"]]
    /\ UNCHANGED <<nextId, pending>>

\* Registers it: by then the server may have been stopped.
Enrols(t) ==
    /\ call[t].at = "checked"
    /\ nextId' = nextId + 1
    /\ pending' = {p \in pending : p.id # nextId} \union {[id |-> nextId, by |-> t]}
    /\ call' = [call EXCEPT ![t].at = "write", ![t].id = nextId]
    /\ UNCHANGED process /\ UNCHANGED manager /\ UNCHANGED prompting /\ UNCHANGED bounds
    /\ UNCHANGED <<stateLock, exiting, at>>

Dropped(t) == {p \in pending : p.id # call[t].id}
Fails(t) == call' = [call EXCEPT ![t].at = "back", ![t].answer = "error"] /\ pending' = Dropped(t)

\* The descriptor is read without a lock.
Writes(t) ==
    /\ call[t].at = "write"
    /\ IF stdin # 0 /\ alive
       THEN /\ wire' = wire \union {[id |-> call[t].id, by |-> t]}
            /\ call' = [call EXCEPT ![t].at = IF call[t].answer = "none" THEN "wait" ELSE "back"]
            /\ UNCHANGED pending
       ELSE Fails(t) /\ UNCHANGED wire
    /\ UNCHANGED <<pid, stdin, alive, spawned, nextId, stateLock, exiting, at>>
    /\ UNCHANGED manager /\ UNCHANGED prompting /\ UNCHANGED bounds

\* Ten seconds are over, or the program ends.
TimesOut(t) == Fails(t)

GivesUpWaiting(t) ==
    /\ call[t].at = "wait" /\ TimesOut(t)
    /\ UNCHANGED process /\ UNCHANGED manager /\ UNCHANGED prompting /\ UNCHANGED bounds
    /\ UNCHANGED <<nextId, stateLock, exiting, at>>

\* reader_loop: the answer goes to whoever is registered under its id.
Reads(w) ==
    /\ w \in wire /\ alive /\ wire' = wire \ {w}
    /\ pending' = {p \in pending : p.id # w.id}
    /\ call' = [t \in Threads |->
                  IF \E p \in pending : p.id = w.id /\ p.by = t
                  THEN [call[t] EXCEPT !.at = IF @ = "wait" THEN "back" ELSE @, !.answer = w.by]
                  ELSE call[t]]
    /\ UNCHANGED <<pid, stdin, alive, spawned, nextId, stateLock, exiting, at>>
    /\ UNCHANGED manager /\ UNCHANGED prompting /\ UNCHANGED bounds

\* The process dies: pid_ stays.
Dies ==
    /\ alive /\ deaths < MaxDeaths /\ deaths' = deaths + 1
    /\ alive' = FALSE /\ wire' = {}
    /\ UNCHANGED <<pid, stdin, spawned, stateLock, exiting, at, toggles>>
    /\ UNCHANGED requests /\ UNCHANGED manager /\ UNCHANGED prompting

-----------------------------------------------------------------------------
(* start and stop of the server *)

Succeeds(t) == Goes(t, "register")
Abandons(t) == Goes(t, "end")

\* start() under state_mutex_: the last look at is_exiting, after the scan of a python
\* server; what stops it there or at the first look is the same.
Starts(t) ==
    /\ at[t] = "start" /\ stateLock = "free"
    /\ IF pid # 0 THEN Succeeds(t) /\ UNCHANGED stateLock
       ELSE IF exiting THEN Abandons(t) /\ UNCHANGED stateLock
       ELSE Goes(t, "fork") /\ stateLock' = t
    /\ UNCHANGED exiting
    /\ UNCHANGED process /\ UNCHANGED requests /\ UNCHANGED manager /\ UNCHANGED prompting /\ UNCHANGED bounds

\* The scan rejects the server, or a pipe or the fork fails.
CannotFork(t) ==
    /\ at[t] = "fork" /\ Abandons(t) /\ stateLock' = "free" /\ UNCHANGED exiting
    /\ UNCHANGED process /\ UNCHANGED requests /\ UNCHANGED manager /\ UNCHANGED prompting /\ UNCHANGED bounds

\* The process and its readers; the lock is released before the handshake.
Forks(t) ==
    /\ at[t] = "fork" /\ Goes(t, "initialize") /\ stateLock' = "free"
    /\ pid' = spawned + 1 /\ stdin' = spawned + 1 /\ alive' = TRUE /\ spawned' = spawned + 1
    /\ wire' = {} /\ nextId' = Numbering
    /\ UNCHANGED <<call, pending, exiting>>
    /\ UNCHANGED manager /\ UNCHANGED prompting /\ UNCHANGED bounds

Handshakes(t) ==
    /\ at[t] \in {"initialize", "list"} /\ Sends(t)
    /\ UNCHANGED process /\ UNCHANGED manager /\ UNCHANGED prompting /\ UNCHANGED bounds
    /\ UNCHANGED <<stateLock, exiting, at>>

\* What comes back: a failed initialize stops the server, and so does a list that cannot
\* be read; a failed list leaves it without tools.  The last look at pid_ is of whatever
\* runs by then.
Shaken(t) ==
    /\ t \in Starters /\ call[t].at = "back" /\ stateLock = "free"
    /\ call' = [call EXCEPT ![t] = NoCall]
    /\ \/ /\ at[t] = "initialize" /\ UNCHANGED tools
          /\ Goes(t, IF call[t].answer = "error" THEN "stop" ELSE "list")
       \/ at[t] = "list" /\ call[t].answer # "error" /\ Goes(t, "stop") /\ UNCHANGED tools
       \/ at[t] = "list" /\ pid = 0 /\ Abandons(t) /\ UNCHANGED tools
       \/ at[t] = "list" /\ pid # 0 /\ Succeeds(t) /\ tools' = (tools \/ call[t].answer # "error")
    /\ UNCHANGED process /\ UNCHANGED prompting /\ UNCHANGED bounds
    /\ UNCHANGED <<nextId, pending, stateLock, exiting, mutex, enabled, registered>>

\* stop(): the descriptors are closed and the process is killed, then pid_ is 0, then the
\* requests are answered.
Stops(t) ==
    /\ at[t] = "stop" /\ stateLock = "free"
    /\ IF pid = 0 THEN Goes(t, "stopped") /\ UNCHANGED process /\ UNCHANGED stateLock
       ELSE /\ Goes(t, "killed") /\ stateLock' = t
            /\ stdin' = 0 /\ alive' = FALSE /\ wire' = {} /\ UNCHANGED <<pid, spawned>>
    /\ UNCHANGED exiting
    /\ UNCHANGED requests /\ UNCHANGED manager /\ UNCHANGED prompting /\ UNCHANGED bounds

Reaps(t) ==
    /\ at[t] = "killed" /\ pid' = 0 /\ Goes(t, "reaped")
    /\ UNCHANGED <<stdin, alive, spawned, wire, stateLock, exiting>>
    /\ UNCHANGED requests /\ UNCHANGED manager /\ UNCHANGED prompting /\ UNCHANGED bounds

AnswersAll(t) ==
    /\ at[t] = "reaped" /\ Goes(t, "stopped") /\ stateLock' = "free"
    /\ pending' = {}
    /\ call' = [u \in Threads |->
                  IF \E p \in pending : p.by = u
                  THEN [call[u] EXCEPT !.at = IF @ = "wait" THEN "back" ELSE @, !.answer = "error"]
                  ELSE call[u]]
    /\ UNCHANGED <<nextId, exiting>>
    /\ UNCHANGED process /\ UNCHANGED manager /\ UNCHANGED prompting /\ UNCHANGED bounds

-----------------------------------------------------------------------------
(* The manager *)

\* The thread that starts the server with the project takes mutex_ to register its tools,
\* whatever became of the server since; the editor's thread has it already.
Registers(t) ==
    /\ at[t] = "register" /\ mutex \in {"free", t}
    /\ Goes(t, "end") /\ registered' = (registered \/ tools)
    /\ IF tools THEN /\ prompts' = TRUE
                     /\ prompter' = IF prompter \in {"none", "off", "asleep"} THEN "top" ELSE prompter
       ELSE UNCHANGED prompting
    /\ UNCHANGED <<mutex, enabled, tools, stateLock, exiting>>
    /\ UNCHANGED process /\ UNCHANGED requests /\ UNCHANGED bounds

\* toggle_server; the handshake of a start keeps mutex_.
Toggles ==
    /\ at["ui"] = "idle" /\ ~exiting /\ mutex = "free" /\ toggles < MaxToggles /\ toggles' = toggles + 1
    /\ mutex' = "ui" /\ enabled' = ~enabled
    /\ Goes("ui", IF enabled THEN "stop" ELSE "start")
    /\ UNCHANGED <<tools, registered, stateLock, exiting, deaths>>
    /\ UNCHANGED process /\ UNCHANGED requests /\ UNCHANGED prompting

\* A stop is over: of a failed start, of a toggle (which unregisters the tools), or of
\* stop_all_servers.
AfterStop(t) ==
    /\ at[t] = "stopped"
    /\ Goes(t, IF t = "ui" /\ exiting THEN "gone" ELSE "end")
    /\ registered' = (registered /\ ~(t = "ui" /\ (exiting \/ ~enabled) /\ tools))
    /\ mutex' = IF t = "ui" /\ exiting THEN "free" ELSE mutex
    /\ UNCHANGED <<enabled, tools, stateLock, exiting>>
    /\ UNCHANGED process /\ UNCHANGED requests /\ UNCHANGED prompting /\ UNCHANGED bounds

Ends(t) ==
    /\ at[t] = "end" /\ Goes(t, IF t = "ui" THEN "idle" ELSE "off")
    /\ mutex' = IF t = "ui" THEN "free" ELSE mutex
    /\ UNCHANGED <<enabled, tools, registered, stateLock, exiting>>
    /\ UNCHANGED process /\ UNCHANGED requests /\ UNCHANGED prompting /\ UNCHANGED bounds

\* stop_all_servers: the flag, the join of the starting thread, the notification (which
\* takes prompt_mutex_), the join of the prompting thread, then the stop under mutex_.
Exits ==
    /\ at["ui"] = "idle" /\ ~exiting /\ exiting' = TRUE /\ Goes("ui", "join")
    /\ UNCHANGED stateLock
    /\ UNCHANGED process /\ UNCHANGED requests /\ UNCHANGED manager /\ UNCHANGED prompting /\ UNCHANGED bounds

\* Mutant: the prompting thread is not told.
PrompterNotTold == prompter

PrompterTold == IF prompter = "asleep" THEN "top" ELSE prompter

\* Mutant: the thread that starts the server is not joined.
BootNotJoined == TRUE

BootJoined == at["boot"] = "off"

Joins ==
    /\ at["ui"] = "join" /\ BootJoined
    /\ Goes("ui", "joinPrompter") /\ prompter' = PrompterTold /\ UNCHANGED prompts
    /\ UNCHANGED <<stateLock, exiting>>
    /\ UNCHANGED process /\ UNCHANGED requests /\ UNCHANGED manager /\ UNCHANGED bounds

JoinsPrompter ==
    /\ at["ui"] = "joinPrompter" /\ prompter \in {"none", "off"} /\ mutex = "free"
    /\ Goes("ui", "stop") /\ mutex' = "ui"
    /\ UNCHANGED <<enabled, tools, registered, stateLock, exiting>>
    /\ UNCHANGED process /\ UNCHANGED requests /\ UNCHANGED prompting /\ UNCHANGED bounds

\* prompt_worker_loop: the look and the sleep are one step under prompt_mutex_; what it
\* does between is a model's answer, or a wait for a model after which the server is
\* queued again.
Prompts ==
    /\ prompter \in {"top", "busy"}
    /\ \/ prompter = "top" /\ exiting /\ prompter' = "off" /\ UNCHANGED prompts
       \/ prompter = "top" /\ ~exiting /\ ~prompts /\ prompter' = "asleep" /\ UNCHANGED prompts
       \/ prompter = "top" /\ ~exiting /\ prompts /\ prompter' = "busy" /\ prompts' = FALSE
       \/ prompter = "busy" /\ prompter' = "top" /\ UNCHANGED prompts
       \/ prompter = "busy" /\ ~exiting /\ prompter' = "top" /\ prompts' = TRUE
    /\ UNCHANGED <<stateLock, exiting, at>>
    /\ UNCHANGED process /\ UNCHANGED requests /\ UNCHANGED manager /\ UNCHANGED bounds

-----------------------------------------------------------------------------
(* An agent calls a tool of the server *)

Calls(a) ==
    /\ a \in Agents /\ registered /\ pid # 0 /\ Sends(a)
    /\ UNCHANGED process /\ UNCHANGED manager /\ UNCHANGED prompting /\ UNCHANGED bounds
    /\ UNCHANGED <<stateLock, exiting, at>>

Returns(a) ==
    /\ a \in Agents /\ call[a].at = "back" /\ call' = [call EXCEPT ![a] = NoCall]
    /\ UNCHANGED <<nextId, pending>>
    /\ UNCHANGED process /\ UNCHANGED manager /\ UNCHANGED prompting /\ UNCHANGED bounds
    /\ UNCHANGED <<stateLock, exiting, at>>

-----------------------------------------------------------------------------
McpInit ==
    /\ pid = 0 /\ stdin = 0 /\ alive = FALSE /\ spawned = 0 /\ stateLock = "free" /\ mutex = "free"
    /\ enabled = TRUE /\ tools = FALSE /\ registered = FALSE /\ exiting = FALSE
    /\ at = [t \in Starters |-> IF t = "boot" THEN "start" ELSE "idle"]
    /\ call = [t \in Threads |-> NoCall] /\ nextId = 1 /\ pending = {} /\ wire = {}
    /\ prompts = FALSE /\ prompter = "none" /\ toggles = 0 /\ deaths = 0

StarterSteps(t) ==
    \/ Starts(t) \/ CannotFork(t) \/ Forks(t) \/ Handshakes(t) \/ Shaken(t)
    \/ Stops(t) \/ Reaps(t) \/ AnswersAll(t)
    \/ Registers(t) \/ AfterStop(t) \/ Ends(t)
RequestSteps(t) == Enrols(t) \/ Writes(t) \/ GivesUpWaiting(t)
ExitSteps == Joins \/ JoinsPrompter

McpNext ==
    \/ \E t \in Starters : StarterSteps(t)
    \/ \E t \in Threads : RequestSteps(t)
    \/ \E w \in wire : Reads(w)
    \/ \E a \in Agents : Calls(a) \/ Returns(a)
    \/ ExitSteps \/ Prompts \/ Toggles \/ Exits \/ Dies

\* Every thread runs on and a request times out; nobody need call, toggle or exit, and
\* the server need not answer.
McpFairness ==
    /\ \A t \in Starters : WF_mcpVars(StarterSteps(t))
    /\ \A t \in Threads : WF_mcpVars(RequestSteps(t))
    /\ WF_mcpVars(ExitSteps) /\ WF_mcpVars(Prompts)
McpSpec == McpInit /\ [][McpNext]_mcpVars /\ McpFairness

-----------------------------------------------------------------------------
\* AnswersOwn: an answer goes to the thread that sent the request it answers, also when
\* requests time out and the server is stopped and started between their registration
\* and their writing.
AnswersOwn == \A t \in Threads : call[t].at = "back" => call[t].answer \in {t, "error"}

\* ExitLeavesNothing: when stop_all_servers returns no process runs and no tool is
\* registered, whatever start, toggle and call was going on.
ExitLeavesNothing == at["ui"] = "gone" => ~alive /\ pid = 0 /\ ~registered

\* ShutdownReturns: stop_all_servers returns.
ShutdownReturns == exiting ~> at["ui"] = "gone"
=============================================================================
