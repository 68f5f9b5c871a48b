------------------------------ MODULE AgentLoop ------------------------------
(***************************************************************************)
(* The run loop of one agent: agentlib/ai_agent.cpp.                       *)
(*                                                                         *)
(* Any number of threads hand messages to the agent: the UI and the tool   *)
(* send_message call submit_prompt, a finished subagent, a timer or a      *)
(* background command calls inject_context with trigger_processing.  Each  *)
(* appends a transaction to the current episode under conversation_mutex_, *)
(* and starts a detached worker when it then reads the status idle.  The   *)
(* worker reads the conversation, asks the model, runs the tools the model *)
(* calls, and leaves through the "drain guard", which must not leave a     *)
(* message behind.  close(), the cascade of set_status(dead), and          *)
(* clear_conversation run on other threads at any point.                   *)
(*                                                                         *)
(* A worker is named after the message whose submission started it.  Each  *)
(* section under a mutex, each atomic access and each blocking call is one *)
(* action.  What is abstracted: the text of messages, the UI events, token *)
(* accounting, and archived episodes (the loop reads them only).           *)
(***************************************************************************)
EXTENDS Naturals, Sequences, FiniteSets

CONSTANTS
    Prompts,        \* messages handed to the agent, one submission each
    SystemPrompts,  \* those that inject_context adds with the role "system"
    Notices,        \* add_interaction: transactions only the UI shows
    Subagent,       \* it has a parent, or is_exit_implicitly_on_idle()
    ExitOnIdle,     \* is_exit_implicitly_on_idle()
    CanWait,        \* its tools may block in the status waiting
    Ending,         \* "none", "close" (close() alone) or "kill" (the cascade)
    MayClear,       \* the user may clear the conversation once
    Awaited         \* another thread calls wait_until_idle

ASSUME LoopAssumption ==
    /\ SystemPrompts \subseteq Prompts
    /\ Prompts \cap Notices = {}
    /\ {Subagent, ExitOnIdle, CanWait, MayClear, Awaited} \subseteq BOOLEAN
    /\ ExitOnIdle => Subagent
    /\ Ending \in {"none", "close", "kill"}

\* The other transactions: the system prompt's, the one clear_conversation makes
\* for it, its notice, and the one worker w makes when the episode is empty.
CONSTANTS InitTx, ResetTx, ClearTx, NoTx, FreshTx(_)

SpecialTx == {InitTx, ResetTx, ClearTx} \cup {FreshTx(w) : w \in Prompts}

ASSUME TxAssumption ==
    /\ SpecialTx \cap (Prompts \cup Notices) = {}
    /\ NoTx \notin SpecialTx \cup Prompts \cup Notices
    /\ InitTx \notin {ResetTx, ClearTx} /\ ResetTx # ClearTx
    /\ \A w \in Prompts :
         /\ FreshTx(w) \notin {InitTx, ResetTx, ClearTx}
         /\ \A v \in Prompts : FreshTx(v) = FreshTx(w) => v = w

VARIABLES
    status,     \* status_
    closed,     \* is_closed_
    hasFinal,   \* has_final_result()
    txs,        \* transactions of the current episode, oldest first
    posted,     \* the notices added so far
    sub,        \* where the thread submitting each message is
    pc,         \* where the worker started for each message is
    seen,       \* messages in the conversation the worker read (convo)
    active,     \* the worker's active_tx
    last,       \* the worker's last_processed_tx
    ender,      \* where the thread that closes or kills the agent is
    clearer,    \* where clear_conversation is
    waiter,     \* a thread in wait_until_idle
    shown,      \* history: messages that were part of a request to the model
    swallowed   \* history: messages added between a worker's two reads

loopVars == <<status, closed, hasFinal, txs, posted, sub>>
workVars == <<pc, seen, active, last>>
envVars  == <<ender, clearer, waiter>>
vars     == <<loopVars, workVars, envVars, shown, swallowed>>

\* error is declared too, and never set.
Status  == {"idle", "thinking", "tool_execution", "waiting", "dead"}
TxIds   == Prompts \cup Notices \cup SpecialTx
Tx      == [id : TxIds, kind : {"user", "system", "ui"},
            body : SUBSET Prompts, open : BOOLEAN]
SubPC   == {"new", "inserted", "starting", "claiming", "retrying", "done"}
WorkPC  == {"unborn", "top", "thinking", "claim", "create", "respond", "stream", "calls",
            "tool", "blocked", "answered", "finish", "guard", "gone"}

\* The worker is inside the for(;;) of start_processing.
InLoop(w) == pc[w] \notin {"unborn", "gone"}

\* Between the worker's copy of the conversation and its response turn.
Window == {"thinking", "claim", "create", "respond"}

NewestTx == txs[Len(txs)]
LastId   == IF txs = <<>> THEN NoTx ELSE NewestTx.id

\* The messages a request carries: ui notifications render to nothing.
Visible == UNION {txs[i].body : i \in {j \in DOMAIN txs : txs[j].kind # "ui"}}

Settled == {"idle", "dead"}
-----------------------------------------------------------------------------
Init ==
    /\ status = "idle"
    /\ closed = FALSE
    /\ hasFinal = FALSE
    /\ txs = <<[id |-> InitTx, kind |-> "system", body |-> {}, open |-> TRUE]>>
    /\ posted = {}
    /\ sub = [p \in Prompts |-> "new"]
    /\ pc = [p \in Prompts |-> "unborn"]
    /\ seen = [p \in Prompts |-> {}]
    /\ active = [p \in Prompts |-> NoTx]
    /\ last = [p \in Prompts |-> NoTx]
    /\ ender = "ready"
    /\ clearer = "ready"
    /\ waiter = "out"
    /\ shown = {}
    /\ swallowed = {}

\* Mutant: set_status without the notify_all.
SetStatusSilently(s) == status' = s /\ UNCHANGED waiter

\* set_status: the assignment under state_mutex_, then status_cv_.notify_all().
SetStatus(s) ==
    /\ status' = s
    /\ waiter' = IF waiter = "blocked" THEN "check" ELSE waiter

-----------------------------------------------------------------------------
(* Submitting a message.                                                   *)

\* Mutant: merges into a system injection that was answered already.
MergesAnswered(p) == p \in SystemPrompts /\ txs # <<>> /\ NewestTx.kind = "system"

\* A system message joins the newest transaction while that is a system
\* injection whose newest turn is still its system turn.
Merges(p) ==
    /\ p \in SystemPrompts
    /\ txs # <<>>
    /\ NewestTx.kind = "system"
    /\ NewestTx.open

Insert(p) ==
    /\ sub[p] = "new"
    /\ txs' = IF Merges(p)
              THEN [txs EXCEPT ![Len(txs)].body = @ \cup {p}]
              ELSE Append(txs, [id |-> p, body |-> {p}, open |-> TRUE,
                                kind |-> IF p \in SystemPrompts THEN "system" ELSE "user"])
    /\ sub' = [sub EXCEPT ![p] = "inserted"]
    /\ swallowed' = IF \E w \in Prompts : pc[w] \in Window
                    THEN swallowed \cup {p} ELSE swallowed
    /\ UNCHANGED <<posted, status, closed, hasFinal, workVars, envVars, shown>>

\* if (status_ == idle) start_processing();
Trigger(p) ==
    /\ sub[p] = "inserted"
    /\ sub' = [sub EXCEPT ![p] = IF status = "idle" THEN "starting" ELSE "done"]
    /\ UNCHANGED <<posted, status, closed, hasFinal, txs, workVars, envVars, shown, swallowed>>

StartCheck(p) ==
    /\ sub[p] = "starting"
    /\ sub' = [sub EXCEPT ![p] = IF closed THEN "done" ELSE "claiming"]
    /\ UNCHANGED <<posted, status, closed, hasFinal, txs, workVars, envVars, shown, swallowed>>

\* Mutant: a store in place of the compare-exchange.
ExchangeBlindly(p, from, next) ==
    /\ status' = "thinking"
    /\ pc' = [pc EXCEPT ![p] = "top"]
    /\ sub' = [sub EXCEPT ![p] = "done"]
    /\ UNCHANGED <<posted, closed, hasFinal, txs, seen, active, last, envVars, shown, swallowed>>

\* One compare_exchange_strong(from, thinking) of start_processing: a success
\* starts the worker, a failure continues at next.
Exchange(p, from, next) ==
    /\ IF status = from
       THEN /\ status' = "thinking"
            /\ pc' = [pc EXCEPT ![p] = "top"]
            /\ sub' = [sub EXCEPT ![p] = "done"]
       ELSE /\ sub' = [sub EXCEPT ![p] = next]
            /\ UNCHANGED <<status, pc>>
    /\ UNCHANGED <<posted, closed, hasFinal, txs, seen, active, last, envVars, shown, swallowed>>

ClaimIdle(p)    == sub[p] = "claiming" /\ Exchange(p, "idle", "retrying")
ClaimWaiting(p) == sub[p] = "retrying" /\ Exchange(p, "waiting", "done")

\* add_interaction: the output of a slash command, or "Model switched to".
Notify(n) ==
    /\ n \notin posted
    /\ posted' = posted \cup {n}
    /\ txs' = Append(txs, [id |-> n, kind |-> "ui", body |-> {}, open |-> TRUE])
    /\ UNCHANGED <<status, closed, hasFinal, sub, workVars, envVars, shown, swallowed>>

-----------------------------------------------------------------------------
(* The worker.                                                             *)

Goto(w, label) == pc' = [pc EXCEPT ![w] = label]

\* The thread ends and its locals with it.
Leave(w) ==
    /\ Goto(w, "gone")
    /\ active' = [active EXCEPT ![w] = NoTx]
    /\ last' = [last EXCEPT ![w] = NoTx]

Stay(w, label) == Goto(w, label) /\ UNCHANGED <<active, last>>

\* Top of the loop: leave when closed, else copy the conversation under the lock.
Top(w) ==
    /\ pc[w] = "top"
    /\ IF closed
       THEN Leave(w) /\ UNCHANGED seen
       ELSE Stay(w, "thinking") /\ seen' = [seen EXCEPT ![w] = Visible]
    /\ UNCHANGED <<loopVars, envVars, shown, swallowed>>

SetThinking(w) ==
    /\ pc[w] = "thinking"
    /\ SetStatus("thinking")
    /\ Goto(w, "claim")
    /\ UNCHANGED <<posted, closed, hasFinal, txs, sub, seen, active, last, ender, clearer,
                   shown, swallowed>>

\* Mutant: active_tx stays null.
ClaimNothing(w) ==
    /\ pc[w] = "claim"
    /\ Goto(w, "respond")
    /\ UNCHANGED <<loopVars, seen, active, last, envVars, shown, swallowed>>

\* The second section under the lock: active_tx is the newest transaction ...
Claim(w) ==
    /\ pc[w] = "claim"
    /\ active' = [active EXCEPT ![w] = LastId]
    /\ Goto(w, IF txs = <<>> THEN "create" ELSE "respond")
    /\ UNCHANGED <<loopVars, seen, last, envVars, shown, swallowed>>

\* ... or, when there was none, one added after the lock is released.  It is added to
\* the current episode: while there still is none (clear_conversation leaves none when
\* there is no system prompt, and every submission makes one) it is dropped.
Create(w) ==
    /\ pc[w] = "create"
    /\ txs' = IF txs = <<>> THEN txs
              ELSE Append(txs, [id |-> FreshTx(w), kind |-> "user", body |-> {}, open |-> TRUE])
    /\ active' = [active EXCEPT ![w] = FreshTx(w)]
    /\ Goto(w, "respond")
    /\ UNCHANGED <<posted, status, closed, hasFinal, sub, seen, last, envVars, shown, swallowed>>

\* The transactions s after a response turn is added to transaction a.
AddTurn(s, a) ==
    [i \in DOMAIN s |-> IF s[i].id = a THEN [s[i] EXCEPT !.open = FALSE] ELSE s[i]]

\* active_tx->add_turn(response_turn), and the request is sent.
Respond(w) ==
    /\ pc[w] = "respond"
    /\ txs' = AddTurn(txs, active[w])
    /\ shown' = shown \cup seen[w]
    /\ seen' = [seen EXCEPT ![w] = {}]
    /\ Goto(w, "stream")
    /\ UNCHANGED <<posted, status, closed, hasFinal, sub, active, last, envVars, swallowed>>

\* The stream ends: with tool calls or with an answer; a closed agent leaves.
StreamEnds(w) ==
    /\ pc[w] = "stream"
    /\ IF closed THEN Leave(w)
       ELSE Stay(w, "calls") \/ Stay(w, "answered")
    /\ UNCHANGED <<loopVars, seen, envVars, shown, swallowed>>

\* The head of the loop over the tool calls, up to set_status(tool_execution).
CallTool(w) ==
    /\ pc[w] = "calls"
    /\ IF closed
       THEN Leave(w) /\ UNCHANGED <<status, waiter>>
       ELSE Stay(w, "tool") /\ SetStatus("tool_execution")
    /\ UNCHANGED <<posted, closed, hasFinal, txs, sub, seen, ender, clearer, shown,
                   swallowed>>

\* wait_for_subagent, invoke_subagent and perform_code_review block here ...
ToolBlocks(w) ==
    /\ pc[w] = "tool"
    /\ CanWait
    /\ SetStatus("waiting")
    /\ Goto(w, "blocked")
    /\ UNCHANGED <<posted, closed, hasFinal, txs, sub, seen, active, last, ender, clearer,
                   shown, swallowed>>

\* ... until the other agent settles or the wait times out.
ToolUnblocks(w) ==
    /\ pc[w] = "blocked"
    /\ SetStatus("tool_execution")
    /\ Goto(w, "tool")
    /\ UNCHANGED <<posted, closed, hasFinal, txs, sub, seen, active, last, ender, clearer,
                   shown, swallowed>>

\* A tool ends; it may have been report_final_result.  More calls may follow.
ToolEnds(w) ==
    /\ pc[w] = "tool"
    /\ hasFinal' \in {hasFinal, hasFinal \/ Subagent}
    /\ \/ /\ Goto(w, "calls")
          /\ UNCHANGED <<status, waiter>>
       \/ /\ SetStatus("thinking")
          /\ Goto(w, "top")
    /\ UNCHANGED <<posted, closed, txs, sub, seen, active, last, ender, clearer, shown, swallowed>>

\* Mutants: last_processed_tx is never set; it is the newest transaction, unseen.
AnsweredForgetting(w) ==
    /\ pc[w] = "answered"
    /\ Goto(w, IF txs # <<>> /\ LastId # active[w] THEN "top" ELSE "finish")
    /\ UNCHANGED <<loopVars, seen, active, last, envVars, shown, swallowed>>

AnsweredUpToNewest(w) ==
    /\ pc[w] = "answered"
    /\ Goto(w, "finish")
    /\ last' = [last EXCEPT ![w] = LastId]
    /\ UNCHANGED <<loopVars, seen, active, envVars, shown, swallowed>>

\* Without tool calls: loop again when active_tx is no longer the newest.
Answered(w) ==
    /\ pc[w] = "answered"
    /\ IF txs # <<>> /\ LastId # active[w]
       THEN Goto(w, "top") /\ UNCHANGED last
       ELSE Goto(w, "finish") /\ last' = [last EXCEPT ![w] = active[w]]
    /\ UNCHANGED <<loopVars, seen, active, envVars, shown, swallowed>>

Finish(w) ==
    /\ pc[w] = "finish"
    /\ IF closed
       THEN Leave(w) /\ UNCHANGED hasFinal
       ELSE Stay(w, "guard") /\ hasFinal' = (hasFinal \/ ExitOnIdle)
    /\ UNCHANGED <<posted, status, closed, txs, sub, seen, envVars, shown, swallowed>>

\* Mutant: the transition to idle without the re-check under the lock.
DrainGuardUnchecked(w) ==
    /\ pc[w] = "guard"
    /\ Leave(w)
    /\ SetStatus(IF Subagent /\ hasFinal THEN "dead" ELSE "idle")
    /\ hasFinal' = (Subagent /\ hasFinal)
    /\ UNCHANGED <<posted, closed, txs, sub, seen, ender, clearer, shown, swallowed>>

\* The drain guard and the transition to idle or dead, under conversation_mutex_.
DrainGuard(w) ==
    /\ pc[w] = "guard"
    /\ IF txs # <<>> /\ LastId # last[w]
       THEN Stay(w, "top") /\ UNCHANGED <<status, waiter, hasFinal>>
       ELSE /\ Leave(w)
            /\ IF Subagent /\ hasFinal
               THEN SetStatus("dead") /\ UNCHANGED hasFinal
               ELSE SetStatus("idle") /\ hasFinal' = FALSE
    /\ UNCHANGED <<posted, closed, txs, sub, seen, ender, clearer, shown, swallowed>>

Worker(w) ==
    \/ Top(w) \/ SetThinking(w) \/ Claim(w) \/ Create(w) \/ Respond(w)
    \/ StreamEnds(w) \/ CallTool(w) \/ ToolBlocks(w) \/ ToolUnblocks(w) \/ ToolEnds(w)
    \/ Answered(w) \/ Finish(w) \/ DrainGuard(w)

-----------------------------------------------------------------------------
(* The threads that end, clear or wait for the agent.                      *)

\* close(): the window's destructor, kill_subagent, get_subagent_output.  What it does
\* before it sets is_closed_, the page-out and the save, is Close of ConversationPaging:
\* here the transactions are not rebuilt by a page-out while a worker runs.
Close ==
    /\ ender = "ready" /\ Ending # "none"
    /\ closed' = TRUE
    /\ ender' = IF Ending = "kill" THEN "marking" ELSE "over"
    /\ UNCHANGED <<posted, status, hasFinal, txs, sub, workVars, clearer, waiter, shown, swallowed>>

\* The cascade of a dying parent: sub->close(); sub->set_status(dead);
MarkDead ==
    /\ ender = "marking"
    /\ SetStatus("dead")
    /\ ender' = "over"
    /\ UNCHANGED <<posted, closed, hasFinal, txs, sub, workVars, clearer, shown, swallowed>>

\* clear_conversation writes the status itself, without a notification ...
ClearStatus ==
    /\ clearer = "ready" /\ MayClear
    /\ status' = "idle"
    /\ clearer' = "wiping"
    /\ UNCHANGED <<posted, closed, hasFinal, txs, sub, workVars, ender, waiter, shown, swallowed>>

\* ... then replaces the conversation by one with the system prompt, if any ...
ClearHistory ==
    /\ clearer = "wiping"
    /\ txs' \in {<<>>, <<[id |-> ResetTx, kind |-> "system", body |-> {}, open |-> TRUE]>>}
    /\ clearer' = "telling"
    /\ UNCHANGED <<posted, status, closed, hasFinal, sub, workVars, ender, waiter, shown, swallowed>>

\* ... and adds the interaction "Agent context cleared".
ClearNotice ==
    /\ clearer = "telling"
    /\ txs' = Append(txs, [id |-> ClearTx, kind |-> "ui", body |-> {}, open |-> TRUE])
    /\ clearer' = "over"
    /\ UNCHANGED <<posted, status, closed, hasFinal, sub, workVars, ender, waiter, shown, swallowed>>

\* wait_until_idle: the predicate is read under state_mutex_.
WaitCall ==
    /\ waiter = "out" /\ Awaited
    /\ waiter' = "check"
    /\ UNCHANGED <<loopVars, workVars, ender, clearer, shown, swallowed>>

WaitCheck ==
    /\ waiter = "check"
    /\ waiter' = IF status \in Settled THEN "back" ELSE "blocked"
    /\ UNCHANGED <<loopVars, workVars, ender, clearer, shown, swallowed>>

-----------------------------------------------------------------------------
Submitter(p) == Insert(p) \/ Trigger(p) \/ StartCheck(p) \/ ClaimIdle(p) \/ ClaimWaiting(p)
Clearing     == ClearStatus \/ ClearHistory \/ ClearNotice
Waiting      == WaitCall \/ WaitCheck

Next ==
    \/ \E p \in Prompts : Submitter(p) \/ Worker(p)
    \/ \E n \in Notices : Notify(n)
    \/ Close \/ MarkDead
    \/ Clearing
    \/ Waiting

Spec == Init /\ [][Next]_vars

(***************************************************************************)
(* Fairness.  A thread that was started is scheduled again and again, so   *)
(* each worker and each thread inside submit_prompt keeps taking steps;    *)
(* nobody is obliged to call submit_prompt, close or clear in the first    *)
(* place.  A stream and a tool end, both have timeouts, and a response     *)
(* carries finitely many tool calls: the strong fairness of the last one.  *)
(***************************************************************************)
LastToolEnds(w) == ToolEnds(w) /\ pc'[w] = "top"

Fairness ==
    /\ \A p \in Prompts : WF_vars(Worker(p)) /\ SF_vars(LastToolEnds(p))
    /\ \A p \in Prompts : WF_vars(sub[p] # "new" /\ Submitter(p))
    /\ WF_vars(MarkDead) /\ WF_vars(ClearHistory) /\ WF_vars(ClearNotice)
    /\ WF_vars(WaitCheck)

FairSpec == Spec /\ Fairness
=============================================================================
