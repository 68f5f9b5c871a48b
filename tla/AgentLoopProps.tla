--------------------------- MODULE AgentLoopProps ---------------------------
(***************************************************************************)
(* What the run loop of an agent promises, over AgentLoop.                 *)
(***************************************************************************)
EXTENDS AgentLoop

Holding == {"respond", "stream", "calls", "tool", "blocked", "answered", "finish", "guard"}

\* TypeOK: every variable has its type, and a worker between its claim of
\* active_tx and its next round holds a transaction (it is dereferenced there).
TypeOK ==
    /\ status \in Status
    /\ closed \in BOOLEAN /\ hasFinal \in BOOLEAN
    /\ txs \in Seq(Tx)
    /\ posted \subseteq Notices
    /\ sub \in [Prompts -> SubPC]
    /\ pc \in [Prompts -> WorkPC]
    /\ seen \in [Prompts -> SUBSET Prompts]
    /\ active \in [Prompts -> TxIds \cup {NoTx}]
    /\ last \in [Prompts -> TxIds \cup {NoTx}]
    /\ ender \in {"ready", "marking", "over"}
    /\ clearer \in {"ready", "wiping", "telling", "over"}
    /\ waiter \in {"out", "check", "blocked", "back"}
    /\ shown \subseteq Prompts /\ swallowed \subseteq Prompts
    /\ \A w \in Prompts : pc[w] \in Holding => active[w] # NoTx

\* The open agent is idle, no worker is in its loop and no thread is between
\* inserting its message and the end of start_processing, or clearing.
AtRest ==
    /\ status = "idle" /\ ~closed /\ clearer \in {"ready", "over"}
    /\ \A p \in Prompts : ~InLoop(p) /\ sub[p] \in {"new", "done"}

\* Messages in transactions newer than every transaction with a response.
Backlog ==
    UNION {txs[i].body : i \in {j \in DOMAIN txs : \A k \in j..Len(txs) : txs[k].open}}

\* The drain guard: an idle agent without a worker has no message behind its
\* newest response - whichever way the insertions, the guard's re-check and the
\* two compare-exchanges interleave (submit_prompt, start_processing).
IdleMeansDrained == AtRest => Backlog = {}

\* A message is left out of every request only when it arrived between a
\* worker's copy of the conversation and its response turn.
OnlyTheWindowStrands ==
    AtRest => Visible \subseteq shown \cup swallowed

\* One run loop at a time: the status idle is what a new worker claims.
AtMostOneWorker == \A v, w \in Prompts : InLoop(v) /\ InLoop(w) => v = w

\* The worker goes round again instead of finishing only for a message.
LoopsOnlyForMessages ==
    [][\A w \in Prompts :
         pc[w] \in {"answered", "guard"} /\ pc'[w] = "top" => Backlog # {}]_vars

\* The loop implements the abstract queue: a message waits until a response is
\* recorded in its transaction or in a newer one, and is covered in the end.
Queue == INSTANCE MessageQueue
           WITH Messages <- Prompts, waiting <- Backlog, covered <- Visible \ Backlog

QueueSpec == Queue!Spec

\* EveryMessageShown: nor does a message wait for ever (the queue's liveness), and it is
\* part of a request in the end, unless it came in the window.
EveryMessageShown ==
    /\ Queue!Live
    /\ \A p \in Prompts : sub[p] # "new" ~> p \in shown \cup swallowed

\* Whoever waits for the agent to become idle is woken in the end, if the model
\* again and again answers without calling a tool.
ModelAnswers(w) == StreamEnds(w) /\ pc'[w] = "answered"

WaiterReturns ==
    (\A w \in Prompts : SF_vars(ModelAnswers(w))) => (waiter = "check" ~> waiter = "back")
=============================================================================
