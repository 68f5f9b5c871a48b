-------------------------- MODULE AgentLoopProofs ---------------------------

EXTENDS AgentLoopProps, TLAPS

-----------------------------------------------------------------------------
(***************************************************************************)
(* Proofs about the run loop of an agent, for every set of messages and    *)
(* every choice of the other constants of AgentLoop.                       *)
(***************************************************************************)

\* A transaction appended to a conversation, or a message added to its newest
\* one, leaves a sequence of transactions.
LEMMA AppendTx ==
    ASSUME NEW s \in Seq(Tx), NEW t \in Tx
    PROVE  /\ Append(s, t) \in Seq(Tx)
           /\ Len(Append(s, t)) = Len(s) + 1
           /\ DOMAIN Append(s, t) = 1..(Len(s) + 1)
           /\ Append(s, t)[Len(s) + 1] = t
           /\ \A i \in 1..Len(s) : Append(s, t)[i] = s[i]
  OBVIOUS

\* The message a system injection takes in joins a transaction of the sequence.
LEMMA MergeTx ==
    ASSUME NEW s \in Seq(Tx), s # <<>>, NEW p \in Prompts
    PROVE  [s EXCEPT ![Len(s)].body = @ \cup {p}] \in Seq(Tx)
<1>1. Len(s) \in DOMAIN s /\ s \in [1..Len(s) -> Tx] /\ Len(s) \in Nat
  OBVIOUS
<1>2. [s[Len(s)] EXCEPT !.body = @ \cup {p}] \in Tx
  BY <1>1 DEF Tx
<1>3. [s EXCEPT ![Len(s)].body = @ \cup {p}] \in [1..Len(s) -> Tx]
  BY <1>1, <1>2
<1> QED
  BY <1>1, <1>3

\* So is what the response turn of a worker makes of the transactions.
LEMMA RespondTx ==
    ASSUME NEW s \in Seq(Tx), NEW a
    PROVE  /\ AddTurn(s, a) \in Seq(Tx)
           /\ Len(AddTurn(s, a)) = Len(s)
           /\ \A i \in DOMAIN s :
                /\ AddTurn(s, a)[i].id = s[i].id
                /\ AddTurn(s, a)[i].body = s[i].body
                /\ s[i].id # a => AddTurn(s, a)[i].open = s[i].open
                /\ s[i].id = a => ~AddTurn(s, a)[i].open
<1>1. Len(s) \in Nat /\ DOMAIN s = 1..Len(s) /\ \A i \in 1..Len(s) : s[i] \in Tx
  OBVIOUS
<1>2. \A i \in 1..Len(s) : [s[i] EXCEPT !.open = FALSE] \in Tx
  BY <1>1 DEF Tx
<1>3. \A i \in DOMAIN s :
        /\ AddTurn(s, a)[i].id = s[i].id
        /\ AddTurn(s, a)[i].body = s[i].body
        /\ s[i].id # a => AddTurn(s, a)[i].open = s[i].open
        /\ s[i].id = a => ~AddTurn(s, a)[i].open
  <2> SUFFICES ASSUME NEW i \in DOMAIN s
               PROVE  /\ AddTurn(s, a)[i].id = s[i].id
                      /\ AddTurn(s, a)[i].body = s[i].body
                      /\ s[i].id # a => AddTurn(s, a)[i].open = s[i].open
                      /\ s[i].id = a => ~AddTurn(s, a)[i].open
    OBVIOUS
  <2>1. s[i] \in Tx
    BY <1>1
  <2>2. CASE s[i].id # a
    BY <2>2 DEF AddTurn
  <2>3. CASE s[i].id = a
    <3>1. AddTurn(s, a)[i] = [s[i] EXCEPT !.open = FALSE]
      BY <2>3 DEF AddTurn
    <3>2. /\ [s[i] EXCEPT !.open = FALSE].id = s[i].id
          /\ [s[i] EXCEPT !.open = FALSE].body = s[i].body
          /\ [s[i] EXCEPT !.open = FALSE].open = FALSE
      BY <2>1 DEF Tx
    <3> QED
      BY <2>3, <3>1, <3>2
  <2> QED
    BY <2>2, <2>3
<1>4. AddTurn(s, a) \in [1..Len(s) -> Tx]
  BY <1>1, <1>2 DEF AddTurn
<1> QED
  BY <1>1, <1>3, <1>4

\* What a worker reads of the conversation are messages, and a conversation has
\* a newest transaction unless it is empty.
LEMMA ReadTx ==
    ASSUME txs \in Seq(Tx)
    PROVE  /\ Visible \subseteq Prompts
           /\ txs # <<>> => NewestTx \in Tx /\ LastId \in TxIds
           /\ txs = <<>> => LastId = NoTx
<1>1. Len(txs) \in Nat /\ DOMAIN txs = 1..Len(txs) /\ \A i \in 1..Len(txs) : txs[i] \in Tx
  OBVIOUS
<1>2. \A i \in 1..Len(txs) : txs[i].body \subseteq Prompts /\ txs[i].id \in TxIds
  BY <1>1 DEF Tx
<1>3. Visible \subseteq Prompts
  BY <1>1, <1>2 DEF Visible
<1>4. txs # <<>> => NewestTx \in Tx /\ LastId \in TxIds
  BY <1>1, <1>2 DEF NewestTx, LastId
<1> QED
  BY <1>3, <1>4 DEF LastId

\* Every step keeps the type invariant.
LEMMA TypeStep == TypeOK /\ [Next]_vars => TypeOK'
<1> SUFFICES ASSUME TypeOK, [Next]_vars PROVE TypeOK'
  OBVIOUS
<1> USE LoopAssumption, TxAssumption
<1> USE DEF TypeOK, Status, TxIds, Tx, SpecialTx, SubPC, WorkPC, Holding, loopVars,
            workVars, envVars, SetStatus, Goto, Leave, Stay
<1>1. ASSUME NEW p \in Prompts, Insert(p) PROVE TypeOK'
  <2>1. [id |-> p, body |-> {p}, open |-> TRUE,
         kind |-> IF p \in SystemPrompts THEN "system" ELSE "user"] \in Tx
    OBVIOUS
  <2>2. txs' \in Seq(Tx)
    BY <1>1, <2>1, MergeTx, AppendTx DEF Insert, Merges
  <2> QED
    BY <1>1, <2>2 DEF Insert
<1>2. ASSUME NEW p \in Prompts, Trigger(p) PROVE TypeOK'
  BY <1>2 DEF Trigger
<1>3. ASSUME NEW p \in Prompts, StartCheck(p) PROVE TypeOK'
  BY <1>3 DEF StartCheck
<1>4. ASSUME NEW p \in Prompts, ClaimIdle(p) PROVE TypeOK'
  BY <1>4 DEF ClaimIdle, Exchange
<1>5. ASSUME NEW p \in Prompts, ClaimWaiting(p) PROVE TypeOK'
  BY <1>5 DEF ClaimWaiting, Exchange
<1>6. ASSUME NEW n \in Notices, Notify(n) PROVE TypeOK'
  BY <1>6 DEF Notify
<1>7. ASSUME NEW w \in Prompts, Top(w) PROVE TypeOK'
  <2>1. seen' \in [Prompts -> SUBSET Prompts]
    BY <1>7, ReadTx DEF Top
  <2>2. /\ pc' \in [Prompts -> WorkPC]
        /\ active' \in [Prompts -> TxIds \cup {NoTx}]
        /\ last' \in [Prompts -> TxIds \cup {NoTx}]
        /\ \A v \in Prompts : pc'[v] \in Holding => active'[v] # NoTx
    BY <1>7 DEF Top
  <2> QED
    BY <1>7, <2>1, <2>2 DEF Top
<1>8. ASSUME NEW w \in Prompts, SetThinking(w) PROVE TypeOK'
  BY <1>8 DEF SetThinking
<1>9. ASSUME NEW w \in Prompts, Claim(w) PROVE TypeOK'
  BY <1>9, ReadTx DEF Claim
<1>10. ASSUME NEW w \in Prompts, Create(w) PROVE TypeOK'
  <2>1. [id |-> FreshTx(w), kind |-> "user", body |-> {}, open |-> TRUE] \in Tx
    BY DEF Tx, TxIds
  <2>2. txs' \in Seq(Tx)
    <3> DEFINE t == [id |-> FreshTx(w), kind |-> "user", body |-> {}, open |-> TRUE]
    <3>1. txs' = txs \/ txs' = Append(txs, t)
      BY <1>10 DEF Create
    <3>2. t \in Tx
      BY <2>1
    <3> HIDE DEF t
    <3>3. CASE txs' = txs
      BY <3>3
    <3>4. CASE txs' = Append(txs, t)
      <4>1. txs \in Seq(Tx)
        OBVIOUS
      <4> QED
        BY <3>2, <3>4, <4>1
    <3> QED
      BY <3>1, <3>3, <3>4
  <2> QED
    BY <1>10, <2>2 DEF Create
<1>11. ASSUME NEW w \in Prompts, Respond(w) PROVE TypeOK'
  <2>1. txs' \in Seq(Tx)
    BY <1>11, RespondTx DEF Respond
  <2> QED
    BY <1>11, <2>1 DEF Respond
<1>12. ASSUME NEW w \in Prompts, StreamEnds(w) PROVE TypeOK'
  BY <1>12 DEF StreamEnds
<1>13. ASSUME NEW w \in Prompts, CallTool(w) PROVE TypeOK'
  BY <1>13 DEF CallTool
<1>14. ASSUME NEW w \in Prompts, ToolBlocks(w) PROVE TypeOK'
  BY <1>14 DEF ToolBlocks
<1>15. ASSUME NEW w \in Prompts, ToolUnblocks(w) PROVE TypeOK'
  BY <1>15 DEF ToolUnblocks
<1>16. ASSUME NEW w \in Prompts, ToolEnds(w) PROVE TypeOK'
  BY <1>16 DEF ToolEnds
<1>17. ASSUME NEW w \in Prompts, Answered(w) PROVE TypeOK'
  BY <1>17 DEF Answered
<1>18. ASSUME NEW w \in Prompts, Finish(w) PROVE TypeOK'
  BY <1>18 DEF Finish
<1>19. ASSUME NEW w \in Prompts, DrainGuard(w) PROVE TypeOK'
  <2>1. CASE txs # <<>> /\ LastId # last[w]
    BY <1>19, <2>1 DEF DrainGuard
  <2>2. CASE ~(txs # <<>> /\ LastId # last[w])
    <3>1. Leave(w) /\ status' \in Status /\ hasFinal' \in BOOLEAN
      BY <1>19, <2>2 DEF DrainGuard
    <3>2. waiter' \in {"out", "check", "blocked", "back"}
      BY <1>19, <2>2 DEF DrainGuard
    <3> QED
      BY <1>19, <3>1, <3>2 DEF DrainGuard
  <2> QED
    BY <2>1, <2>2
<1>20. CASE Close \/ MarkDead
  <2>1. CASE Close
    BY <2>1 DEF Close
  <2>2. CASE MarkDead
    BY <2>2 DEF MarkDead
  <2> QED
    BY <1>20, <2>1, <2>2
<1>21. CASE Clearing
  <2>1. CASE ClearStatus
    BY <2>1 DEF ClearStatus
  <2>2. CASE ClearHistory
    <3>1. [id |-> ResetTx, kind |-> "system", body |-> {}, open |-> TRUE] \in Tx
      OBVIOUS
    <3>2. <<>> \in Seq(Tx)
      OBVIOUS
    <3>3. <<[id |-> ResetTx, kind |-> "system", body |-> {}, open |-> TRUE]>> \in Seq(Tx)
      BY <3>1
    <3>4. txs' \in Seq(Tx)
      BY <2>2, <3>2, <3>3 DEF ClearHistory
    <3> QED
      BY <2>2, <3>4 DEF ClearHistory
  <2>3. CASE ClearNotice
    BY <2>3 DEF ClearNotice
  <2> QED
    BY <1>21, <2>1, <2>2, <2>3 DEF Clearing
<1>22. CASE Waiting
  BY <1>22 DEF Waiting, WaitCall, WaitCheck
<1>23. CASE UNCHANGED vars
  BY <1>23 DEF vars
<1> QED
  BY <1>1, <1>2, <1>3, <1>4, <1>5, <1>6, <1>7, <1>8, <1>9, <1>10, <1>11, <1>12, <1>13,
     <1>14, <1>15, <1>16, <1>17, <1>18, <1>19, <1>20, <1>21, <1>22, <1>23
     DEF Next, Submitter, Worker

\* The type invariant of the run loop holds in every reachable state.
THEOREM TypeCorrect == Spec => []TypeOK
<1>1. Init => TypeOK
  <2> SUFFICES ASSUME Init PROVE TypeOK
    OBVIOUS
  <2>1. [id |-> InitTx, kind |-> "system", body |-> {}, open |-> TRUE] \in Tx
    BY DEF Tx, TxIds, SpecialTx
  <2>2. txs \in Seq(Tx)
    BY <2>1 DEF Init
  <2> QED
    BY <2>2 DEF Init, TypeOK, Status, SubPC, WorkPC, Holding
<1> QED
  BY <1>1, TypeStep, PTL DEF Spec

-----------------------------------------------------------------------------
(* One worker.  The status is what keeps a second worker out: it is never    *)
(* idle while a worker is in its loop, and never waiting unless a tool says  *)
(* so.  Clearing the conversation, which writes idle under a running worker, *)
(* is assumed away, and so is waiting: with either, TLC finds two workers.   *)

Alone ==
    /\ status # "waiting"
    /\ \A w \in Prompts : InLoop(w) => status # "idle"
    /\ AtMostOneWorker

\* Every step keeps the single worker single: a new one needs the status idle,
\* which a worker leaves behind only as it leaves its loop.
LEMMA AloneStep ==
    ASSUME ~CanWait, ~MayClear, TypeOK, Alone, [Next]_vars
    PROVE  Alone'
<1> USE DEF Alone, AtMostOneWorker, InLoop, TypeOK, loopVars, workVars, envVars, SetStatus,
            Goto, Leave, Stay
<1>1. ASSUME NEW p \in Prompts, Submitter(p) PROVE Alone'
  <2>1. CASE Insert(p) \/ Trigger(p) \/ StartCheck(p)
    BY <2>1 DEF Insert, Trigger, StartCheck
  <2>2. CASE ClaimIdle(p)
    BY <2>2 DEF ClaimIdle, Exchange
  <2>3. CASE ClaimWaiting(p)
    BY <2>3 DEF ClaimWaiting, Exchange
  <2> QED
    BY <1>1, <2>1, <2>2, <2>3 DEF Submitter
<1>2. ASSUME NEW w \in Prompts, Worker(w) PROVE Alone'
  <2>1. CASE Top(w) \/ SetThinking(w) \/ Claim(w) \/ Create(w) \/ Respond(w)
    BY <2>1 DEF Top, SetThinking, Claim, Create, Respond
  <2>2. CASE StreamEnds(w) \/ CallTool(w)
    BY <2>2 DEF StreamEnds, CallTool
  <2>3. CASE ToolBlocks(w) \/ ToolUnblocks(w) \/ ToolEnds(w)
    BY <2>3 DEF ToolBlocks, ToolUnblocks, ToolEnds
  <2>4. CASE Answered(w) \/ Finish(w)
    BY <2>4 DEF Answered, Finish
  <2>5. CASE DrainGuard(w)
    BY <2>5 DEF DrainGuard
  <2> QED
    BY <1>2, <2>1, <2>2, <2>3, <2>4, <2>5 DEF Worker
<1>3. ASSUME NEW n \in Notices, Notify(n) PROVE Alone'
  BY <1>3 DEF Notify
<1>4. CASE Close \/ MarkDead
  BY <1>4 DEF Close, MarkDead
<1>5. CASE Clearing
  BY <1>5 DEF Clearing, ClearStatus, ClearHistory, ClearNotice
<1>6. CASE Waiting \/ UNCHANGED vars
  BY <1>6 DEF Waiting, WaitCall, WaitCheck, vars
<1> QED
  BY <1>1, <1>2, <1>3, <1>4, <1>5, <1>6 DEF Next

\* When no tool waits for another agent and the conversation is not cleared, the
\* compare-exchange of start_processing admits one worker at a time.
THEOREM OneWorker ==
    ASSUME ~CanWait, ~MayClear
    PROVE  Spec => []AtMostOneWorker
<1>1. Init => Alone
  BY DEF Init, Alone, AtMostOneWorker, InLoop
<1>2. TypeOK /\ Alone /\ [Next]_vars => Alone'
  BY AloneStep
<1>3. Alone => AtMostOneWorker
  BY DEF Alone
<1> QED
  BY <1>1, <1>2, <1>3, TypeCorrect, PTL DEF Spec

-----------------------------------------------------------------------------
(* The drain guard.  Four facts make IdleMeansDrained inductive: an identity *)
(* is given to one transaction only (Fresh); what a worker answered stays    *)
(* answered (Answering); a busy open agent has a worker (Working); and a     *)
(* message behind the newest response has a worker or a submitter that will  *)
(* still try to start one (NoneLost).                                        *)

\* Message m is in a transaction newer than every transaction with a response.
Pending(m) ==
    \E i \in DOMAIN txs :
        m \in txs[i].body /\ \A k \in i..Len(txs) : txs[k].open

Used(x) ==
    \/ \E i \in DOMAIN txs : txs[i].id = x
    \/ \E w \in Prompts : active[w] = x \/ last[w] = x

Unused ==
    /\ \A p \in Prompts : sub[p] = "new" => ~Used(p)
    /\ \A n \in Notices : n \notin posted => ~Used(n)
    /\ clearer # "over" => ~Used(ClearTx)
    /\ clearer \in {"ready", "wiping"} =>
         /\ ~Used(ResetTx)
         /\ txs # <<>>
         /\ \A w \in Prompts : pc[w] # "create" /\ ~Used(FreshTx(w))
    /\ \A w \in Prompts : pc[w] = "create" => ~Used(FreshTx(w))

\* A worker starts once.
Started == \A p \in Prompts : sub[p] # "done" => pc[p] = "unborn"

\* Of a transaction that was dropped only its worker knows, and forgets it before it
\* makes another.
Owned ==
    txs = <<>> => \A v, w \in Prompts :
        /\ active[v] = FreshTx(w) => v = w
        /\ last[v] = FreshTx(w) => v = w /\ pc[v] \in {"finish", "guard"}

Fresh == Unused /\ Started /\ Owned

Sealed(x) == \A i \in DOMAIN txs : txs[i].id = x => ~txs[i].open

Answering ==
    \A w \in Prompts :
        /\ Sealed(last[w])
        /\ pc[w] \in {"stream", "calls", "tool", "blocked", "answered"} => Sealed(active[w])

Working == ~closed /\ status \notin {"idle", "dead"} => \E w \in Prompts : InLoop(w)

NoneLost ==
    ~closed /\ status # "dead" /\ clearer # "wiping" =>
        \A m \in Prompts :
            Pending(m) => \/ \E w \in Prompts : InLoop(w)
                          \/ sub[m] \in {"inserted", "starting", "claiming"}

DrainInv == Fresh /\ Answering /\ Working /\ NoneLost

\* What each kind of change to the conversation keeps: a transaction appended ...
LEMMA Appended ==
    ASSUME TypeOK, NEW t \in Tx, txs' = Append(txs, t), ~Used(t.id)
    PROVE  /\ \A x : Used(x) /\ Sealed(x) => Sealed(x)'
           /\ \A m : m \notin t.body /\ Pending(m)' => Pending(m)
           /\ \A x : (\E i \in DOMAIN txs' : txs'[i].id = x) =>
                       x = t.id \/ \E i \in DOMAIN txs : txs[i].id = x
           /\ txs' # <<>>
<1>1. txs \in Seq(Tx) /\ Len(txs) \in Nat /\ DOMAIN txs = 1..Len(txs)
  BY DEF TypeOK
<1>2. /\ DOMAIN txs' = 1..(Len(txs) + 1) /\ Len(txs') = Len(txs) + 1
      /\ txs'[Len(txs) + 1] = t
      /\ \A i \in 1..Len(txs) : txs'[i] = txs[i]
  BY <1>1, AppendTx
<1>3. \A x : Used(x) /\ Sealed(x) => Sealed(x)'
  BY <1>1, <1>2 DEF Used, Sealed
<1>4. ASSUME NEW m, m \notin t.body, Pending(m)' PROVE Pending(m)
  <2>1. PICK i \in DOMAIN txs' : m \in txs'[i].body /\ \A k \in i..Len(txs') : txs'[k].open
    BY <1>4 DEF Pending
  <2>2. i \in 1..Len(txs) /\ m \in txs[i].body
    BY <1>1, <1>2, <1>4, <2>1
  <2>3. \A k \in i..Len(txs) : txs[k].open
    BY <1>1, <1>2, <2>1, <2>2
  <2> QED
    BY <1>1, <2>2, <2>3 DEF Pending
<1>5. \A x : (\E i \in DOMAIN txs' : txs'[i].id = x) =>
               x = t.id \/ \E i \in DOMAIN txs : txs[i].id = x
  BY <1>1, <1>2
<1>6. txs' # <<>>
  BY <1>1, <1>2
<1> QED
  BY <1>3, <1>4, <1>5, <1>6

\* ... a message merged into the newest transaction ...
LEMMA Merged ==
    ASSUME TypeOK, NEW p \in Prompts, txs # <<>>,
           txs' = [txs EXCEPT ![Len(txs)].body = @ \cup {p}]
    PROVE  /\ \A x : Sealed(x) => Sealed(x)'
           /\ \A m : m # p /\ Pending(m)' => Pending(m)
           /\ \A x : (\E i \in DOMAIN txs' : txs'[i].id = x) =>
                       \E i \in DOMAIN txs : txs[i].id = x
           /\ txs' # <<>>
<1>1. /\ txs \in Seq(Tx) /\ Len(txs) \in Nat /\ DOMAIN txs = 1..Len(txs)
      /\ Len(txs) \in DOMAIN txs /\ \A i \in 1..Len(txs) : txs[i] \in Tx
  BY DEF TypeOK
<1>2. /\ DOMAIN txs' = 1..Len(txs) /\ Len(txs') = Len(txs)
      /\ \A i \in 1..Len(txs) :
            /\ txs'[i].id = txs[i].id /\ txs'[i].open = txs[i].open
            /\ \A m : m # p => (m \in txs'[i].body <=> m \in txs[i].body)
  <2>1. txs' \in Seq(Tx) /\ DOMAIN txs' = DOMAIN txs
    BY <1>1, MergeTx
  <2>2. ASSUME NEW i \in 1..Len(txs), i # Len(txs) PROVE txs'[i] = txs[i]
    BY <1>1, <2>2
  <2>3. txs'[Len(txs)] = [txs[Len(txs)] EXCEPT !.body = @ \cup {p}]
    BY <1>1
  <2>4. /\ txs'[Len(txs)].id = txs[Len(txs)].id /\ txs'[Len(txs)].open = txs[Len(txs)].open
        /\ txs'[Len(txs)].body = txs[Len(txs)].body \cup {p}
    BY <1>1, <2>3 DEF Tx
  <2> QED
    BY <1>1, <2>1, <2>2, <2>4
<1>3. \A x : Sealed(x) => Sealed(x)'
  BY <1>1, <1>2 DEF Sealed
<1>4. \A m : m # p /\ Pending(m)' => Pending(m)
  BY <1>1, <1>2 DEF Pending
<1> QED
  BY <1>1, <1>2, <1>3, <1>4

\* ... and a response turn added to a transaction.
LEMMA Responded ==
    ASSUME TypeOK, NEW a, txs' = AddTurn(txs, a)
    PROVE  /\ \A x : Sealed(x) => Sealed(x)'
           /\ Sealed(a)'
           /\ \A m : Pending(m)' => Pending(m)
           /\ \A x : (\E i \in DOMAIN txs' : txs'[i].id = x) =>
                       \E i \in DOMAIN txs : txs[i].id = x
           /\ txs' = <<>> => txs = <<>>
<1>1. txs \in Seq(Tx) /\ Len(txs) \in Nat /\ DOMAIN txs = 1..Len(txs)
  BY DEF TypeOK
<1>2. /\ DOMAIN txs' = 1..Len(txs) /\ Len(txs') = Len(txs)
      /\ \A i \in 1..Len(txs) :
            /\ txs'[i].id = txs[i].id /\ txs'[i].body = txs[i].body
            /\ txs[i].id # a => txs'[i].open = txs[i].open
            /\ txs[i].id = a => ~txs'[i].open
  BY <1>1, RespondTx
<1>3. \A x : Sealed(x) => Sealed(x)'
  BY <1>1, <1>2 DEF Sealed
<1>4. Sealed(a)'
  BY <1>1, <1>2 DEF Sealed
<1>5. \A m : Pending(m)' => Pending(m)
  BY <1>1, <1>2 DEF Pending
<1> QED
  BY <1>1, <1>2, <1>3, <1>4, <1>5

\* A submission starts one worker, at its last step.
LEMMA StartedStep == TypeOK /\ Started /\ [Next]_vars => Started'
<1> SUFFICES ASSUME TypeOK, Started, [Next]_vars PROVE Started'
  OBVIOUS
<1> USE DEF Started, TypeOK, loopVars, workVars, envVars, Goto, Leave, Stay
<1>1. ASSUME NEW p \in Prompts, Submitter(p) PROVE Started'
  BY <1>1 DEF Submitter, Insert, Trigger, StartCheck, ClaimIdle, ClaimWaiting, Exchange
<1>2. ASSUME NEW w \in Prompts, Worker(w) PROVE Started'
  <2>1. UNCHANGED sub /\ pc[w] # "unborn" /\ \A v \in Prompts : v # w => pc'[v] = pc[v]
    BY <1>2 DEF Worker, Top, SetThinking, Claim, Create, Respond, StreamEnds, CallTool,
                ToolBlocks, ToolUnblocks, ToolEnds, Answered, Finish, DrainGuard
  <2> QED
    BY <2>1
<1>3. ASSUME NEW n \in Notices, Notify(n) PROVE Started'
  BY <1>3 DEF Notify
<1>4. CASE Close \/ MarkDead \/ Clearing \/ Waiting \/ UNCHANGED vars
  BY <1>4 DEF Close, MarkDead, Clearing, ClearStatus, ClearHistory, ClearNotice, Waiting,
              WaitCall, WaitCheck, vars
<1> QED
  BY <1>1, <1>2, <1>3, <1>4 DEF Next

\* While the conversation has no transaction, one that was dropped stays its worker's.
LEMMA OwnedStep == TypeOK /\ Fresh /\ [Next]_vars => Owned'
<1> SUFFICES ASSUME TypeOK, Fresh, [Next]_vars, txs' = <<>>,
                    NEW v \in Prompts, NEW w \in Prompts
             PROVE  /\ active'[v] = FreshTx(w) => v = w
                    /\ last'[v] = FreshTx(w) => v = w /\ pc'[v] \in {"finish", "guard"}
  BY DEF Owned
<1> USE TxAssumption DEF Fresh, TypeOK, SpecialTx, loopVars, workVars, envVars, Goto, Leave, Stay
<1> DEFINE Held == /\ active[v] = FreshTx(w) => v = w
                   /\ last[v] = FreshTx(w) => v = w /\ pc[v] \in {"finish", "guard"}
<1>1. ASSUME txs = <<>> PROVE Held
  BY <1>1 DEF Owned
<1>2. ASSUME NEW p \in Prompts, Submitter(p) PROVE Held'
  <2>1. UNCHANGED <<txs, active, last>>
    BY <1>2 DEF Submitter, Insert, Trigger, StartCheck, ClaimIdle, ClaimWaiting, Exchange
  <2>2. \/ pc' = pc
        \/ /\ pc[p] = "unborn"
           /\ \A u \in Prompts : u # p => pc'[u] = pc[u]
    BY <1>2 DEF Submitter, Insert, Trigger, StartCheck, ClaimIdle, ClaimWaiting, Exchange, Started
  <2> QED
    BY <1>1, <2>1, <2>2
<1>3. ASSUME NEW u \in Prompts, Worker(u) PROVE Held'
  <2>1. txs = <<>>
    <3>1. CASE Create(u)
      BY <3>1 DEF Create
    <3>2. CASE Respond(u)
      BY <3>2 DEF Respond, AddTurn
    <3> QED
      BY <1>3, <3>1, <3>2 DEF Worker, Top, SetThinking, Claim, StreamEnds, CallTool,
                ToolBlocks, ToolUnblocks, ToolEnds, Answered, Finish, DrainGuard
  <2>2. Held
    BY <1>1, <2>1
  <2>3. FreshTx(w) # NoTx
    OBVIOUS
  <2>4. CASE u # v
    <3>1. active'[v] = active[v] /\ last'[v] = last[v] /\ pc'[v] = pc[v]
      BY <1>3, <2>4 DEF Worker, Top, SetThinking, Claim, Create, Respond, StreamEnds, CallTool,
                ToolBlocks, ToolUnblocks, ToolEnds, Answered, Finish, DrainGuard
    <3> QED
      BY <2>2, <3>1
  <2>5. CASE u = v
    <3>1. CASE Top(v) \/ SetThinking(v) \/ Claim(v) \/ Respond(v) \/ StreamEnds(v)
      BY <2>1, <2>2, <2>3, <3>1 DEF Top, SetThinking, Claim, Respond, StreamEnds, LastId
    <3>2. CASE Create(v)
      BY <2>1, <2>2, <2>3, <3>2 DEF Create
    <3>3. CASE CallTool(v) \/ ToolBlocks(v) \/ ToolUnblocks(v) \/ ToolEnds(v)
      BY <2>1, <2>2, <2>3, <3>3 DEF CallTool, ToolBlocks, ToolUnblocks, ToolEnds
    <3>4. CASE Answered(v) \/ Finish(v) \/ DrainGuard(v)
      BY <2>1, <2>2, <2>3, <3>4 DEF Answered, Finish, DrainGuard
    <3> QED
      BY <1>3, <2>5, <3>1, <3>2, <3>3, <3>4 DEF Worker
  <2> QED
    BY <2>4, <2>5
<1>4. CASE ClearHistory
  BY <1>4 DEF ClearHistory, Unused, Used
<1>5. ASSUME NEW n \in Notices, Notify(n) PROVE FALSE
  BY <1>5 DEF Notify
<1>6. CASE ClearNotice
  BY <1>6 DEF ClearNotice
<1>7. CASE Close \/ MarkDead \/ ClearStatus \/ Waiting \/ UNCHANGED vars
  BY <1>1, <1>7 DEF Close, MarkDead, ClearStatus, Waiting, WaitCall, WaitCheck, vars
<1> QED
  BY <1>2, <1>3, <1>4, <1>5, <1>6, <1>7 DEF Next, Clearing

\* A transaction that is yet to be added (a message not submitted, a notice not
\* posted, what the clearing or a worker may still make) is not in use.
LEMMA UnusedStep == TypeOK /\ Fresh /\ [Next]_vars => Unused'
<1> SUFFICES ASSUME TypeOK, Fresh, [Next]_vars PROVE Unused'
  OBVIOUS
<1> USE LoopAssumption, TxAssumption
<1> USE DEF Fresh, Unused, TypeOK, SpecialTx, loopVars, workVars, envVars, SetStatus, Goto, Leave, Stay
<1>1. ASSUME NEW p \in Prompts, Insert(p) PROVE Unused'
  <2>1. CASE Merges(p)
    <3>1. /\ \A x : Used(x)' => Used(x)
          /\ txs' # <<>>
      BY <1>1, <2>1, Merged DEF Insert, Merges, Used
    <3> QED
      BY <1>1, <3>1 DEF Insert
  <2>2. CASE ~Merges(p)
    <3> DEFINE t == [id |-> p, body |-> {p}, open |-> TRUE,
                     kind |-> IF p \in SystemPrompts THEN "system" ELSE "user"]
    <3>1. t \in Tx /\ t.id = p /\ ~Used(p)
      BY <1>1 DEF Insert, Tx, TxIds
    <3>2. txs' = Append(txs, t)
      BY <1>1, <2>2 DEF Insert
    <3> HIDE DEF t
    <3>3. /\ \A x : Used(x)' => x = p \/ Used(x)
          /\ txs' # <<>>
      BY <1>1, <3>1, <3>2, Appended DEF Insert, Used
    <3>4. sub[p] = "new" /\ sub' = [sub EXCEPT ![p] = "inserted"] /\ UNCHANGED <<posted, clearer, pc>>
      BY <1>1 DEF Insert
    <3> QED
      BY <3>3, <3>4
  <2> QED
    BY <2>1, <2>2
<1>2. ASSUME NEW p \in Prompts,
             Trigger(p) \/ StartCheck(p) \/ ClaimIdle(p) \/ ClaimWaiting(p)
      PROVE Unused'
  BY <1>2 DEF Trigger, StartCheck, ClaimIdle, ClaimWaiting, Exchange, Used
<1>3. ASSUME NEW n \in Notices, Notify(n) PROVE Unused'
  <2> DEFINE t == [id |-> n, kind |-> "ui", body |-> {}, open |-> TRUE]
  <2>1. t \in Tx /\ t.id = n /\ ~Used(n) /\ txs' = Append(txs, t)
    BY <1>3 DEF Notify, Tx, TxIds
  <2> HIDE DEF t
  <2>2. /\ \A x : Used(x)' => x = n \/ Used(x)
        /\ txs' # <<>>
    BY <1>3, <2>1, Appended DEF Notify, Used
  <2> QED
    BY <1>3, <2>2 DEF Notify
<1>4. ASSUME NEW w \in Prompts,
             \/ Top(w) \/ SetThinking(w) \/ StreamEnds(w) \/ CallTool(w) \/ ToolBlocks(w)
             \/ ToolUnblocks(w) \/ ToolEnds(w) \/ Finish(w) \/ DrainGuard(w)
      PROVE Unused'
  <2>1. /\ \A x : x # NoTx /\ Used(x)' => Used(x)
        /\ UNCHANGED <<txs, sub, posted, clearer>>
        /\ \A v \in Prompts : pc'[v] = "create" => pc[v] = "create"
    BY <1>4 DEF Top, SetThinking, StreamEnds, CallTool, ToolBlocks, ToolUnblocks, ToolEnds,
                Finish, DrainGuard, Used
  <2> QED
    BY <2>1
<1>5. ASSUME NEW w \in Prompts, Claim(w) PROVE Unused'
  <2>1. LastId = NoTx \/ \E i \in DOMAIN txs : txs[i].id = LastId
    <3>1. txs # <<>> => Len(txs) \in DOMAIN txs
      OBVIOUS
    <3> QED
      BY <3>1 DEF LastId, NewestTx
  <2>2. \A x : x # NoTx /\ Used(x)' => Used(x)
    BY <1>5, <2>1 DEF Claim, Used
  <2>3. /\ UNCHANGED <<txs, sub, posted, clearer>>
        /\ pc'[w] = "create" => txs = <<>>
        /\ \A v \in Prompts : v # w => pc'[v] = pc[v]
    BY <1>5 DEF Claim
  <2>4. txs = <<>> => ~Used(FreshTx(w))'
    BY <1>5 DEF Claim, Used, Owned, LastId
  <2> QED
    BY <2>2, <2>3, <2>4
<1>6. ASSUME NEW w \in Prompts, Create(w) PROVE Unused'
  <2> DEFINE t == [id |-> FreshTx(w), kind |-> "user", body |-> {}, open |-> TRUE]
  <2>1. /\ t \in Tx /\ t.id = FreshTx(w) /\ ~Used(FreshTx(w))
        /\ txs' = txs \/ txs' = Append(txs, t)
    BY <1>6 DEF Create, Tx, TxIds
  <2> HIDE DEF t
  <2>2. /\ \A x : Used(x)' => x = FreshTx(w) \/ Used(x)
        /\ txs' = <<>> => txs = <<>>
    <3>1. /\ txs' = <<>> => txs = <<>>
          /\ \A x : (\E i \in DOMAIN txs' : txs'[i].id = x) =>
                     x = FreshTx(w) \/ \E i \in DOMAIN txs : txs[i].id = x
      <4>1. CASE txs' = txs
        BY <4>1
      <4>2. CASE txs' = Append(txs, t)
        BY <2>1, <4>2, Appended
      <4> QED
        BY <2>1, <4>1, <4>2
    <3>2. \A v \in Prompts : /\ active'[v] \in {active[v], FreshTx(w)}
                             /\ last'[v] = last[v]
      BY <1>6 DEF Create
    <3> QED
      BY <3>1, <3>2 DEF Used
  <2>3. /\ UNCHANGED <<sub, posted, clearer>>
        /\ pc[w] = "create"
        /\ \A v \in Prompts : v # w => pc'[v] = pc[v]
        /\ pc'[w] = "respond"
    BY <1>6, <2>2 DEF Create
  <2>4. \A v \in Prompts : v # w => FreshTx(v) # FreshTx(w)
    OBVIOUS
  <2>5. /\ FreshTx(w) \notin Prompts \cup Notices \cup {ClearTx, ResetTx}
        /\ clearer \notin {"ready", "wiping"}
    BY <2>3
  <2> QED
    BY <2>2, <2>3, <2>4, <2>5
<1>7. ASSUME NEW w \in Prompts, Respond(w) PROVE Unused'
  <2>1. /\ \A x : Used(x)' => Used(x)
        /\ txs' = <<>> => txs = <<>>
    BY <1>7, Responded DEF Respond, Used
  <2> QED
    BY <1>7, <2>1 DEF Respond
<1>8. ASSUME NEW w \in Prompts, Answered(w) PROVE Unused'
  <2>1. \A x : Used(x)' => Used(x)
    BY <1>8 DEF Answered, Used
  <2> QED
    BY <1>8, <2>1 DEF Answered
<1>9. CASE ClearStatus
  BY <1>9 DEF ClearStatus, Used
<1>10. CASE ClearHistory
  <2>1. \A x : Used(x)' => x = ResetTx \/ Used(x)
    BY <1>10 DEF ClearHistory, Used
  <2> QED
    BY <1>10, <2>1 DEF ClearHistory
<1>11. CASE ClearNotice
  <2> DEFINE t == [id |-> ClearTx, kind |-> "ui", body |-> {}, open |-> TRUE]
  <2>1. t \in Tx /\ t.id = ClearTx /\ ~Used(ClearTx) /\ txs' = Append(txs, t)
    BY <1>11 DEF ClearNotice, Tx, TxIds
  <2> HIDE DEF t
  <2>2. /\ \A x : Used(x)' => x = ClearTx \/ Used(x)
        /\ txs' # <<>>
    BY <1>11, <2>1, Appended DEF ClearNotice, Used
  <2> QED
    BY <1>11, <2>2 DEF ClearNotice
<1>12. CASE Close \/ MarkDead \/ Waiting \/ UNCHANGED vars
  BY <1>12 DEF Close, MarkDead, Waiting, WaitCall, WaitCheck, vars, Used
<1> QED
  BY <1>1, <1>2, <1>3, <1>4, <1>5, <1>6, <1>7, <1>8, <1>9, <1>10, <1>11, <1>12
     DEF Next, Submitter, Worker, Clearing

\* The three together are kept.
LEMMA FreshStep == TypeOK /\ Fresh /\ [Next]_vars => Fresh'
  BY StartedStep, OwnedStep, UnusedStep DEF Fresh

\* What was answered stays answered, and only Insert puts a message behind the
\* newest response.
LEMMA ConversationStep ==
    ASSUME TypeOK, Fresh, [Next]_vars
    PROVE  /\ \A x : Used(x) /\ Sealed(x) => Sealed(x)'
           /\ \A m \in Prompts : Pending(m)' => Pending(m) \/ sub'[m] = "inserted"
<1> DEFINE Goal == /\ \A x : Used(x) /\ Sealed(x) => Sealed(x)'
                   /\ \A m \in Prompts : Pending(m)' => Pending(m) \/ sub'[m] = "inserted"
<1> USE LoopAssumption, TxAssumption
<1>1. ASSUME NEW p \in Prompts, Insert(p) PROVE Goal
  <2>0. sub'[p] = "inserted"
    BY <1>1 DEF Insert, TypeOK
  <2>1. CASE Merges(p)
    BY <1>1, <2>0, <2>1, Merged DEF Insert, Merges
  <2>2. CASE ~Merges(p)
    <3> DEFINE t == [id |-> p, body |-> {p}, open |-> TRUE,
                     kind |-> IF p \in SystemPrompts THEN "system" ELSE "user"]
    <3>1. /\ t \in Tx /\ t.id = p /\ ~Used(p) /\ txs' = Append(txs, t)
          /\ \A m : m # p => m \notin t.body
      BY <1>1, <2>2 DEF Insert, Fresh, Unused, Tx, TxIds
    <3> HIDE DEF t
    <3> QED
      BY <2>0, <3>1, Appended
  <2> QED
    BY <2>1, <2>2
<1>2. ASSUME NEW t \in Tx, txs' = Append(txs, t), ~Used(t.id), t.body = {} PROVE Goal
  BY <1>2, Appended
<1>3. ASSUME NEW n \in Notices, Notify(n) PROVE Goal
  <2> DEFINE t == [id |-> n, kind |-> "ui", body |-> {}, open |-> TRUE]
  <2>1. t \in Tx /\ txs' = Append(txs, t) /\ ~Used(t.id) /\ t.body = {}
    BY <1>3 DEF Notify, Fresh, Unused, Tx, TxIds
  <2> QED
    BY <1>2, <2>1
<1>4. ASSUME NEW w \in Prompts, Create(w) PROVE Goal
  <2> DEFINE t == [id |-> FreshTx(w), kind |-> "user", body |-> {}, open |-> TRUE]
  <2>1. t \in Tx /\ ~Used(t.id) /\ t.body = {} /\ (UNCHANGED txs \/ txs' = Append(txs, t))
    BY <1>4 DEF Create, Fresh, Unused, Tx, TxIds, SpecialTx
  <2> QED
    BY <1>2, <2>1 DEF Sealed, Pending
<1>5. CASE ClearNotice
  <2> DEFINE t == [id |-> ClearTx, kind |-> "ui", body |-> {}, open |-> TRUE]
  <2>1. t \in Tx /\ txs' = Append(txs, t) /\ ~Used(t.id) /\ t.body = {}
    BY <1>5 DEF ClearNotice, Fresh, Unused, Tx, TxIds, SpecialTx
  <2> QED
    BY <1>2, <2>1
<1>6. ASSUME NEW w \in Prompts, Respond(w) PROVE Goal
  BY <1>6, Responded DEF Respond
<1>7. CASE ClearHistory
  <2>1. \A i \in DOMAIN txs' : txs'[i].id = ResetTx /\ txs'[i].body = {}
    BY <1>7 DEF ClearHistory
  <2>2. ~Used(ResetTx)
    BY <1>7 DEF ClearHistory, Fresh, Unused
  <2> QED
    BY <2>1, <2>2 DEF Sealed, Pending
<1>8. CASE UNCHANGED txs
  BY <1>8 DEF Sealed, Pending
<1>9. \/ UNCHANGED txs \/ ClearNotice \/ ClearHistory
      \/ \E p \in Prompts : Insert(p) \/ Create(p) \/ Respond(p)
      \/ \E n \in Notices : Notify(n)
  BY DEF Next, Submitter, Worker, Clearing, Waiting, vars, loopVars, envVars, workVars, Trigger,
         StartCheck, ClaimIdle, ClaimWaiting, Exchange, Top, SetThinking, Claim, StreamEnds,
         CallTool, ToolBlocks, ToolUnblocks, ToolEnds, Answered, Finish, DrainGuard, Close,
         MarkDead, ClearStatus, WaitCall, WaitCheck
<1> QED
  BY <1>1, <1>3, <1>4, <1>5, <1>6, <1>7, <1>8, <1>9

\* Every step keeps a worker's bookkeeping true: the transaction it answered last,
\* and the one it is answering, hold a response.
LEMMA AnsweringStep ==
    ASSUME TypeOK, Fresh, Answering, [Next]_vars
    PROVE  Answering'
<1> USE LoopAssumption, TxAssumption
<1> DEFINE Waits == {"stream", "calls", "tool", "blocked", "answered"}
<1>1. Sealed(NoTx)'
  <2>1. TypeOK'
    BY TypeStep
  <2>2. \A i \in DOMAIN txs' : txs'[i] \in Tx
    BY <2>1 DEF TypeOK
  <2>3. \A i \in DOMAIN txs' : txs'[i].id # NoTx
    BY <2>2 DEF Tx, TxIds
  <2> QED
    BY <2>3 DEF Sealed
<1>2. ASSUME NEW w \in Prompts
      PROVE  /\ \/ last'[w] \in {last[w], NoTx}
                \/ last'[w] = active[w] /\ pc[w] = "answered"
             /\ pc'[w] \in Waits =>
                  /\ active'[w] = active[w]
                  /\ pc[w] \in Waits \/ Respond(w)
  <2> USE DEF TypeOK, loopVars, workVars, envVars, Goto, Leave, Stay
  <2>1. CASE UNCHANGED workVars
    BY <2>1
  <2>2. ASSUME NEW p \in Prompts, ClaimIdle(p) \/ ClaimWaiting(p)
        PROVE  /\ UNCHANGED <<last, active>>
               /\ \A v \in Prompts : pc'[v] \in {pc[v], "top"}
    BY <2>2 DEF ClaimIdle, ClaimWaiting, Exchange
  <2>3. ASSUME NEW v \in Prompts, Worker(v)
        PROVE  /\ \/ last'[w] \in {last[w], NoTx}
                  \/ last'[w] = active[w] /\ pc[w] = "answered"
               /\ pc'[w] \in Waits =>
                    /\ active'[w] = active[w]
                    /\ pc[w] \in Waits \/ Respond(w)
    <3>1. CASE v # w
      BY <2>3, <3>1 DEF Worker, Top, SetThinking, Claim, Create, Respond, StreamEnds, CallTool,
         ToolBlocks, ToolUnblocks, ToolEnds, Answered, Finish, DrainGuard
    <3>2. CASE v = w
      BY <2>3, <3>2 DEF Worker, Top, SetThinking, Claim, Create, StreamEnds, CallTool,
         ToolBlocks, ToolUnblocks, ToolEnds, Answered, Finish, DrainGuard, Respond
    <3> QED
      BY <3>1, <3>2
  <2>4. \/ UNCHANGED workVars
        \/ \E p \in Prompts : ClaimIdle(p) \/ ClaimWaiting(p) \/ Worker(p)
    BY DEF Next, Submitter, Clearing, Waiting, vars, Insert, Trigger, StartCheck, Notify, Close,
       MarkDead, ClearStatus, ClearHistory, ClearNotice, WaitCall, WaitCheck
  <2> QED
    BY <2>1, <2>2, <2>3, <2>4
<1>3. ASSUME NEW w \in Prompts, Respond(w) PROVE Sealed(active[w])'
  <2>1. \A x : x = active[w] => (\A i \in DOMAIN txs' : txs'[i].id = x => ~txs'[i].open)
    BY <1>3, Responded DEF Respond, Sealed
  <2>2. active' = active
    BY <1>3 DEF Respond
  <2> QED
    BY <2>1, <2>2 DEF Sealed
<1>4. ASSUME NEW x, Used(x), Sealed(x)
      PROVE  \A i \in DOMAIN txs' : txs'[i].id = x => ~txs'[i].open
  BY <1>4, ConversationStep DEF Sealed
<1>5. ASSUME NEW w \in Prompts PROVE Sealed(last[w])'
  <2>1. Used(last[w]) /\ Sealed(last[w])
    BY DEF Used, Answering
  <2>2. pc[w] = "answered" => Used(active[w]) /\ Sealed(active[w])
    BY DEF Used, Answering
  <2> QED
    BY <1>1, <1>2, <1>4, <2>1, <2>2 DEF Sealed
<1>6. ASSUME NEW w \in Prompts, pc'[w] \in Waits PROVE Sealed(active[w])'
  <2>1. pc[w] \in Waits => Used(active[w]) /\ Sealed(active[w])
    BY DEF Used, Answering
  <2> QED
    BY <1>2, <1>3, <1>4, <1>6, <2>1 DEF Sealed
<1> QED
  BY <1>5, <1>6 DEF Answering

\* A worker that is not in its loop after a step left because the agent is
\* closed, or through the drain guard.
LEMMA LoopStep ==
    ASSUME TypeOK, [Next]_vars, ~closed'
    PROVE  /\ ~closed
           /\ \A w \in Prompts : InLoop(w) => InLoop(w)' \/ (DrainGuard(w) /\ pc'[w] = "gone")
<1> USE DEF TypeOK, loopVars, workVars, envVars, Goto, Leave, Stay, InLoop
<1>1. ASSUME NEW p \in Prompts, Submitter(p) PROVE UNCHANGED closed /\ \A w \in Prompts : InLoop(w) => InLoop(w)'
  BY <1>1 DEF Submitter, Insert, Trigger, StartCheck, ClaimIdle, ClaimWaiting, Exchange
<1>2. ASSUME NEW v \in Prompts, Worker(v) PROVE UNCHANGED closed
  BY <1>2 DEF Worker, Top, SetThinking, Claim, Create, Respond, StreamEnds, CallTool,
         ToolBlocks, ToolUnblocks, ToolEnds, Answered, Finish, DrainGuard
<1>3. ASSUME NEW v \in Prompts, Worker(v), NEW w \in Prompts, InLoop(w)
      PROVE InLoop(w)' \/ (DrainGuard(w) /\ pc'[w] = "gone")
  <2>1. CASE v # w
    BY <1>3, <2>1 DEF Worker, Top, SetThinking, Claim, Create, Respond, StreamEnds, CallTool,
         ToolBlocks, ToolUnblocks, ToolEnds, Answered, Finish, DrainGuard
  <2>2. CASE v = w /\ ~DrainGuard(w)
    BY <1>2, <1>3, <2>2 DEF Worker, Top, SetThinking, Claim, Create, Respond, StreamEnds, CallTool,
         ToolBlocks, ToolUnblocks, ToolEnds, Answered, Finish
  <2>3. CASE v = w /\ DrainGuard(w)
    BY <1>3, <2>3 DEF DrainGuard
  <2> QED
    BY <2>1, <2>2, <2>3
<1>4. \/ ~closed /\ UNCHANGED pc
      \/ \E p \in Prompts : Submitter(p) \/ Worker(p)
  BY DEF Next, Clearing, Waiting, vars, Notify, Close, MarkDead, ClearStatus, ClearHistory,
     ClearNotice, WaitCall, WaitCheck
<1> QED
  BY <1>1, <1>2, <1>3, <1>4

\* The drain guard lets a worker go only when no message is behind the newest
\* response.
LEMMA Drained ==
    ASSUME TypeOK, Answering, NEW w \in Prompts, DrainGuard(w), pc'[w] = "gone"
    PROVE  /\ status' \in {"idle", "dead"}
           /\ \A m : ~Pending(m)'
<1>1. txs' = txs /\ (txs = <<>> \/ LastId = last[w])
  BY DEF DrainGuard, Stay, Goto, TypeOK
<1>2. status' \in {"idle", "dead"}
  BY <1>1 DEF DrainGuard, Stay, Goto, TypeOK, SetStatus
<1>3. CASE txs = <<>>
  BY <1>1, <1>2, <1>3 DEF Pending
<1>4. CASE txs # <<>>
  <2>1. Len(txs) \in DOMAIN txs /\ DOMAIN txs = 1..Len(txs) /\ Len(txs) \in Nat
    BY <1>4 DEF TypeOK
  <2>2. ~txs[Len(txs)].open
    BY <1>1, <1>4, <2>1 DEF LastId, NewestTx, Answering, Sealed
  <2> QED
    BY <1>1, <1>2, <2>1, <2>2 DEF Pending
<1> QED
  BY <1>3, <1>4

\* A step that changes the status of an open agent to a busy one is taken by, or
\* starts, a worker in its loop.
LEMMA BusyStep ==
    ASSUME TypeOK, [Next]_vars, status' \notin {status, "idle", "dead"}
    PROVE  \E w \in Prompts : InLoop(w)'
<1> USE DEF TypeOK, loopVars, workVars, envVars, Goto, Leave, Stay, InLoop, SetStatus
<1>1. ASSUME NEW p \in Prompts, ClaimIdle(p) \/ ClaimWaiting(p) PROVE InLoop(p)'
  BY <1>1 DEF ClaimIdle, ClaimWaiting, Exchange
<1>2. ASSUME NEW w \in Prompts, Worker(w) PROVE InLoop(w)'
  BY <1>2 DEF Worker, Top, SetThinking, Claim, Create, Respond, StreamEnds, CallTool,
         ToolBlocks, ToolUnblocks, ToolEnds, Answered, Finish, DrainGuard
<1>3. \E p \in Prompts : ClaimIdle(p) \/ ClaimWaiting(p) \/ Worker(p)
  BY DEF Next, Submitter, Clearing, Waiting, vars, Insert, Trigger, StartCheck, Notify, Close,
     MarkDead, ClearStatus, ClearHistory, ClearNotice, WaitCall, WaitCheck
<1> QED
  BY <1>1, <1>2, <1>3

\* Every step keeps a worker in its loop while the open agent is busy.
LEMMA WorkingStep ==
    ASSUME TypeOK, Answering, Working, [Next]_vars
    PROVE  Working'
<1> SUFFICES ASSUME ~closed', status' \notin {"idle", "dead"}
             PROVE  \E w \in Prompts : InLoop(w)'
  BY DEF Working
<1>1. CASE status' # status
  BY <1>1, BusyStep
<1>2. CASE status' = status
  <2>1. PICK w \in Prompts : InLoop(w)
    BY <1>2, LoopStep DEF Working
  <2> QED
    BY <2>1, LoopStep, Drained
<1> QED
  BY <1>1, <1>2

\* A submitter stops trying only when the status was not idle.
LEMMA SubmitterStep ==
    ASSUME TypeOK, [Next]_vars, NEW m \in Prompts,
           sub[m] \in {"inserted", "starting", "claiming"},
           sub'[m] \notin {"inserted", "starting", "claiming"}
    PROVE  \/ closed
           \/ \E w \in Prompts : InLoop(w)'
           \/ status \notin {"idle"} /\ UNCHANGED <<status, pc>>
<1> USE DEF TypeOK, InLoop, loopVars, workVars, envVars
<1>1. Trigger(m) \/ StartCheck(m) \/ ClaimIdle(m)
  <2>1. ASSUME NEW p \in Prompts, Submitter(p)
        PROVE  Trigger(m) \/ StartCheck(m) \/ ClaimIdle(m)
    BY <2>1 DEF Submitter, Insert, Trigger, StartCheck, ClaimIdle, ClaimWaiting, Exchange
  <2>2. ASSUME NEW w \in Prompts, Worker(w) PROVE UNCHANGED sub
    BY <2>2 DEF Worker, Top, SetThinking, Claim, Create, Respond, StreamEnds, CallTool,
         ToolBlocks, ToolUnblocks, ToolEnds, Answered, Finish, DrainGuard
  <2>3. UNCHANGED sub \/ \E p \in Prompts : Submitter(p) \/ Worker(p)
    BY DEF Next, Clearing, Waiting, vars, Notify, Close,
       MarkDead, ClearStatus, ClearHistory, ClearNotice, WaitCall, WaitCheck
  <2> QED
    BY <2>1, <2>2, <2>3
<1>2. CASE Trigger(m) \/ StartCheck(m)
  BY <1>2 DEF Trigger, StartCheck
<1>3. CASE ClaimIdle(m)
  BY <1>3 DEF ClaimIdle, Exchange
<1> QED
  BY <1>1, <1>2, <1>3

\* Every step keeps a pending message accompanied by a worker, or by the thread
\* that submitted it and is still to start one.
LEMMA NoneLostStep ==
    ASSUME TypeOK, Fresh, Answering, Working, NoneLost, [Next]_vars
    PROVE  NoneLost'
<1> DEFINE Trying == {"inserted", "starting", "claiming"}
<1> SUFFICES ASSUME ~closed', status' # "dead", clearer' # "wiping",
                    NEW m \in Prompts, Pending(m)',
                    \A w \in Prompts : ~InLoop(w)'
             PROVE  sub'[m] \in Trying
  BY DEF NoneLost
<1>1. CASE clearer = "wiping"
  <2>1. ClearHistory
    BY <1>1 DEF Next, Submitter, Insert, Trigger, StartCheck, ClaimIdle, ClaimWaiting, Exchange,
         Worker, Top, SetThinking, Claim, Create, Respond, StreamEnds, CallTool, ToolBlocks,
         ToolUnblocks, ToolEnds, Answered, Finish, DrainGuard, Notify, Close, MarkDead, Clearing,
         ClearStatus, ClearNotice, Waiting, WaitCall, WaitCheck, vars, envVars
  <2>2. \A i \in DOMAIN txs' : txs'[i].body = {}
    BY <2>1 DEF ClearHistory
  <2> QED
    BY <2>2 DEF Pending
<1>2. CASE clearer # "wiping"
  <2>1. \A w \in Prompts : ~InLoop(w)
    BY LoopStep, Drained
  <2>2. ~closed /\ status # "dead"
    <3>1. ~closed
      BY LoopStep
    <3>2. status = "dead" => status' # "idle"
      <4>1. ASSUME NEW w \in Prompts, Worker(w) PROVE InLoop(w)
        BY <4>1 DEF Worker, Top, SetThinking, Claim, Create, Respond, StreamEnds, CallTool,
           ToolBlocks, ToolUnblocks, ToolEnds, Answered, Finish, DrainGuard, InLoop
      <4>2. ~ClearStatus
        BY DEF ClearStatus
      <4> QED
        BY <2>1, <4>1, <4>2 DEF Next, Submitter, Insert, Trigger, StartCheck, ClaimIdle,
           ClaimWaiting, Exchange, Notify, Close, MarkDead, Clearing, ClearHistory, ClearNotice,
           Waiting, WaitCall, WaitCheck, vars, loopVars, SetStatus
    <3>3. status = "dead" => status' = "dead"
      BY <3>2, BusyStep
    <3> QED
      BY <3>1, <3>3
  <2>3. Pending(m) \/ sub'[m] = "inserted"
    BY ConversationStep
  <2>4. CASE Pending(m) /\ sub'[m] \notin Trying
    <3>1. sub[m] \in Trying
      BY <1>2, <2>1, <2>2, <2>4 DEF NoneLost
    <3>2. status \notin {"idle"}
      BY <2>2, <2>4, <3>1, SubmitterStep
    <3> QED
      BY <2>1, <2>2, <3>2 DEF Working
  <2> QED
    BY <2>3, <2>4
<1> QED
  BY <1>1, <1>2

\* Whatever the constants: an open agent that is idle, with no worker in its loop
\* and no submission under way, has no message behind its newest response.
THEOREM DrainedWhenIdle == Spec => []IdleMeansDrained
<1>1. Init => DrainInv
  <2> SUFFICES ASSUME Init PROVE DrainInv
    OBVIOUS
  <2> USE LoopAssumption, TxAssumption DEF Init
  <2>1. Fresh
    BY DEF Fresh, Unused, Started, Owned, Used, SpecialTx
  <2>2. Answering
    BY DEF Answering, Sealed, SpecialTx
  <2>3. Working /\ NoneLost
    BY DEF Working, NoneLost, Pending
  <2> QED
    BY <2>1, <2>2, <2>3 DEF DrainInv
<1>2. TypeOK /\ DrainInv /\ [Next]_vars => DrainInv'
  BY FreshStep, AnsweringStep, WorkingStep, NoneLostStep DEF DrainInv
<1>3. TypeOK /\ DrainInv => IdleMeansDrained
  <2> SUFFICES ASSUME TypeOK, DrainInv, AtRest, NEW m \in Backlog PROVE FALSE
    BY DEF IdleMeansDrained
  <2>1. m \in Prompts /\ Pending(m)
    <3>1. \A i \in DOMAIN txs : txs[i] \in Tx
      BY DEF TypeOK
    <3>2. \A i \in DOMAIN txs : txs[i].body \subseteq Prompts
      BY <3>1 DEF Tx
    <3> QED
      BY <3>2 DEF Backlog, Pending
  <2> QED
    BY <2>1 DEF DrainInv, NoneLost, AtRest
<1> QED
  BY <1>1, <1>2, <1>3, TypeCorrect, PTL DEF Spec

-----------------------------------------------------------------------------
(* Another round.  That the newest transaction is not the one a worker       *)
(* answered does not say by itself that a message waits: it may be a notice, *)
(* or another worker may have answered it.  Without notices, and with one    *)
(* worker, whatever came behind the worker's transaction is a message        *)
(* without a response.                                                       *)

\* Transaction x is there, and all behind it are messages that wait.
WaitBehind(x) ==
    \E i \in DOMAIN txs :
        /\ txs[i].id = x
        /\ \A k \in DOMAIN txs :
              k > i => txs[k].id # x /\ txs[k].open /\ txs[k].body # {}

RoundInv ==
    /\ clearer = "ready"
    /\ \A w \in Prompts :
         /\ pc[w] \in Holding => WaitBehind(active[w])
         /\ pc[w] \in {"finish", "guard"} => last[w] = active[w]

\* What the changes to the conversation keep of it.
LEMMA AppendedBehind ==
    ASSUME TypeOK, NEW t \in Tx, txs' = Append(txs, t), ~Used(t.id), t.open, t.body # {},
           NEW x, WaitBehind(x)
    PROVE  WaitBehind(x)'
<1>1. /\ DOMAIN txs = 1..Len(txs) /\ Len(txs) \in Nat
      /\ DOMAIN txs' = 1..(Len(txs) + 1) /\ txs'[Len(txs) + 1] = t
      /\ \A i \in 1..Len(txs) : txs'[i] = txs[i]
  BY AppendTx DEF TypeOK
<1>2. PICK i \in DOMAIN txs :
        /\ txs[i].id = x
        /\ \A k \in DOMAIN txs :
              k > i => txs[k].id # x /\ txs[k].open /\ txs[k].body # {}
  BY DEF WaitBehind
<1>3. t.id # x
  BY <1>2 DEF Used
<1>4. i \in DOMAIN txs' /\ txs'[i].id = x
  BY <1>1, <1>2
<1>5. ASSUME NEW k \in DOMAIN txs', k > i
      PROVE  txs'[k].id # x /\ txs'[k].open /\ txs'[k].body # {}
  BY <1>1, <1>2, <1>3, <1>5
<1> QED
  BY <1>4, <1>5 DEF WaitBehind

LEMMA MergedBehind ==
    ASSUME TypeOK, NEW p \in Prompts, txs # <<>>,
           txs' = [txs EXCEPT ![Len(txs)].body = @ \cup {p}],
           NEW x, WaitBehind(x)
    PROVE  WaitBehind(x)'
<1>1. /\ txs \in Seq(Tx) /\ DOMAIN txs = 1..Len(txs) /\ Len(txs) \in Nat /\ Len(txs) \in DOMAIN txs
      /\ txs' \in Seq(Tx) /\ DOMAIN txs' = DOMAIN txs
  BY MergeTx DEF TypeOK
<1>2. txs[Len(txs)] \in Tx
  BY <1>1
<1>3. \A k \in DOMAIN txs :
        /\ txs'[k].id = txs[k].id /\ txs'[k].open = txs[k].open
        /\ txs[k].body \subseteq txs'[k].body
  <2>1. ASSUME NEW k \in DOMAIN txs, k # Len(txs) PROVE txs'[k] = txs[k]
    BY <1>1, <2>1
  <2>2. txs'[Len(txs)] = [txs[Len(txs)] EXCEPT !.body = @ \cup {p}]
    BY <1>1
  <2>3. /\ txs'[Len(txs)].id = txs[Len(txs)].id /\ txs'[Len(txs)].open = txs[Len(txs)].open
        /\ txs'[Len(txs)].body = txs[Len(txs)].body \cup {p}
    BY <1>2, <2>2 DEF Tx
  <2> QED
    BY <2>1, <2>3
<1>4. PICK i \in DOMAIN txs :
        /\ txs[i].id = x
        /\ \A k \in DOMAIN txs :
              k > i => txs[k].id # x /\ txs[k].open /\ txs[k].body # {}
  BY DEF WaitBehind
<1>5. ASSUME NEW k \in DOMAIN txs', k > i
      PROVE  txs'[k].id # x /\ txs'[k].open /\ txs'[k].body # {}
  BY <1>1, <1>3, <1>4, <1>5
<1>6. i \in DOMAIN txs' /\ txs'[i].id = x
  BY <1>1, <1>3, <1>4
<1> QED
  BY <1>5, <1>6 DEF WaitBehind

LEMMA RespondedBehind ==
    ASSUME TypeOK, NEW x, txs' = AddTurn(txs, x), WaitBehind(x)
    PROVE  WaitBehind(x)'
<1>1. /\ txs' \in Seq(Tx) /\ Len(txs') = Len(txs)
      /\ DOMAIN txs = 1..Len(txs) /\ DOMAIN txs' = DOMAIN txs
      /\ \A k \in DOMAIN txs :
            /\ txs'[k].id = txs[k].id /\ txs'[k].body = txs[k].body
            /\ txs[k].id # x => txs'[k].open = txs[k].open
  BY RespondTx DEF TypeOK
<1>2. PICK i \in DOMAIN txs :
        /\ txs[i].id = x
        /\ \A k \in DOMAIN txs :
              k > i => txs[k].id # x /\ txs[k].open /\ txs[k].body # {}
  BY DEF WaitBehind
<1>3. ASSUME NEW k \in DOMAIN txs', k > i
      PROVE  txs'[k].id # x /\ txs'[k].open /\ txs'[k].body # {}
  BY <1>1, <1>2, <1>3
<1>4. i \in DOMAIN txs' /\ txs'[i].id = x
  BY <1>1, <1>2
<1> QED
  BY <1>3, <1>4 DEF WaitBehind

\* The newest transaction has nothing behind it.
LEMMA NewestBehind ==
    ASSUME TypeOK, txs # <<>>
    PROVE  WaitBehind(LastId)
<1>1. DOMAIN txs = 1..Len(txs) /\ Len(txs) \in DOMAIN txs /\ Len(txs) \in Nat
  BY DEF TypeOK
<1> QED
  BY <1>1 DEF WaitBehind, LastId, NewestTx

\* If another one is the newest, a message waits.
LEMMA BehindWaits ==
    ASSUME TypeOK, txs # <<>>, NEW x, WaitBehind(x), LastId # x
    PROVE  Backlog # {}
<1>1. DOMAIN txs = 1..Len(txs) /\ Len(txs) \in DOMAIN txs /\ Len(txs) \in Nat
  BY DEF TypeOK
<1>2. PICK i \in DOMAIN txs :
        /\ txs[i].id = x
        /\ \A k \in DOMAIN txs :
              k > i => txs[k].id # x /\ txs[k].open /\ txs[k].body # {}
  BY DEF WaitBehind
<1>3. i < Len(txs)
  BY <1>1, <1>2 DEF LastId, NewestTx
<1>4. txs[Len(txs)].open /\ txs[Len(txs)].body # {}
  BY <1>1, <1>2, <1>3
<1>5. Len(txs) \in {j \in DOMAIN txs : \A k \in j..Len(txs) : txs[k].open}
  BY <1>1, <1>4
<1> QED
  BY <1>4, <1>5 DEF Backlog

\* Every step keeps it: only the one worker records responses.
LEMMA RoundStep ==
    ASSUME ~MayClear, Notices = {}, TypeOK, Alone, Alone', Fresh, RoundInv, [Next]_vars
    PROVE  RoundInv'
<1> USE DEF TypeOK, RoundInv, loopVars, workVars, envVars, SetStatus, Goto, Leave, Stay
<1>1. ASSUME NEW p \in Prompts, Insert(p) PROVE RoundInv'
  <2>1. ASSUME NEW x, WaitBehind(x) PROVE WaitBehind(x)'
    <3>1. CASE Merges(p)
      BY <1>1, <2>1, <3>1, MergedBehind DEF Insert, Merges
    <3>2. CASE ~Merges(p)
      <4> DEFINE t == [id |-> p, body |-> {p}, open |-> TRUE,
                       kind |-> IF p \in SystemPrompts THEN "system" ELSE "user"]
      <4>1. t \in Tx /\ t.id = p /\ ~Used(p) /\ t.open /\ t.body # {}
        BY <1>1 DEF Insert, Fresh, Unused, Tx, TxIds
      <4>2. txs' = Append(txs, t)
        BY <1>1, <3>2 DEF Insert
      <4> HIDE DEF t
      <4> QED
        BY <2>1, <4>1, <4>2, AppendedBehind
    <3> QED
      BY <3>1, <3>2
  <2> QED
    BY <1>1, <2>1 DEF Insert
<1>2. ASSUME NEW w \in Prompts, Respond(w) PROVE RoundInv'
  <2>1. WaitBehind(active[w])'
    BY <1>2, RespondedBehind DEF Respond, Holding
  <2>2. \A v \in Prompts : v # w => pc[v] \notin Holding
    BY <1>2 DEF Alone, AtMostOneWorker, InLoop, Respond, Holding
  <2> QED
    BY <1>2, <2>1, <2>2 DEF Respond, Holding
<1>3. ASSUME NEW w \in Prompts, Claim(w) PROVE RoundInv'
  <2>1. txs # <<>>
    BY DEF Fresh, Unused
  <2>2. WaitBehind(LastId)
    BY <2>1, NewestBehind
  <2>3. WaitBehind(LastId)' /\ active' = [active EXCEPT ![w] = LastId]
    BY <1>3, <2>2 DEF Claim, WaitBehind, LastId, NewestTx
  <2>4. \A x : WaitBehind(x) => WaitBehind(x)'
    BY <1>3 DEF Claim, WaitBehind
  <2> HIDE DEF WaitBehind
  <2>5. LastId' = LastId
    BY <1>3 DEF Claim, LastId, NewestTx
  <2> QED
    BY <1>3, <2>3, <2>4, <2>5 DEF Claim, Holding
<1>4. ASSUME UNCHANGED txs, clearer' = "ready",
             \A w \in Prompts :
                /\ pc'[w] \in Holding => pc[w] \in Holding /\ active'[w] = active[w]
                /\ pc'[w] \in {"finish", "guard"} => last'[w] = active'[w]
      PROVE  RoundInv'
  <2>1. \A x : WaitBehind(x) => WaitBehind(x)'
    BY <1>4 DEF WaitBehind
  <2> HIDE DEF WaitBehind
  <2> QED
    BY <1>4, <2>1
<1>5. ASSUME NEW p \in Prompts,
             Trigger(p) \/ StartCheck(p) \/ ClaimIdle(p) \/ ClaimWaiting(p)
      PROVE  RoundInv'
  BY <1>4, <1>5 DEF Trigger, StartCheck, ClaimIdle, ClaimWaiting, Exchange, Holding
<1>6. ASSUME NEW w \in Prompts,
             Top(w) \/ SetThinking(w) \/ StreamEnds(w) \/ CallTool(w)
      PROVE  RoundInv'
  BY <1>4, <1>6 DEF Top, SetThinking, StreamEnds, CallTool, Holding
<1>7. ASSUME NEW w \in Prompts,
             ToolBlocks(w) \/ ToolUnblocks(w) \/ ToolEnds(w)
      PROVE  RoundInv'
  BY <1>4, <1>7 DEF ToolBlocks, ToolUnblocks, ToolEnds, Holding
<1>8. ASSUME NEW w \in Prompts, Answered(w) \/ DrainGuard(w) PROVE RoundInv'
  <2>1. CASE Answered(w)
    BY <1>4, <2>1 DEF Answered, Holding
  <2>2. CASE DrainGuard(w)
    <3>1. UNCHANGED txs /\ clearer' = "ready"
      BY <2>2 DEF DrainGuard
    <3>2. \A v \in Prompts \ {w} :
            pc'[v] = pc[v] /\ active'[v] = active[v] /\ last'[v] = last[v]
      BY <2>2 DEF DrainGuard
    <3>3. pc'[w] \in {"top", "gone"}
      BY <2>2 DEF DrainGuard
    <3> QED
      BY <1>4, <3>1, <3>2, <3>3 DEF Holding
  <2> QED
    BY <1>8, <2>1, <2>2
<1>9. ASSUME NEW w \in Prompts, Finish(w) PROVE RoundInv'
  BY <1>4, <1>9 DEF Finish, Holding
<1>10. ASSUME NEW w \in Prompts PROVE ~Create(w)
  BY DEF Fresh, Unused, Create
<1>11. CASE Close \/ MarkDead \/ Waiting \/ UNCHANGED vars
  BY <1>4, <1>11 DEF Close, MarkDead, Waiting, WaitCall, WaitCheck, vars
<1>12. ~Clearing
  BY DEF Clearing, ClearStatus, ClearHistory, ClearNotice
<1> QED
  BY <1>1, <1>2, <1>3, <1>5, <1>6, <1>7, <1>8, <1>9, <1>10, <1>11, <1>12
     DEF Next, Submitter, Worker

\* With one worker and no notices a worker goes round again only for a message that
\* waits: the re-checks of start_processing never ask the model for nothing.
THEOREM RoundsAreForMessages ==
    ASSUME ~CanWait, ~MayClear, Notices = {}
    PROVE  Spec => LoopsOnlyForMessages
<1>1. Init => Alone /\ Fresh /\ RoundInv
  <2> SUFFICES ASSUME Init PROVE Alone /\ Fresh /\ RoundInv
    OBVIOUS
  <2> USE LoopAssumption, TxAssumption DEF Init
  <2>1. Alone /\ RoundInv
    BY DEF Alone, AtMostOneWorker, InLoop, RoundInv, Holding
  <2>2. Fresh
    BY DEF Fresh, Unused, Started, Owned, Used, SpecialTx
  <2> QED
    BY <2>1, <2>2
<1>2. TypeOK /\ Alone /\ Fresh /\ RoundInv /\ [Next]_vars => Alone' /\ Fresh' /\ RoundInv'
  BY AloneStep, FreshStep, RoundStep
<1>3. TypeOK /\ Alone /\ RoundInv /\ [Next]_vars =>
        [\A w \in Prompts :
           pc[w] \in {"answered", "guard"} /\ pc'[w] = "top" => Backlog # {}]_vars
  <2> SUFFICES ASSUME TypeOK, Alone, RoundInv, Next, NEW w \in Prompts,
                      pc[w] \in {"answered", "guard"}, pc'[w] = "top"
               PROVE  Backlog # {}
    BY DEF vars
  <2>1. Answered(w) \/ DrainGuard(w)
    <3> USE DEF TypeOK, Goto, Leave, Stay, loopVars, envVars, workVars
    <3>1. ASSUME NEW p \in Prompts, Submitter(p) PROVE FALSE
      BY <3>1 DEF Submitter, Insert, Trigger, StartCheck, ClaimIdle, ClaimWaiting, Exchange,
                  Alone, InLoop
    <3>2. ASSUME NEW v \in Prompts, Worker(v) PROVE v = w
      BY <3>2 DEF Worker, Top, SetThinking, Claim, Create, Respond, StreamEnds, CallTool,
                  ToolBlocks, ToolUnblocks, ToolEnds, Answered, Finish, DrainGuard
    <3>3. ASSUME Worker(w) PROVE Answered(w) \/ DrainGuard(w)
      BY <3>3 DEF Worker, Top, SetThinking, Claim, Create, Respond, StreamEnds, CallTool,
                  ToolBlocks, ToolUnblocks, ToolEnds, Finish
    <3>4. ~(Close \/ MarkDead \/ Clearing \/ Waiting) /\ \A n \in Notices : ~Notify(n)
      BY DEF Close, MarkDead, Clearing, ClearStatus, ClearHistory, ClearNotice, Waiting, WaitCall,
             WaitCheck, Notify
    <3> QED
      BY <3>1, <3>2, <3>3, <3>4 DEF Next
  <2>2. txs # <<>> /\ LastId # active[w]
    BY <2>1 DEF Answered, DrainGuard, RoundInv, Goto, Leave, Stay, TypeOK
  <2> QED
    BY <2>2, BehindWaits DEF RoundInv, Holding
<1>4. Spec => [][\A w \in Prompts :
           pc[w] \in {"answered", "guard"} /\ pc'[w] = "top" => Backlog # {}]_vars
  BY <1>1, <1>2, <1>3, TypeCorrect, PTL DEF Spec
<1> QED
  BY <1>4 DEF LoopsOnlyForMessages

-----------------------------------------------------------------------------
(***************************************************************************)
(* The run loop of an agent implements MessageQueue, as long as nobody     *)
(* clears the conversation: every step hands over one message, covers some *)
(* that wait, or is a stutter.                                             *)
(*                                                                         *)
(* The argument needs that a message in the conversation was submitted and *)
(* that notices carry no message (QueueInv); then the messages in the      *)
(* conversation are the visible ones, and each change of txs is one of     *)
(* three: a transaction appended, a message merged, a response added.      *)
(***************************************************************************)

Inside(m) == \E i \in DOMAIN txs : m \in txs[i].body

QueueInv ==
    /\ clearer = "ready"
    /\ \A m \in Prompts : Inside(m) => sub[m] # "new"
    /\ \A i \in DOMAIN txs : txs[i].kind = "ui" => txs[i].body = {}

\* The mapped variables, as sets of messages.
LEMMA Mapped ==
    ASSUME TypeOK, QueueInv
    PROVE  /\ Visible = {m \in Prompts : Inside(m)}
           /\ Backlog = {m \in Prompts : Pending(m)}
<1>1. \A i \in DOMAIN txs : txs[i] \in Tx
  BY DEF TypeOK
<1>2. \A i \in DOMAIN txs : txs[i].body \subseteq Prompts
  BY <1>1 DEF Tx
<1>3. Visible = {m \in Prompts : Inside(m)}
  BY <1>2 DEF Visible, Inside, QueueInv
<1>4. Backlog = {m \in Prompts : Pending(m)}
  BY <1>2 DEF Backlog, Pending
<1> QED
  BY <1>3, <1>4

\* A message that waits is in the conversation.
LEMMA Waits ==
    ASSUME TypeOK, NEW m, Pending(m)
    PROVE  Inside(m)
BY DEF Pending, Inside

\* A transaction without a response appended: its messages wait, the others stay
\* what they were.
LEMMA AppendedExactly ==
    ASSUME TypeOK, NEW t \in Tx, t.open, txs' = Append(txs, t)
    PROVE  /\ \A m : Inside(m)' <=> Inside(m) \/ m \in t.body
           /\ \A m : Pending(m)' <=> Pending(m) \/ m \in t.body
           /\ (\A i \in DOMAIN txs : txs[i].kind = "ui" => txs[i].body = {})
                /\ (t.kind = "ui" => t.body = {})
                => \A i \in DOMAIN txs' : txs'[i].kind = "ui" => txs'[i].body = {}
<1>1. txs \in Seq(Tx) /\ Len(txs) \in Nat /\ DOMAIN txs = 1..Len(txs)
  BY DEF TypeOK
<1>2. /\ DOMAIN txs' = 1..(Len(txs) + 1) /\ Len(txs') = Len(txs) + 1
      /\ txs'[Len(txs) + 1] = t
      /\ \A i \in 1..Len(txs) : txs'[i] = txs[i]
  BY <1>1, AppendTx
<1>3. ASSUME NEW m PROVE Inside(m)' <=> Inside(m) \/ m \in t.body
  BY <1>1, <1>2 DEF Inside
<1>4. ASSUME NEW m, Pending(m)' PROVE Pending(m) \/ m \in t.body
  <2>1. PICK i \in DOMAIN txs' : m \in txs'[i].body /\ \A k \in i..Len(txs') : txs'[k].open
    BY <1>4 DEF Pending
  <2>2. CASE i = Len(txs) + 1
    BY <1>2, <2>1, <2>2
  <2>3. CASE i # Len(txs) + 1
    <3>1. i \in 1..Len(txs) /\ m \in txs[i].body
      BY <1>1, <1>2, <2>1, <2>3
    <3>2. \A k \in i..Len(txs) : txs[k].open
      BY <1>1, <1>2, <2>1, <3>1
    <3> QED
      BY <1>1, <3>1, <3>2 DEF Pending
  <2> QED
    BY <2>2, <2>3
<1>5. ASSUME NEW m, Pending(m) \/ m \in t.body PROVE Pending(m)'
  <2>1. CASE m \in t.body
    BY <1>1, <1>2, <2>1 DEF Pending
  <2>2. CASE Pending(m)
    <3>1. PICK i \in DOMAIN txs : m \in txs[i].body /\ \A k \in i..Len(txs) : txs[k].open
      BY <2>2 DEF Pending
    <3>2. i \in DOMAIN txs' /\ m \in txs'[i].body
      BY <1>1, <1>2, <3>1
    <3>3. \A k \in i..Len(txs') : txs'[k].open
      BY <1>1, <1>2, <3>1
    <3> QED
      BY <3>2, <3>3 DEF Pending
  <2> QED
    BY <1>5, <2>1, <2>2
<1>6. (\A i \in DOMAIN txs : txs[i].kind = "ui" => txs[i].body = {})
        /\ (t.kind = "ui" => t.body = {})
        => \A i \in DOMAIN txs' : txs'[i].kind = "ui" => txs'[i].body = {}
  BY <1>1, <1>2
<1> QED
  BY <1>3, <1>4, <1>5, <1>6

\* A message merged into the newest transaction, which has no response: it waits.
LEMMA MergedExactly ==
    ASSUME TypeOK, NEW p \in Prompts, txs # <<>>, NewestTx.open, NewestTx.kind = "system",
           txs' = [txs EXCEPT ![Len(txs)].body = @ \cup {p}]
    PROVE  /\ \A m : Inside(m)' <=> Inside(m) \/ m = p
           /\ \A m : Pending(m)' <=> Pending(m) \/ m = p
           /\ (\A i \in DOMAIN txs : txs[i].kind = "ui" => txs[i].body = {})
                => \A i \in DOMAIN txs' : txs'[i].kind = "ui" => txs'[i].body = {}
<1>1. /\ txs \in Seq(Tx) /\ Len(txs) \in Nat /\ DOMAIN txs = 1..Len(txs)
      /\ Len(txs) \in DOMAIN txs /\ \A i \in 1..Len(txs) : txs[i] \in Tx
  BY DEF TypeOK
<1>2. /\ DOMAIN txs' = 1..Len(txs) /\ Len(txs') = Len(txs)
      /\ \A i \in 1..Len(txs) : i # Len(txs) => txs'[i] = txs[i]
      /\ \A i \in 1..Len(txs) : txs'[i].open = txs[i].open /\ txs'[i].kind = txs[i].kind
      /\ txs'[Len(txs)].body = txs[Len(txs)].body \cup {p}
  <2>1. DOMAIN txs' = DOMAIN txs /\ txs' \in Seq(Tx)
    BY <1>1, MergeTx
  <2>2. ASSUME NEW i \in 1..Len(txs), i # Len(txs) PROVE txs'[i] = txs[i]
    BY <1>1, <2>2
  <2>3. txs'[Len(txs)] = [txs[Len(txs)] EXCEPT !.body = @ \cup {p}]
    BY <1>1
  <2>4. /\ txs'[Len(txs)].kind = txs[Len(txs)].kind /\ txs'[Len(txs)].open = txs[Len(txs)].open
        /\ txs'[Len(txs)].body = txs[Len(txs)].body \cup {p}
    BY <1>1, <2>3 DEF Tx
  <2> QED
    BY <1>1, <2>1, <2>2, <2>4
<1>3. txs[Len(txs)].open /\ txs[Len(txs)].kind = "system"
  BY DEF NewestTx
<1>4. ASSUME NEW m PROVE Inside(m)' <=> Inside(m) \/ m = p
  BY <1>1, <1>2 DEF Inside
<1>5. ASSUME NEW m PROVE Pending(m)' <=> Pending(m) \/ m = p
  <2>1. Pending(p)'
    BY <1>1, <1>2, <1>3 DEF Pending
  <2>2. m # p => (Pending(m)' <=> Pending(m))
    BY <1>1, <1>2 DEF Pending
  <2> QED
    BY <2>1, <2>2
<1>6. (\A i \in DOMAIN txs : txs[i].kind = "ui" => txs[i].body = {})
        => \A i \in DOMAIN txs' : txs'[i].kind = "ui" => txs'[i].body = {}
  BY <1>1, <1>2, <1>3
<1> QED
  BY <1>4, <1>5, <1>6

\* A response turn: no message comes or goes, and no covered one waits again.
LEMMA RespondedExactly ==
    ASSUME TypeOK, NEW a, txs' = AddTurn(txs, a)
    PROVE  /\ \A m : Inside(m)' <=> Inside(m)
           /\ \A m : Pending(m)' => Pending(m)
           /\ (\A i \in DOMAIN txs : txs[i].kind = "ui" => txs[i].body = {})
                => \A i \in DOMAIN txs' : txs'[i].kind = "ui" => txs'[i].body = {}
<1>1. /\ txs \in Seq(Tx) /\ Len(txs) \in Nat /\ DOMAIN txs = 1..Len(txs)
      /\ \A i \in 1..Len(txs) : txs[i] \in Tx
  BY DEF TypeOK
<1>2. /\ DOMAIN txs' = 1..Len(txs)
      /\ \A i \in 1..Len(txs) : txs'[i].body = txs[i].body
  BY <1>1, RespondTx
<1>3. \A i \in 1..Len(txs) : txs'[i].kind = txs[i].kind
  BY <1>1 DEF AddTurn, Tx
<1>4. \A m : Pending(m)' => Pending(m)
  BY Responded
<1> QED
  BY <1>1, <1>2, <1>3, <1>4 DEF Inside

-----------------------------------------------------------------------------
(* What a step does to the waiting and the covered messages.               *)

Keeps ==
    /\ \A m : Inside(m)' <=> Inside(m)
    /\ \A m : Pending(m)' <=> Pending(m)

Hands(p) ==
    /\ ~Inside(p)
    /\ \A m : Inside(m)' <=> Inside(m) \/ m = p
    /\ \A m : Pending(m)' <=> Pending(m) \/ m = p

Covers ==
    /\ \A m : Inside(m)' <=> Inside(m)
    /\ \A m : Pending(m)' => Pending(m)

\* A message submitted, on its own or merged into a system injection, is handed over.
LEMMA InsertHands ==
    ASSUME TypeOK, QueueInv, NEW p \in Prompts, Insert(p)
    PROVE  Hands(p) /\ QueueInv'
<1> DEFINE t == [id |-> p, body |-> {p}, open |-> TRUE,
                 kind |-> IF p \in SystemPrompts THEN "system" ELSE "user"]
<1>1. /\ sub[p] = "new" /\ sub' = [sub EXCEPT ![p] = "inserted"]
      /\ txs' = IF Merges(p) THEN [txs EXCEPT ![Len(txs)].body = @ \cup {p}] ELSE Append(txs, t)
      /\ clearer' = clearer
  BY DEF Insert, envVars
<1>2. ~Inside(p)
  BY <1>1 DEF QueueInv
<1>3. /\ \A m : Inside(m)' <=> Inside(m) \/ m = p
      /\ \A m : Pending(m)' <=> Pending(m) \/ m = p
      /\ \A i \in DOMAIN txs' : txs'[i].kind = "ui" => txs'[i].body = {}
  <2>1. CASE Merges(p)
    BY <1>1, <2>1, MergedExactly DEF Merges, QueueInv
  <2>2. CASE ~Merges(p)
    <3>1. t \in Tx /\ t.open /\ t.kind # "ui" /\ t.body = {p}
      BY DEF Tx, TxIds
    <3>2. txs' = Append(txs, t)
      BY <1>1, <2>2
    <3> HIDE DEF t
    <3>3. /\ \A m : Inside(m)' <=> Inside(m) \/ m \in t.body
          /\ \A m : Pending(m)' <=> Pending(m) \/ m \in t.body
          /\ \A i \in DOMAIN txs' : txs'[i].kind = "ui" => txs'[i].body = {}
      BY <3>1, <3>2, AppendedExactly DEF QueueInv
    <3> QED
      BY <3>1, <3>3
  <2> QED
    BY <2>1, <2>2
<1>4. \A m \in Prompts : Inside(m)' => sub'[m] # "new"
  BY <1>1, <1>3 DEF QueueInv, TypeOK
<1> QED
  BY <1>1, <1>2, <1>3, <1>4 DEF Hands, QueueInv

\* A notice, or the transaction a worker makes in an empty episode, has no message.
LEMMA EmptyKeeps ==
    ASSUME TypeOK, QueueInv, NEW t \in Tx, t.open, t.body = {}, txs' = Append(txs, t),
           UNCHANGED <<sub, clearer>>
    PROVE  Keeps /\ QueueInv'
<1>1. /\ \A m : Inside(m)' <=> Inside(m) \/ m \in t.body
      /\ \A m : Pending(m)' <=> Pending(m) \/ m \in t.body
      /\ \A i \in DOMAIN txs' : txs'[i].kind = "ui" => txs'[i].body = {}
  BY AppendedExactly DEF QueueInv
<1> QED
  BY <1>1 DEF Keeps, QueueInv

\* Both cases: add_interaction ...
LEMMA NotifyKeeps ==
    ASSUME TypeOK, QueueInv, NEW n \in Notices, Notify(n)
    PROVE  Keeps /\ QueueInv'
<1> DEFINE t == [id |-> n, kind |-> "ui", body |-> {}, open |-> TRUE]
<1>1. t \in Tx /\ t.open /\ t.body = {}
  BY DEF Tx, TxIds
<1>2. txs' = Append(txs, t) /\ UNCHANGED <<sub, clearer>>
  BY DEF Notify, envVars
<1> HIDE DEF t
<1> QED
  BY <1>1, <1>2, EmptyKeeps

\* ... and the first transaction of a worker.
LEMMA CreateKeeps ==
    ASSUME TypeOK, QueueInv, NEW w \in Prompts, Create(w)
    PROVE  Keeps /\ QueueInv'
<1> DEFINE t == [id |-> FreshTx(w), kind |-> "user", body |-> {}, open |-> TRUE]
<1>1. t \in Tx /\ t.open /\ t.body = {}
  BY DEF Tx, TxIds, SpecialTx
<1>2. (UNCHANGED txs \/ txs' = Append(txs, t)) /\ UNCHANGED <<sub, clearer>>
  BY DEF Create, envVars
<1> HIDE DEF t
<1>3. CASE UNCHANGED txs
  BY <1>2, <1>3 DEF Keeps, Inside, Pending, QueueInv
<1> QED
  BY <1>1, <1>2, <1>3, EmptyKeeps

\* A response turn covers what was waiting up to its transaction.
LEMMA RespondCovers ==
    ASSUME TypeOK, QueueInv, NEW w \in Prompts, Respond(w)
    PROVE  Covers /\ QueueInv'
<1>1. txs' = AddTurn(txs, active[w]) /\ UNCHANGED <<sub, clearer>>
  BY DEF Respond, envVars
<1>2. /\ \A m : Inside(m)' <=> Inside(m)
      /\ \A m : Pending(m)' => Pending(m)
      /\ \A i \in DOMAIN txs' : txs'[i].kind = "ui" => txs'[i].body = {}
  BY <1>1, RespondedExactly DEF QueueInv
<1> QED
  BY <1>1, <1>2 DEF Covers, QueueInv

\* All other steps leave the conversation alone, and a message that was submitted
\* stays so.
LEMMA OthersKeep ==
    ASSUME ~MayClear, TypeOK, QueueInv, [Next]_vars,
           \A p \in Prompts : ~Insert(p) /\ ~Create(p) /\ ~Respond(p),
           \A n \in Notices : ~Notify(n)
    PROVE  Keeps /\ QueueInv'
<1>1. txs' = txs /\ clearer' = clearer
  BY DEF Next, vars, loopVars, workVars, envVars, QueueInv, Submitter, Trigger, StartCheck,
         ClaimIdle, ClaimWaiting, Exchange, Worker, Top, SetThinking, Claim, StreamEnds, CallTool,
         ToolBlocks, ToolUnblocks, ToolEnds, Answered, Finish, DrainGuard, Close, MarkDead,
         Clearing, ClearStatus, ClearHistory, ClearNotice, Waiting, WaitCall, WaitCheck
<1>2. \A m \in Prompts : sub[m] # "new" => sub'[m] # "new"
  BY DEF TypeOK, Next, vars, loopVars, workVars, envVars, Submitter, Trigger, StartCheck,
         ClaimIdle, ClaimWaiting, Exchange, Worker, Top, SetThinking, Claim, StreamEnds, CallTool,
         ToolBlocks, ToolUnblocks, ToolEnds, Answered, Finish, DrainGuard, Close, MarkDead,
         Clearing, ClearStatus, ClearHistory, ClearNotice, Waiting, WaitCall, WaitCheck
<1> QED
  BY <1>1, <1>2 DEF Keeps, QueueInv, Inside, Pending

\* Every step hands over one message or lets none wait that did not.
LEMMA QueueSteps ==
    ASSUME ~MayClear, TypeOK, QueueInv, [Next]_vars
    PROVE  /\ QueueInv'
           /\ (\E p \in Prompts : Hands(p)) \/ Covers
<1>1. Keeps => Covers
  BY DEF Keeps, Covers
<1> QED
  BY <1>1, InsertHands, NotifyKeeps, CreateKeeps, RespondCovers, OthersKeep

-----------------------------------------------------------------------------
\* A step of the run loop is a step of the queue or a stutter.
LEMMA QueueStep ==
    ASSUME ~MayClear, TypeOK, TypeOK', QueueInv, [Next]_vars
    PROVE  [Queue!Next]_(Queue!vars)
<1>1. /\ Visible = {m \in Prompts : Inside(m)} /\ Backlog = {m \in Prompts : Pending(m)}
      /\ Visible' = {m \in Prompts : Inside(m)'} /\ Backlog' = {m \in Prompts : Pending(m)'}
  <2>1. QueueInv'
    BY QueueSteps
  <2>2. \A i \in DOMAIN txs' : txs'[i] \in Tx
    BY DEF TypeOK
  <2>3. \A i \in DOMAIN txs' : txs'[i].body \subseteq Prompts
    BY <2>2 DEF Tx
  <2>4. Visible' = {m \in Prompts : Inside(m)'}
    BY <2>1, <2>3 DEF Visible, Inside, QueueInv
  <2>5. Backlog' = {m \in Prompts : Pending(m)'}
    BY <2>3 DEF Backlog, Pending
  <2> QED
    BY <2>4, <2>5, Mapped
<1>2. \A m \in Prompts : Pending(m) => Inside(m)
  BY Waits
<1>3. ASSUME NEW p \in Prompts, Hands(p) PROVE Queue!Hand(p)
  <2>1. Visible' = Visible \cup {p} /\ Backlog' = Backlog \cup {p}
    BY <1>1, <1>3 DEF Hands
  <2>2. p \notin Visible /\ p \notin Backlog
    BY <1>1, <1>2, <1>3 DEF Hands
  <2> QED
    BY <2>1, <2>2 DEF Queue!Hand
<1>4. ASSUME Covers PROVE Queue!Next \/ UNCHANGED <<Backlog, Visible \ Backlog>>
  <2>1. Visible' = Visible /\ Backlog' \subseteq Backlog /\ Backlog \subseteq Visible
    BY <1>1, <1>2, <1>4 DEF Covers
  <2> DEFINE ms == Backlog \ Backlog'
  <2>2. CASE ms = {}
    BY <2>1, <2>2
  <2>3. CASE ms # {}
    <3>1. Queue!Cover(ms)
      BY <2>1, <2>3 DEF Queue!Cover
    <3>2. ms \in SUBSET Backlog
      BY <2>1
    <3> QED
      BY <3>1, <3>2 DEF Queue!Next
  <2> QED
    BY <2>2, <2>3
<1> QED
  BY <1>3, <1>4, QueueSteps DEF Queue!Next, Queue!vars

\* If nobody clears the conversation, the run loop implements the queue: no message
\* is handed over twice, waits again once covered, or disappears (inject_context,
\* start_processing), however submissions, merging and workers interleave.
THEOREM QueueRefined ==
    ASSUME ~MayClear
    PROVE  Spec => QueueSpec
<1>1. Init => QueueInv /\ Queue!Init
  <2> SUFFICES ASSUME Init PROVE QueueInv /\ Queue!Init
    OBVIOUS
  <2>1. \A i \in DOMAIN txs : txs[i].body = {}
    BY DEF Init
  <2>2. QueueInv
    BY <2>1 DEF Init, QueueInv, Inside
  <2>3. Visible = {} /\ Backlog = {}
    BY <2>1 DEF Visible, Backlog
  <2> QED
    BY <2>2, <2>3 DEF Queue!Init
<1>2. TypeOK /\ QueueInv /\ [Next]_vars => QueueInv'
  BY QueueSteps
<1>3. TypeOK /\ TypeOK' /\ QueueInv /\ [Next]_vars => [Queue!Next]_(Queue!vars)
  BY QueueStep
<1> QED
  BY <1>1, <1>2, <1>3, TypeCorrect, PTL DEF Spec, QueueSpec, Queue!Spec

-----------------------------------------------------------------------------
(***************************************************************************)
(* The one way a message is left out of every request: it came between a   *)
(* worker's copy of the conversation and its response turn.                *)
(*                                                                         *)
(* Two facts carry it (Carried): a worker in that window holds a copy that *)
(* lacks only such messages, and a visible message that is neither shown   *)
(* nor one of them still waits.  An agent at rest has none that waits      *)
(* (DrainedWhenIdle).  Clearing the conversation is allowed.               *)
(***************************************************************************)

Carried ==
    /\ \A w \in Prompts : pc[w] \in Window => Visible \subseteq seen[w] \cup swallowed
    /\ \A m \in Visible : m \in shown \cup swallowed \/ Pending(m)

\* An appended transaction makes its own messages visible at most.
LEMMA VisibleAppended ==
    ASSUME TypeOK, NEW t \in Tx, txs' = Append(txs, t)
    PROVE  Visible \subseteq Visible' /\ Visible' \subseteq Visible \cup t.body
<1>1. txs \in Seq(Tx) /\ Len(txs) \in Nat /\ DOMAIN txs = 1..Len(txs)
  BY DEF TypeOK
<1>2. /\ DOMAIN txs' = 1..(Len(txs) + 1)
      /\ txs'[Len(txs) + 1] = t
      /\ \A i \in 1..Len(txs) : txs'[i] = txs[i]
  BY <1>1, AppendTx
<1> QED
  BY <1>1, <1>2 DEF Visible

\* A merge makes one message visible at most.
LEMMA VisibleMerged ==
    ASSUME TypeOK, NEW p \in Prompts, txs # <<>>,
           txs' = [txs EXCEPT ![Len(txs)].body = @ \cup {p}]
    PROVE  Visible' \subseteq Visible \cup {p}
<1>1. /\ txs \in Seq(Tx) /\ Len(txs) \in Nat /\ DOMAIN txs = 1..Len(txs)
      /\ Len(txs) \in DOMAIN txs /\ \A i \in 1..Len(txs) : txs[i] \in Tx
  BY DEF TypeOK
<1>2. /\ DOMAIN txs' = 1..Len(txs)
      /\ \A i \in 1..Len(txs) : txs'[i].kind = txs[i].kind /\ txs'[i].body \subseteq txs[i].body \cup {p}
  <2>1. DOMAIN txs' = DOMAIN txs
    BY <1>1, MergeTx
  <2>2. ASSUME NEW i \in 1..Len(txs), i # Len(txs) PROVE txs'[i] = txs[i]
    BY <1>1, <2>2
  <2>3. txs'[Len(txs)] = [txs[Len(txs)] EXCEPT !.body = @ \cup {p}]
    BY <1>1
  <2>4. /\ txs'[Len(txs)].kind = txs[Len(txs)].kind
        /\ txs'[Len(txs)].body = txs[Len(txs)].body \cup {p}
    BY <1>1, <2>3 DEF Tx
  <2> QED
    BY <1>1, <2>1, <2>2, <2>4
<1> QED
  BY <1>1, <1>2 DEF Visible

\* A response turn makes none.
LEMMA VisibleResponded ==
    ASSUME TypeOK, NEW a, txs' = AddTurn(txs, a)
    PROVE  Visible' \subseteq Visible
<1>1. /\ txs \in Seq(Tx) /\ Len(txs) \in Nat /\ DOMAIN txs = 1..Len(txs)
      /\ \A i \in 1..Len(txs) : txs[i] \in Tx
  BY DEF TypeOK
<1>2. /\ DOMAIN txs' = 1..Len(txs)
      /\ \A i \in 1..Len(txs) : txs'[i].body = txs[i].body
  BY <1>1, RespondTx
<1>3. \A i \in 1..Len(txs) : txs'[i].kind = txs[i].kind
  BY <1>1 DEF AddTurn, Tx
<1> QED
  BY <1>1, <1>2, <1>3 DEF Visible

-----------------------------------------------------------------------------
\* A message submitted waits, and is marked when a worker is in its window.
LEMMA InsertCarries ==
    ASSUME TypeOK, Carried, NEW p \in Prompts, Insert(p)
    PROVE  Carried'
<1> DEFINE t == [id |-> p, body |-> {p}, open |-> TRUE,
                 kind |-> IF p \in SystemPrompts THEN "system" ELSE "user"]
<1>1. /\ txs' = IF Merges(p) THEN [txs EXCEPT ![Len(txs)].body = @ \cup {p}] ELSE Append(txs, t)
      /\ swallowed' = IF \E w \in Prompts : pc[w] \in Window THEN swallowed \cup {p} ELSE swallowed
      /\ pc' = pc /\ seen' = seen /\ shown' = shown
  BY DEF Insert, workVars
<1>2. /\ Visible' \subseteq Visible \cup {p}
      /\ \A m : Pending(m)' <=> Pending(m) \/ m = p
  <2>1. CASE Merges(p)
    BY <1>1, <2>1, MergedExactly, VisibleMerged DEF Merges
  <2>2. CASE ~Merges(p)
    <3>1. t \in Tx /\ t.open /\ t.body = {p}
      BY DEF Tx, TxIds
    <3>2. txs' = Append(txs, t)
      BY <1>1, <2>2
    <3> HIDE DEF t
    <3>3. \A m : Pending(m)' <=> Pending(m) \/ m \in t.body
      BY <3>1, <3>2, AppendedExactly
    <3>4. Visible' \subseteq Visible \cup t.body
      BY <3>1, <3>2, VisibleAppended
    <3> QED
      BY <3>1, <3>3, <3>4
  <2> QED
    BY <2>1, <2>2
<1> QED
  BY <1>1, <1>2 DEF Carried

\* A transaction without a message changes nothing.
LEMMA EmptyCarries ==
    ASSUME TypeOK, Carried, NEW t \in Tx, t.open, t.body = {}, txs' = Append(txs, t),
           UNCHANGED <<seen, shown, swallowed>>,
           \A w \in Prompts : pc'[w] \in Window => pc[w] \in Window
    PROVE  Carried'
<1>1. Visible' \subseteq Visible
  BY VisibleAppended
<1>2. \A m : Pending(m)' <=> Pending(m)
  BY AppendedExactly
<1> QED
  BY <1>1, <1>2 DEF Carried

\* add_interaction and the last step of clear_conversation.
LEMMA NoticeCarries ==
    ASSUME TypeOK, Carried, NEW x \in TxIds,
           txs' = Append(txs, [id |-> x, kind |-> "ui", body |-> {}, open |-> TRUE]),
           UNCHANGED <<pc, seen, shown, swallowed>>
    PROVE  Carried'
<1> DEFINE t == [id |-> x, kind |-> "ui", body |-> {}, open |-> TRUE]
<1>1. t \in Tx /\ t.open /\ t.body = {} /\ txs' = Append(txs, t)
  BY DEF Tx
<1> HIDE DEF t
<1> QED
  BY <1>1, EmptyCarries

\* The first transaction of a worker whose episode is empty.
LEMMA CreateCarries ==
    ASSUME TypeOK, Carried, NEW w \in Prompts, Create(w)
    PROVE  Carried'
<1> DEFINE t == [id |-> FreshTx(w), kind |-> "user", body |-> {}, open |-> TRUE]
<1>1. t \in Tx /\ t.open /\ t.body = {}
  BY DEF Tx, TxIds, SpecialTx
<1>2. (UNCHANGED txs \/ txs' = Append(txs, t)) /\ UNCHANGED <<seen, shown, swallowed>>
  BY DEF Create
<1>3. \A v \in Prompts : pc'[v] \in Window => pc[v] \in Window
  BY DEF Create, Goto, Window, TypeOK
<1> HIDE DEF t
<1>4. ASSUME UNCHANGED txs PROVE Visible' = Visible /\ \A m : Pending(m)' <=> Pending(m)
  BY <1>4 DEF Visible, Pending
<1>5. CASE UNCHANGED txs
  BY <1>2, <1>3, <1>4, <1>5 DEF Carried
<1> QED
  BY <1>1, <1>2, <1>3, <1>5, EmptyCarries

\* The response turn: the request carried all that is visible but the marked ones.
LEMMA RespondCarries ==
    ASSUME TypeOK, Carried, NEW w \in Prompts, Respond(w)
    PROVE  Carried'
<1>1. /\ pc[w] \in Window /\ txs' = AddTurn(txs, active[w])
      /\ shown' = shown \cup seen[w] /\ swallowed' = swallowed
  BY DEF Respond, Window
<1>2. \A v \in Prompts : pc'[v] \in Window => pc[v] \in Window /\ seen'[v] = seen[v]
  BY DEF Respond, Goto, Window, TypeOK
<1>3. Visible' \subseteq Visible
  BY <1>1, VisibleResponded
<1>4. Visible \subseteq seen[w] \cup swallowed
  BY <1>1 DEF Carried
<1> QED
  BY <1>1, <1>2, <1>3, <1>4 DEF Carried

\* The copy a worker takes at the top of its loop has every visible message.
LEMMA TopCarries ==
    ASSUME TypeOK, Carried, NEW w \in Prompts, Top(w)
    PROVE  Carried'
<1>1. txs' = txs /\ shown' = shown /\ swallowed' = swallowed
  BY DEF Top, loopVars
<1>2. \A v \in Prompts : v # w => pc'[v] = pc[v] /\ seen'[v] = seen[v]
  BY DEF Top, Leave, Stay, Goto, TypeOK
<1>3. pc'[w] \in Window => seen'[w] = Visible
  BY DEF Top, Leave, Stay, Goto, TypeOK, Window
<1>4. Visible' = Visible /\ \A m : Pending(m)' <=> Pending(m)
  BY <1>1 DEF Visible, Pending
<1> QED
  BY <1>1, <1>2, <1>3, <1>4 DEF Carried

\* Clearing leaves nothing visible.
LEMMA ClearCarries ==
    ASSUME TypeOK, Carried, ClearHistory
    PROVE  Carried'
<1>1. \A i \in DOMAIN txs' : txs'[i].body = {}
  BY DEF ClearHistory
<1>2. Visible' = {}
  BY <1>1 DEF Visible
<1> QED
  BY <1>2 DEF Carried

\* The other steps leave conversation, copies and history alone, and bring no
\* worker into its window.
LEMMA OthersCarry ==
    ASSUME TypeOK, Carried, [Next]_vars,
           \A p \in Prompts : ~Insert(p) /\ ~Create(p) /\ ~Respond(p) /\ ~Top(p),
           \A n \in Notices : ~Notify(n), ~ClearHistory, ~ClearNotice
    PROVE  Carried'
<1>1. UNCHANGED <<txs, seen, shown, swallowed>>
  BY DEF Next, vars, loopVars, workVars, envVars, Submitter, Trigger, StartCheck, ClaimIdle,
         ClaimWaiting, Exchange, Worker, SetThinking, Claim, StreamEnds, CallTool, ToolBlocks,
         ToolUnblocks, ToolEnds, Answered, Finish, DrainGuard, Close, MarkDead, Clearing,
         ClearStatus, Waiting, WaitCall, WaitCheck, Leave, Stay, Goto
<1>2. \A v \in Prompts : pc'[v] \in Window => pc[v] \in Window
  BY DEF TypeOK, Window, Next, vars, loopVars, workVars, envVars, Submitter, Trigger, StartCheck,
         ClaimIdle, ClaimWaiting, Exchange, Worker, SetThinking, Claim, StreamEnds, CallTool,
         ToolBlocks, ToolUnblocks, ToolEnds, Answered, Finish, DrainGuard, Close, MarkDead,
         Clearing, ClearStatus, Waiting, WaitCall, WaitCheck, Leave, Stay, Goto
<1>3. Visible' = Visible /\ \A m : Pending(m)' <=> Pending(m)
  BY <1>1 DEF Visible, Pending
<1> QED
  BY <1>1, <1>2, <1>3 DEF Carried

\* Carried is inductive.
LEMMA CarriedStep ==
    ASSUME TypeOK, Carried, [Next]_vars
    PROVE  Carried'
<1>1. ASSUME NEW n \in Notices, Notify(n) PROVE Carried'
  BY <1>1, NoticeCarries DEF Notify, workVars, TxIds
<1>2. CASE ClearNotice
  BY <1>2, NoticeCarries DEF ClearNotice, workVars, TxIds, SpecialTx
<1> QED
  BY <1>1, <1>2, InsertCarries, CreateCarries, RespondCarries, TopCarries, ClearCarries, OthersCarry

\* For any messages, notices and options, clearing included: an agent at rest has
\* sent every message of its conversation to the model, but those that came in
\* the window (start_processing reads the conversation and its newest transaction
\* in two sections).
THEOREM StrandedOnlyInWindow == Spec => []OnlyTheWindowStrands
<1>1. Init => Carried
  <2> SUFFICES ASSUME Init PROVE Carried
    OBVIOUS
  <2>1. Visible = {}
    BY DEF Init, Visible
  <2>2. \A w \in Prompts : pc[w] \notin Window
    BY DEF Init, Window
  <2> QED
    BY <2>1, <2>2 DEF Carried
<1>2. TypeOK /\ Carried /\ [Next]_vars => Carried'
  BY CarriedStep
<1>3. TypeOK /\ Carried /\ IdleMeansDrained => OnlyTheWindowStrands
  <2> SUFFICES ASSUME TypeOK, Carried, Backlog = {}, NEW m \in Visible PROVE m \in shown \cup swallowed
    BY DEF OnlyTheWindowStrands, IdleMeansDrained
  <2>1. ~Pending(m)
    BY DEF Backlog, Pending
  <2> QED
    BY <2>1 DEF Carried
<1> QED
  BY <1>1, <1>2, <1>3, TypeCorrect, DrainedWhenIdle, PTL DEF Spec
=============================================================================
