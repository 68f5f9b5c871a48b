--------------------------- MODULE ServersProofs ----------------------------
(* The other programs: servers of tools and of languages, and commands that are run. *)
EXTENDS McpServer, LspDocs, CommandRunner, DataLemmas

(* Whatever the agents and the bounds: who gets an answer, and what is left when the
   program has stopped its servers. *)

-----------------------------------------------------------------------------
(* AnswersOwn *)

CallRec == [at : {"none", "checked", "write", "wait", "back"}, id : Nat,
            answer : {"none", "error"} \union Threads]

RequestsTyped ==
    /\ nextId \in Nat
    /\ call \in [Threads -> CallRec]
    /\ pending \subseteq [id : Nat, by : Threads]
    /\ wire \subseteq [id : Nat, by : Threads]

\* A number is given out once: what is registered, on the wire, or about to be written
\* under one number is of one thread.
Numbered ==
    /\ \A p \in pending \union wire : p.id < nextId
    /\ \A t \in Threads : call[t].at \in {"write", "wait"} => call[t].id < nextId
    /\ \A p \in pending : \A w \in wire : p.id = w.id => p.by = w.by
    /\ \A t \in Threads : \A p \in pending :
         call[t].at \in {"write", "wait"} /\ p.id = call[t].id => p.by = t

\* An answer that arrived before the request was written is its own as well.
Own == \A t \in Threads : /\ call[t].answer \in {"none", "error", t}
                          /\ call[t].at = "back" => call[t].answer \in {"error", t}

AnswerInv == RequestsTyped /\ Numbered /\ Own

LEMMA InitAnswers == McpInit => AnswerInv
  BY DEF McpInit, AnswerInv, RequestsTyped, CallRec, Numbered, Own, NoCall

\* A request in another state, with a number or an answer.
LEMMA Registered ==
  ASSUME NEW r \in CallRec, NEW x, NEW y
  PROVE  [r EXCEPT !.at = x, !.id = y] = [at |-> x, id |-> y, answer |-> r.answer]
<1> DEFINE s == [r EXCEPT !.at = x]
<1>1. r = [at |-> r.at, id |-> r.id, answer |-> r.answer]
  BY DEF CallRec
<1>2. s = [at |-> x, id |-> r.id, answer |-> r.answer]
  BY <1>1
<1>3. [r EXCEPT !.at = x, !.id = y] = [s EXCEPT !.id = y]
  OBVIOUS
<1>4. [s EXCEPT !.id = y] = [at |-> x, id |-> y, answer |-> r.answer]
  <2> HIDE DEF s
  <2> QED
    BY <1>2
<1> QED
  BY <1>3, <1>4, Zenon

LEMMA Answered ==
  ASSUME NEW r \in CallRec, NEW x, NEW y
  PROVE  [r EXCEPT !.at = x, !.answer = y] = [at |-> x, id |-> r.id, answer |-> y]
<1> DEFINE s == [r EXCEPT !.at = x]
<1>1. r = [at |-> r.at, id |-> r.id, answer |-> r.answer]
  BY DEF CallRec
<1>2. s = [at |-> x, id |-> r.id, answer |-> r.answer]
  BY <1>1
<1>3. [r EXCEPT !.at = x, !.answer = y] = [s EXCEPT !.answer = y]
  OBVIOUS
<1>4. [s EXCEPT !.answer = y] = [at |-> x, id |-> r.id, answer |-> y]
  <2> HIDE DEF s
  <2> QED
    BY <1>2
<1> QED
  BY <1>3, <1>4, Zenon

LEMMA Moved ==
  ASSUME NEW r \in CallRec, NEW x
  PROVE  [r EXCEPT !.at = x] = [at |-> x, id |-> r.id, answer |-> r.answer]
  BY DEF CallRec

\* Steps that only change what a thread does next.
LEMMA StutterAnswers ==
  ASSUME AnswerInv, UNCHANGED <<call, nextId, pending, wire>> PROVE AnswerInv'
  BY DEF AnswerInv, RequestsTyped, Numbered, Own

LEMMA SendsAnswers ==
  ASSUME AnswerInv, NEW t \in Threads, Sends(t), UNCHANGED wire PROVE AnswerInv'
  BY DEF AnswerInv, RequestsTyped, CallRec, Numbered, Own, Sends, NoCall

\* The new number is below none that was given out.
LEMMA EnrolsAnswers ==
  ASSUME AnswerInv, NEW t \in Threads, Enrols(t) PROVE AnswerInv'
<1>1. /\ nextId \in Nat /\ nextId' = nextId + 1 /\ wire' = wire
      /\ pending' \subseteq pending \union {[id |-> nextId, by |-> t]}
      /\ call[t].at = "checked"
  BY DEF AnswerInv, RequestsTyped, Enrols, process
<1>2. call' = [call EXCEPT ![t] = [at |-> "write", id |-> nextId, answer |-> call[t].answer]]
  <2>1. call' = [call EXCEPT ![t] = [call[t] EXCEPT !.at = "write", !.id = nextId]]
    BY DEF Enrols
  <2>2. call[t] \in CallRec
    BY DEF AnswerInv, RequestsTyped
  <2> QED
    BY <2>1, <2>2, Registered
<1>3. RequestsTyped'
  BY <1>1, <1>2 DEF AnswerInv, RequestsTyped, CallRec
<1>4. Own'
  BY <1>2 DEF AnswerInv, RequestsTyped, Own
<1>5. Numbered'
  <2>1. /\ \A p \in pending \union wire : p.id \in Nat /\ p.id < nextId
        /\ \A u \in Threads : call[u].id \in Nat
    BY DEF AnswerInv, RequestsTyped, CallRec, Numbered
  <2>2. \A u \in Threads : call'[u] = IF u = t THEN [at |-> "write", id |-> nextId, answer |-> call[t].answer]
                                     ELSE call[u]
    BY <1>2 DEF AnswerInv, RequestsTyped
  <2>3. \A p \in pending' \union wire' : p.id < nextId'
    BY <1>1, <2>1
  <2>4. \A u \in Threads : call'[u].at \in {"write", "wait"} => call'[u].id < nextId'
    BY <1>1, <2>1, <2>2 DEF AnswerInv, Numbered
  <2>5. \A p \in pending' : \A w \in wire' : p.id = w.id => p.by = w.by
    BY <1>1, <2>1 DEF AnswerInv, Numbered
  <2>6. \A u \in Threads : \A p \in pending' :
          call'[u].at \in {"write", "wait"} /\ p.id = call'[u].id => p.by = u
    BY <1>1, <2>1, <2>2 DEF AnswerInv, Numbered
  <2> QED
    BY <2>3, <2>4, <2>5, <2>6 DEF Numbered
<1> QED
  BY <1>3, <1>4, <1>5 DEF AnswerInv

LEMMA FailsAnswers ==
  ASSUME AnswerInv, NEW t \in Threads, Fails(t), UNCHANGED <<nextId, wire>> PROVE AnswerInv'
<1>1. call' = [call EXCEPT ![t] = [at |-> "back", id |-> call[t].id, answer |-> "error"]]
  <2>1. call' = [call EXCEPT ![t] = [call[t] EXCEPT !.at = "back", !.answer = "error"]]
    BY DEF Fails
  <2>2. call[t] \in CallRec
    BY DEF AnswerInv, RequestsTyped
  <2> DEFINE x == "back" y == "error"
  <2>3. [call[t] EXCEPT !.at = x, !.answer = y] = [at |-> x, id |-> call[t].id, answer |-> y]
    <3> HIDE DEF x, y
    <3> QED
      BY <2>2, Answered
  <2> QED
    BY <2>1, <2>3
<1>2. pending' \subseteq pending
  BY DEF Fails, Dropped
<1> QED
  BY <1>1, <1>2 DEF AnswerInv, RequestsTyped, CallRec, Numbered, Own

LEMMA WritesAnswers ==
  ASSUME AnswerInv, NEW t \in Threads, Writes(t) PROVE AnswerInv'
<1>1. CASE Fails(t) /\ UNCHANGED wire
  BY <1>1, FailsAnswers DEF Writes
<1>2. CASE /\ wire' = wire \union {[id |-> call[t].id, by |-> t]} /\ UNCHANGED pending
           /\ call' = [call EXCEPT ![t].at = IF call[t].answer = "none" THEN "wait" ELSE "back"]
  <2>1. call' = [call EXCEPT ![t] = [at |-> IF call[t].answer = "none" THEN "wait" ELSE "back",
                                     id |-> call[t].id, answer |-> call[t].answer]]
    <3>1. call' = [call EXCEPT ![t] = [call[t] EXCEPT !.at = IF call[t].answer = "none" THEN "wait" ELSE "back"]]
      BY <1>2
    <3>2. call[t] \in CallRec
      BY DEF AnswerInv, RequestsTyped
    <3> QED
      BY <3>1, <3>2, Moved
  <2>2. call[t].at = "write" /\ UNCHANGED nextId
    BY DEF Writes
  <2>3. RequestsTyped'
    BY <1>2, <2>1, <2>2 DEF AnswerInv, RequestsTyped, CallRec
  <2>4. Own'
    BY <2>1 DEF AnswerInv, RequestsTyped, Own
  <2>5. Numbered'
    <3>1. /\ \A p \in pending \union wire : p.id \in Nat /\ p.id < nextId
          /\ \A u \in Threads : call[u].id \in Nat
      BY DEF AnswerInv, RequestsTyped, CallRec, Numbered
    <3>2. \A u \in Threads : /\ call'[u].id = call[u].id
                             /\ call'[u].at \in {"write", "wait"} => call[u].at \in {"write", "wait"}
      BY <2>1, <2>2 DEF AnswerInv, RequestsTyped
    <3>3. \A p \in pending' \union wire' : p.id < nextId'
      BY <1>2, <2>2, <3>1 DEF AnswerInv, Numbered
    <3>4. \A u \in Threads : call'[u].at \in {"write", "wait"} => call'[u].id < nextId'
      BY <2>2, <3>2 DEF AnswerInv, Numbered
    <3>5. \A p \in pending' : \A w \in wire' : p.id = w.id => p.by = w.by
      BY <1>2, <2>2 DEF AnswerInv, Numbered
    <3>6. \A u \in Threads : \A p \in pending' :
            call'[u].at \in {"write", "wait"} /\ p.id = call'[u].id => p.by = u
      BY <1>2, <3>2 DEF AnswerInv, Numbered
    <3> QED
      BY <3>3, <3>4, <3>5, <3>6 DEF Numbered
  <2> QED
    BY <2>3, <2>4, <2>5 DEF AnswerInv
<1> QED
  BY <1>1, <1>2 DEF Writes

\* The thread registered under the number is the one whose request is read.
LEMMA ReadsAnswers ==
  ASSUME AnswerInv, NEW w \in wire, Reads(w) PROVE AnswerInv'
<1> DEFINE Waits(t) == \E p \in pending : p.id = w.id /\ p.by = t
<1>1. /\ wire' \subseteq wire /\ pending' \subseteq pending /\ UNCHANGED nextId
      /\ \A t \in Threads : call'[t] = IF Waits(t)
                                       THEN [at |-> IF call[t].at = "wait" THEN "back" ELSE call[t].at,
                                             id |-> call[t].id, answer |-> w.by]
                                       ELSE call[t]
      /\ call' = [t \in Threads |-> call'[t]]
  <2>1. call' = [t \in Threads |-> IF Waits(t)
                  THEN [call[t] EXCEPT !.at = IF call[t].at = "wait" THEN "back" ELSE call[t].at, !.answer = w.by]
                  ELSE call[t]]
    BY DEF Reads
  <2>2. \A t \in Threads : call[t] \in CallRec
    BY DEF AnswerInv, RequestsTyped
  <2>3. \A t \in Threads :
          [call[t] EXCEPT !.at = IF call[t].at = "wait" THEN "back" ELSE call[t].at, !.answer = w.by]
          = [at |-> IF call[t].at = "wait" THEN "back" ELSE call[t].at, id |-> call[t].id, answer |-> w.by]
    <3> TAKE t \in Threads
    <3> DEFINE x == IF call[t].at = "wait" THEN "back" ELSE call[t].at
    <3>1. call[t] \in CallRec
      BY <2>2
    <3>2. [call[t] EXCEPT !.at = x, !.answer = w.by] = [at |-> x, id |-> call[t].id, answer |-> w.by]
      <4> HIDE DEF x
      <4> QED
        BY <3>1, Answered
    <3> QED
      BY <3>2
  <2>4. wire' \subseteq wire /\ pending' \subseteq pending /\ UNCHANGED nextId
    BY DEF Reads
  <2> HIDE DEF Waits
  <2> QED
    BY <2>1, <2>3, <2>4
<1>2. \A t \in Threads : Waits(t) => w.by = t
  BY DEF AnswerInv, Numbered
<1> HIDE DEF Waits
<1>3. RequestsTyped'
  BY <1>1 DEF AnswerInv, RequestsTyped, CallRec
<1>4. Own'
  BY <1>1, <1>2 DEF AnswerInv, RequestsTyped, Own
<1>5. Numbered'
  BY <1>1 DEF AnswerInv, RequestsTyped, Numbered
<1> QED
  BY <1>3, <1>4, <1>5 DEF AnswerInv

LEMMA AnswersAllAnswers ==
  ASSUME AnswerInv, NEW t \in Threads, AnswersAll(t) PROVE AnswerInv'
<1> DEFINE Waits(u) == \E p \in pending : p.by = u
<1>1. /\ wire' = wire /\ pending' = {} /\ UNCHANGED nextId
      /\ \A u \in Threads : call'[u] = IF Waits(u)
                                       THEN [at |-> IF call[u].at = "wait" THEN "back" ELSE call[u].at,
                                             id |-> call[u].id, answer |-> "error"]
                                       ELSE call[u]
      /\ call' = [u \in Threads |-> call'[u]]
  <2>1. call' = [u \in Threads |-> IF Waits(u)
                  THEN [call[u] EXCEPT !.at = IF call[u].at = "wait" THEN "back" ELSE call[u].at, !.answer = "error"]
                  ELSE call[u]]
    BY DEF AnswersAll
  <2>2. \A u \in Threads : call[u] \in CallRec
    BY DEF AnswerInv, RequestsTyped
  <2>3. \A u \in Threads :
          [call[u] EXCEPT !.at = IF call[u].at = "wait" THEN "back" ELSE call[u].at, !.answer = "error"]
          = [at |-> IF call[u].at = "wait" THEN "back" ELSE call[u].at, id |-> call[u].id, answer |-> "error"]
    <3> TAKE u \in Threads
    <3> DEFINE x == IF call[u].at = "wait" THEN "back" ELSE call[u].at
    <3>1. call[u] \in CallRec
      BY <2>2
    <3>2. [call[u] EXCEPT !.at = x, !.answer = "error"] = [at |-> x, id |-> call[u].id, answer |-> "error"]
      <4> HIDE DEF x
      <4> QED
        BY <3>1, Answered
    <3> QED
      BY <3>2
  <2>4. wire' = wire /\ pending' = {} /\ UNCHANGED nextId
    BY DEF AnswersAll, process
  <2> HIDE DEF Waits
  <2> QED
    BY <2>1, <2>3, <2>4
<1> HIDE DEF Waits
<1> QED
  BY <1>1 DEF AnswerInv, RequestsTyped, CallRec, Numbered, Own

-----------------------------------------------------------------------------
\* One thread of the two that start and stop the server.
LEMMA StarterAnswers ==
  ASSUME AnswerInv, NEW t \in Starters, StarterSteps(t) PROVE AnswerInv'
<1>1. t \in Threads
  BY DEF Threads
<1>2. CASE Forks(t)
  BY <1>2 DEF AnswerInv, RequestsTyped, Numbered, Own, Forks, Numbering
<1>3. CASE Handshakes(t)
  BY <1>1, <1>3, SendsAnswers DEF Handshakes, process
<1>4. CASE Shaken(t)
  BY <1>1, <1>4 DEF AnswerInv, RequestsTyped, CallRec, Numbered, Own, Shaken, NoCall, process
<1>5. CASE AnswersAll(t)
  BY <1>1, <1>5, AnswersAllAnswers
<1>6. CASE Stops(t)
  BY <1>6 DEF AnswerInv, RequestsTyped, Numbered, Own, Stops, process, requests
<1>7. CASE Starts(t) \/ CannotFork(t) \/ Reaps(t) \/ Registers(t) \/ AfterStop(t) \/ Ends(t)
  BY <1>7, StutterAnswers DEF Starts, CannotFork, Reaps, Registers, AfterStop, Ends, process, requests
<1> QED
  BY <1>2, <1>3, <1>4, <1>5, <1>6, <1>7 DEF StarterSteps

LEMMA AnswersStep ==
  ASSUME AnswerInv, [McpNext]_mcpVars PROVE AnswerInv'
<1>1. ASSUME NEW t \in Starters, StarterSteps(t) PROVE AnswerInv'
  BY <1>1, StarterAnswers
<1>2. ASSUME NEW t \in Threads, RequestSteps(t) PROVE AnswerInv'
  BY <1>2, EnrolsAnswers, WritesAnswers, FailsAnswers DEF RequestSteps, GivesUpWaiting, TimesOut, process
<1>3. ASSUME NEW w \in wire, Reads(w) PROVE AnswerInv'
  BY <1>3, ReadsAnswers
<1>4. ASSUME NEW a \in Agents, Calls(a) \/ Returns(a) PROVE AnswerInv'
  <2>1. a \in Threads
    BY DEF Threads
  <2>2. CASE Calls(a)
    BY <2>1, <2>2, SendsAnswers DEF Calls, process
  <2>3. CASE Returns(a)
    BY <2>1, <2>3 DEF AnswerInv, RequestsTyped, CallRec, Numbered, Own, Returns, NoCall, process
  <2> QED
    BY <1>4, <2>2, <2>3
<1>5. CASE ExitSteps \/ Prompts \/ Toggles \/ Exits
  BY <1>5, StutterAnswers DEF ExitSteps, Joins, JoinsPrompter, Prompts, Toggles, Exits, process, requests
<1>6. CASE Dies
  BY <1>6 DEF AnswerInv, RequestsTyped, Numbered, Own, Dies, requests
<1>7. CASE UNCHANGED mcpVars
  BY <1>7, StutterAnswers DEF mcpVars
<1> QED
  BY <1>1, <1>2, <1>3, <1>4, <1>5, <1>6, <1>7 DEF McpNext

\* For any number of agents: no thread is given the answer to another one's request,
\* whatever times out, dies, stops and is started again between its steps.
THEOREM AnswersTheirOwn == McpSpec => []AnswersOwn
<1>1. AnswerInv => AnswersOwn
  BY DEF AnswerInv, Own, AnswersOwn
<1>2. AnswerInv /\ [McpNext]_mcpVars => AnswerInv'
  BY AnswersStep
<1> QED
  BY <1>1, <1>2, InitAnswers, PTL DEF McpSpec

-----------------------------------------------------------------------------
(* ExitLeavesNothing *)

Places == {"start", "fork", "initialize", "list", "register", "stop", "killed", "reaped", "stopped", "end", "idle", "off",
           "join", "joinPrompter", "gone"}

\* A starter has a request only in its handshake.
Calling ==
    /\ at \in [Starters -> Places]
    /\ \A t \in Starters : call[t].at # "none" => at[t] \in {"initialize", "list"}

\* The process runs only while pid_ is set, and who kills it holds the lock until pid_ is 0.
Process ==
    /\ spawned \in Nat /\ alive \in BOOLEAN /\ (alive => pid # 0)
    /\ \A t \in Starters : /\ at[t] \in {"killed", "reaped"} => stateLock = t /\ ~alive
                           /\ at[t] = "reaped" => pid = 0
                           /\ at[t] = "fork" => stateLock = t

\* The starting thread is joined first, the stop is last, and what was registered has tools.
Leaving ==
    /\ registered => tools
    /\ exiting => at["ui"] \in {"join", "joinPrompter", "stop", "killed", "reaped", "stopped", "gone"}
    /\ exiting /\ at["ui"] # "join" => at["boot"] = "off"
    /\ exiting /\ at["ui"] \in {"stopped", "gone"} => pid = 0
    /\ exiting /\ at["ui"] = "gone" => ~registered
    /\ at["ui"] \in {"join", "joinPrompter", "gone"} => exiting

ExitInv == Calling /\ Process /\ Leaving

LEMMA InitExit == McpInit => ExitInv
<1> SUFFICES ASSUME McpInit PROVE ExitInv
  OBVIOUS
<1>1. /\ at = [t \in Starters |-> IF t = "boot" THEN "start" ELSE "idle"]
      /\ \A t \in Starters : call[t].at = "none"
  BY DEF McpInit, NoCall, Threads
<1>2. at["boot"] = "start" /\ at["ui"] = "idle"
  BY <1>1 DEF Starters
<1>3. Calling
  BY <1>1 DEF Calling, Places
<1>4. Process /\ Leaving
  BY <1>1, <1>2 DEF McpInit, Process, Leaving, Starters
<1> QED
  BY <1>3, <1>4 DEF ExitInv

\* Steps that leave the starters, the process and the manager alone, and begin no request
\* of a starter.
Holds == UNCHANGED <<at, pid, alive, spawned, stateLock, tools, registered, exiting>>
NoneBegun == \A t \in Starters : call'[t].at # "none" => call[t].at # "none"

LEMMA HoldsExit ==
  ASSUME ExitInv, Holds, NoneBegun PROVE ExitInv'
  BY DEF ExitInv, Calling, Process, Leaving, Holds, NoneBegun

LEMMA RequestsBegun ==
  ASSUME AnswerInv, NEW t \in Threads, RequestSteps(t) PROVE Holds /\ NoneBegun
<1>1. call \in [Threads -> CallRec] /\ Starters \subseteq Threads
  BY DEF AnswerInv, RequestsTyped, Threads
<1>2. call[t].at # "none" /\ Holds
  BY DEF RequestSteps, Enrols, Writes, GivesUpWaiting, Holds, process, manager
<1>3. \A u \in Threads \ {t} : call'[u] = call[u]
  BY <1>1 DEF RequestSteps, Enrols, Writes, GivesUpWaiting, TimesOut, Fails
<1> QED
  BY <1>1, <1>2, <1>3 DEF NoneBegun

LEMMA AnsweredBegun ==
  ASSUME NEW c \in [Threads -> CallRec], NEW S, NEW y
  PROVE  \A u \in Threads :
           LET d == [v \in Threads |-> IF v \in S THEN [c[v] EXCEPT !.at = IF @ = "wait" THEN "back" ELSE @, !.answer = y]
                                       ELSE c[v]]
           IN  d[u].at = IF u \in S /\ c[u].at = "wait" THEN "back" ELSE c[u].at
<1> TAKE u \in Threads
<1> DEFINE x == IF c[u].at = "wait" THEN "back" ELSE c[u].at
<1>1. [c[u] EXCEPT !.at = x, !.answer = y] = [at |-> x, id |-> c[u].id, answer |-> y]
  <2>1. c[u] \in CallRec
    OBVIOUS
  <2> HIDE DEF x
  <2> QED
    BY <2>1, Answered
<1> QED
  BY <1>1

LEMMA ReadsBegun ==
  ASSUME AnswerInv, NEW w \in wire, Reads(w) PROVE Holds /\ NoneBegun
<1>1. call \in [Threads -> CallRec] /\ Starters \subseteq Threads
  BY DEF AnswerInv, RequestsTyped, Threads
<1>2. Holds
  BY DEF Reads, Holds, manager
<1> DEFINE S == {t \in Threads : \E p \in pending : p.id = w.id /\ p.by = t}
<1>3. call' = [t \in Threads |-> IF t \in S THEN [call[t] EXCEPT !.at = IF @ = "wait" THEN "back" ELSE @, !.answer = w.by]
                                 ELSE call[t]]
  BY DEF Reads
<1> HIDE DEF S
<1>4. \A t \in Threads : call'[t].at = IF t \in S /\ call[t].at = "wait" THEN "back" ELSE call[t].at
  BY <1>1, <1>3, AnsweredBegun, ZenonT(30)
<1> QED
  BY <1>1, <1>2, <1>4 DEF NoneBegun

LEMMA AnswersAllBegun ==
  ASSUME AnswerInv, NEW t \in Starters, AnswersAll(t) PROVE NoneBegun
<1>1. call \in [Threads -> CallRec] /\ Starters \subseteq Threads
  BY DEF AnswerInv, RequestsTyped, Threads
<1> DEFINE S == {u \in Threads : \E p \in pending : p.by = u}
<1>3. call' = [u \in Threads |-> IF u \in S THEN [call[u] EXCEPT !.at = IF @ = "wait" THEN "back" ELSE @, !.answer = "error"]
                                 ELSE call[u]]
  BY DEF AnswersAll
<1> HIDE DEF S
<1>4. \A u \in Threads : call'[u].at = IF u \in S /\ call[u].at = "wait" THEN "back" ELSE call[u].at
  <2> DEFINE y == "error"
  <2>1. call' = [u \in Threads |-> IF u \in S THEN [call[u] EXCEPT !.at = IF @ = "wait" THEN "back" ELSE @, !.answer = y]
                                   ELSE call[u]]
    BY <1>3
  <2> HIDE DEF y
  <2> QED
    BY <1>1, <2>1, AnsweredBegun, ZenonT(30)
<1> QED
  BY <1>1, <1>4 DEF NoneBegun

LEMMA StarterExit ==
  ASSUME AnswerInv, ExitInv, NEW t \in Starters, StarterSteps(t) PROVE ExitInv'
<1>1. call \in [Threads -> CallRec] /\ Starters \subseteq Threads
  BY DEF AnswerInv, RequestsTyped, Threads
<1> USE DEF ExitInv, Calling, Process, Leaving, Starters, Places, process, requests, manager
<1>2. CASE Starts(t)
  <2>1. /\ at[t] = "start" /\ stateLock = "free"
        /\ UNCHANGED <<call, pid, alive, spawned, tools, registered, exiting>>
    BY <1>2 DEF Starts
  <2>2. PICK x \in {"register", "end", "fork"} :
          /\ at' = [at EXCEPT ![t] = x] /\ (x = "fork" => stateLock' = t /\ ~exiting)
    BY <1>2 DEF Starts, Succeeds, Abandons, Goes
  <2>3. Calling'
    BY <2>1, <2>2
  <2>4. Process'
    <3>1. \A u \in Starters : at'[u] \notin {"killed", "reaped"} /\ (at'[u] = "fork" => u = t /\ x = "fork")
      BY <2>1, <2>2
    <3> QED
      BY <2>1, <2>2, <3>1
  <2>5. Leaving'
    BY <2>1, <2>2
  <2> QED
    BY <2>3, <2>4, <2>5
<1>11. CASE CannotFork(t) \/ Forks(t)
  <2>1. /\ at[t] = "fork" /\ stateLock = t
        /\ UNCHANGED <<call, tools, registered, exiting>>
    BY <1>11 DEF CannotFork, Forks
  <2>2. PICK x \in {"end", "initialize"} : at' = [at EXCEPT ![t] = x]
    BY <1>11 DEF CannotFork, Forks, Abandons, Goes
  <2>3. \/ UNCHANGED <<pid, alive, spawned>>
        \/ pid' = spawned + 1 /\ alive' = TRUE /\ spawned' = spawned + 1
    BY <1>11 DEF CannotFork, Forks
  <2>4. Calling'
    <3>1. at' \in [Starters -> Places]
      BY <2>2
    <3>2. call[t].at = "none"
      BY <2>1
    <3>3. \A u \in Starters : call'[u].at # "none" => at'[u] \in {"initialize", "list"}
      BY <2>1, <2>2, <3>2
    <3> QED
      BY <3>1, <3>3
  <2>5. Process'
    <3>1. spawned' \in Nat /\ alive' \in BOOLEAN /\ (alive' => pid' # 0)
      <4>1. CASE UNCHANGED <<pid, alive, spawned>>
        BY <4>1, Zenon
      <4>2. CASE pid' = spawned + 1 /\ alive' = TRUE /\ spawned' = spawned + 1
        <5>1. spawned \in Nat
          BY Zenon
        <5>2. spawned' \in Nat /\ pid' # 0
          BY <5>1, <4>2
        <5> QED
          BY <5>2, <4>2, Zenon
      <4> QED
        BY <2>3, <4>1, <4>2
    <3>2. \A u \in Starters : at'[u] \notin {"killed", "reaped", "fork"}
      BY <2>1, <2>2
    <3> QED
      BY <3>1, <3>2
  <2>6. Leaving'
    BY <2>1, <2>2, <2>3
  <2> QED
    BY <2>4, <2>5, <2>6
<1>3. CASE Handshakes(t)
  BY <1>1, <1>3 DEF Handshakes, Sends
<1>4. CASE Shaken(t)
  <2>1. /\ call[t].at # "none" /\ UNCHANGED <<pid, alive, spawned, stateLock, registered, exiting>>
        /\ tools' = tools \/ tools' = (tools \/ call[t].answer # "error")
    BY <1>4 DEF Shaken
  <2>2. PICK x \in {"stop", "list", "end", "register"} : at' = [at EXCEPT ![t] = x]
    BY <1>4 DEF Shaken, Succeeds, Abandons, Goes
  <2>3. \A u \in Starters : call'[u].at = IF u = t THEN "none" ELSE call[u].at
    BY <1>1, <1>4 DEF Shaken, NoCall
  <2>4. at[t] \in {"initialize", "list"}
    BY <2>1
  <2>5. Calling'
    BY <2>2, <2>3
  <2>6. Process'
    BY <2>1, <2>2, <2>4
  <2>7. Leaving'
    <3>1. registered => tools'
      <4>1. registered => tools
        BY Zenon
      <4>2. CASE tools' = tools
        BY <4>1, <4>2, Zenon
      <4>3. CASE tools' = (tools \/ call[t].answer # "error")
        BY <4>1, <4>3, Zenon
      <4> QED
        BY <2>1, <4>2, <4>3
    <3>2. exiting => t = "boot" /\ at["ui"] = "join"
      BY <2>4
    <3>3. \A u \in Starters : at'[u] = IF u = t THEN x ELSE at[u]
      BY <2>2
    <3> QED
      BY <2>1, <2>4, <3>1, <3>2, <3>3
  <2> QED
    BY <2>5, <2>6, <2>7
<1>5. CASE Stops(t)
  <2>1. /\ at[t] = "stop" /\ stateLock = "free"
        /\ UNCHANGED <<call, spawned, pid, exiting, tools, registered>>
    BY <1>5 DEF Stops
  <2>2. CASE pid = 0
    <3>1. at' = [at EXCEPT ![t] = "stopped"] /\ UNCHANGED <<alive, stateLock>>
      BY <1>5, <2>2 DEF Stops, Goes
    <3>2. Calling'
      BY <2>1, <3>1
    <3>3. Process'
      BY <2>1, <3>1
    <3>4. \A u \in Starters : at'[u] = IF u = t THEN "stopped" ELSE at[u]
      BY <3>1
    <3>5. pid' = 0 /\ exiting' = exiting /\ registered' = registered /\ tools' = tools /\ at[t] = "stop"
      BY <2>1, <2>2
    <3>6. Leaving'
      BY <3>4, <3>5
    <3> QED
      BY <3>2, <3>3, <3>6
  <2>3. CASE pid # 0
    <3>1. at' = [at EXCEPT ![t] = "killed"] /\ stateLock' = t /\ alive' = FALSE
      BY <1>5, <2>3 DEF Stops, Goes
    <3>2. Calling'
      BY <2>1, <3>1
    <3>3. Process'
      BY <2>1, <3>1
    <3>4. Leaving'
      BY <2>1, <3>1
    <3> QED
      BY <3>2, <3>3, <3>4
  <2> QED
    BY <2>2, <2>3
<1>6. CASE Reaps(t)
  BY <1>6 DEF Reaps, Goes
<1>7. CASE AnswersAll(t)
  BY <1>7, AnswersAllBegun DEF AnswersAll, Goes, NoneBegun
<1>8. CASE Registers(t)
  BY <1>8 DEF Registers, Goes
<1>9. CASE AfterStop(t)
  BY <1>9 DEF AfterStop, Goes
<1>10. CASE Ends(t)
  BY <1>10 DEF Ends, Goes
<1> QED
  BY <1>2, <1>3, <1>4, <1>5, <1>6, <1>7, <1>8, <1>9, <1>10, <1>11 DEF StarterSteps

LEMMA ExitStep ==
  ASSUME AnswerInv, ExitInv, [McpNext]_mcpVars PROVE ExitInv'
<1>1. ASSUME NEW t \in Starters, StarterSteps(t) PROVE ExitInv'
  BY <1>1, StarterExit
<1>2. ASSUME NEW t \in Threads, RequestSteps(t) PROVE ExitInv'
  BY <1>2, RequestsBegun, HoldsExit
<1>3. ASSUME NEW w \in wire, Reads(w) PROVE ExitInv'
  BY <1>3, ReadsBegun, HoldsExit
<1>4. ASSUME NEW a \in Agents, Calls(a) \/ Returns(a) PROVE ExitInv'
  <2>1. \A t \in Starters : call'[t] = call[t]
    BY <1>4, AgentsAssumption DEF AnswerInv, RequestsTyped, Calls, Returns, Sends, Threads
  <2>2. Holds /\ NoneBegun
    BY <1>4, <2>1 DEF Holds, NoneBegun, Calls, Returns, process, manager
  <2> QED
    BY <2>2, HoldsExit
<1>5. CASE ExitSteps \/ Toggles \/ Exits \/ Dies
  <2> USE DEF ExitInv, Calling, Process, Leaving, Starters, Places, process, requests, manager
  <2>1. CASE Joins
    BY <2>1 DEF Joins, BootJoined, Goes
  <2>2. CASE JoinsPrompter
    BY <2>2 DEF JoinsPrompter, Goes
  <2>3. CASE Toggles
    BY <2>3 DEF Toggles, Goes
  <2>4. CASE Exits
    BY <2>4 DEF Exits, Goes
  <2>5. CASE Dies
    BY <2>5 DEF Dies
  <2> QED
    BY <1>5, <2>1, <2>2, <2>3, <2>4, <2>5 DEF ExitSteps
<1>6. CASE Prompts \/ UNCHANGED mcpVars
  BY <1>6, HoldsExit DEF Prompts, mcpVars, process, requests, manager, Holds, NoneBegun
<1> QED
  BY <1>1, <1>2, <1>3, <1>4, <1>5, <1>6 DEF McpNext

\* For any number of agents and toggles: when stop_all_servers is over no process runs
\* and no tool is registered, because the starting thread is joined before the last stop.
THEOREM NothingLeft == McpSpec => []ExitLeavesNothing
<1>1. ExitInv => ExitLeavesNothing
  BY DEF ExitInv, Process, Leaving, ExitLeavesNothing
<1>2. AnswerInv /\ ExitInv /\ [McpNext]_mcpVars => AnswerInv' /\ ExitInv'
  BY AnswersStep, ExitStep
<1> QED
  BY <1>1, <1>2, InitAnswers, InitExit, PTL DEF McpSpec

-----------------------------------------------------------------------------
(* A document and its language server: the text given last is on its way or there *)

Editing == {"open", "update", "save"}

LspTyped ==
    /\ docQueue \in Seq([kind : Editing \union {"prefetch"}, text : Nat])
    /\ editorText \in Nat /\ onDisk \in Nat /\ version \in Nat
    /\ syncer \in [at : {"idle", "serve", "send", "ask"}, kind : Editing \union {"none", "prefetch"}, text : Nat]
    /\ (syncer.at = "idle" <=> syncer.kind = "none") /\ (syncer.at = "ask" => syncer.kind = "prefetch")
    /\ server \in [up : BOOLEAN, opened : BOOLEAN, text : Nat]
    /\ server.opened => server.up
    /\ querier \in [Queriers -> [at : {"out", "check", "open", "ask", "wait"}, text : Nat]]

\* The editor's last action in a queue of actions gives the text t.
LastGives(q, t) ==
    \E i \in 1..Len(q) : /\ q[i].kind \in Editing /\ q[i].text = t
                         /\ \A j \in 1..Len(q) : j > i => q[j].kind = "prefetch"

AllAhead(q) == \A i \in 1..Len(q) : q[i].kind = "prefetch"

\* The text given last is queued, or the worker has it, or the server.
OnItsWay ==
    \/ LastGives(docQueue, pushed)
    \/ /\ AllAhead(docQueue)
       /\ IF syncer.kind \in Editing THEN syncer.text = pushed
          ELSE pushed # 0 /\ server.opened /\ ~fromFile => server.text = pushed

LspInv == LspTyped /\ OnItsWay

Actions == [kind : Editing \union {"prefetch"}, text : Nat]

LEMMA EditQueued ==
  ASSUME NEW q \in Seq(Actions), NEW k \in Editing, NEW t \in Nat
  PROVE  /\ Append(q, [kind |-> k, text |-> t]) \in Seq(Actions)
         /\ LastGives(Append(q, [kind |-> k, text |-> t]), t)
<1> DEFINE r == Append(q, [kind |-> k, text |-> t])
<1>1. r \in Seq(Actions) /\ Len(r) = Len(q) + 1 /\ r[Len(q) + 1] = [kind |-> k, text |-> t] /\ Len(q) \in Nat
  BY DEF Actions
<1>2. Len(q) + 1 \in 1..Len(r) /\ \A j \in 1..Len(r) : ~(j > Len(q) + 1)
  BY <1>1
<1> QED
  BY <1>1, <1>2 DEF LastGives

LEMMA AheadQueued ==
  ASSUME NEW q \in Seq(Actions), NEW t
  PROVE  LET r == Append(q, [kind |-> "prefetch", text |-> 0])
         IN  r \in Seq(Actions) /\ (LastGives(q, t) => LastGives(r, t)) /\ (AllAhead(q) => AllAhead(r))
<1> DEFINE r == Append(q, [kind |-> "prefetch", text |-> 0])
<1>1. /\ r \in Seq(Actions) /\ Len(r) = Len(q) + 1 /\ Len(q) \in Nat
      /\ r[Len(q) + 1].kind = "prefetch" /\ \A i \in 1..Len(q) : r[i] = q[i]
  BY DEF Actions
<1>2. ASSUME NEW i \in 1..Len(q), q[i].kind \in Editing, q[i].text = t,
             \A j \in 1..Len(q) : j > i => q[j].kind = "prefetch"
      PROVE  LastGives(r, t)
  <2>1. i \in 1..Len(r) /\ r[i] = q[i]
    BY <1>1
  <2>2. \A j \in 1..Len(r) : j > i => r[j].kind = "prefetch"
    <3> SUFFICES ASSUME NEW j \in 1..Len(r), j > i PROVE r[j].kind = "prefetch"
      OBVIOUS
    <3>1. CASE j \in 1..Len(q)
      BY <3>1, <1>1, <1>2
    <3>2. CASE j = Len(q) + 1
      BY <3>2, <1>1
    <3> QED
      BY <3>1, <3>2, <1>1
  <2> QED
    BY <2>1, <2>2, <1>2 DEF LastGives
<1>3. AllAhead(q) => AllAhead(r)
  BY <1>1 DEF AllAhead
<1> QED
  BY <1>1, <1>2, <1>3 DEF LastGives

\* The worker takes an action.
LEMMA HeadTaken ==
  ASSUME NEW q \in Seq(Actions), q # <<>>, NEW t
  PROVE  /\ Head(q) \in Actions /\ Tail(q) \in Seq(Actions)
         /\ AllAhead(q) => AllAhead(Tail(q)) /\ Head(q).kind = "prefetch"
         /\ LastGives(q, t) => LastGives(Tail(q), t) \/ (AllAhead(Tail(q)) /\ Head(q).kind \in Editing /\ Head(q).text = t)
<1> DEFINE r == Tail(q)
<1>1. /\ Head(q) \in Actions /\ r \in Seq(Actions) /\ Len(r) = Len(q) - 1 /\ Len(q) \in Nat /\ Len(q) > 0 /\ Head(q) = q[1]
      /\ \A i \in 1..Len(r) : r[i] = q[i + 1]
  BY HeadTailProperties
<1>2. AllAhead(q) => AllAhead(r) /\ Head(q).kind = "prefetch"
  BY <1>1 DEF AllAhead
<1>3. ASSUME NEW i \in 1..Len(q), q[i].kind \in Editing, q[i].text = t,
             \A j \in 1..Len(q) : j > i => q[j].kind = "prefetch"
      PROVE  LastGives(r, t) \/ (AllAhead(r) /\ Head(q).kind \in Editing /\ Head(q).text = t)
  <2>1. CASE i = 1
    <3>1. \A j \in 1..Len(r) : r[j].kind = "prefetch"
      BY <2>1, <1>1, <1>3
    <3> QED
      BY <3>1, <2>1, <1>1, <1>3 DEF AllAhead
  <2>2. CASE i > 1
    <3>1. i - 1 \in 1..Len(r) /\ r[i - 1] = q[i]
      BY <2>2, <1>1
    <3>2. \A j \in 1..Len(r) : j > i - 1 => r[j].kind = "prefetch"
      BY <2>2, <1>1, <1>3
    <3> QED
      BY <3>1, <3>2, <1>3 DEF LastGives
  <2> QED
    BY <2>1, <2>2
<1> QED
  BY <1>1, <1>2, <1>3 DEF LastGives

LEMMA EditorOnItsWay ==
  ASSUME LspInv, NEW k \in Editing, NEW t \in Nat, Queues(k, t), pushed' = t, editorText' \in Nat, onDisk' \in Nat
  PROVE  LspInv'
  BY EditQueued DEF LspInv, LspTyped, OnItsWay, Queues, Actions

LEMMA PrefetchOnItsWay ==
  ASSUME LspInv, Prefetches PROVE LspInv'
<1>1. docQueue \in Seq(Actions)
  BY DEF LspInv, LspTyped, Actions
<1>2. docQueue' \in Seq(Actions) /\ (LastGives(docQueue, pushed) => LastGives(docQueue', pushed))
      /\ (AllAhead(docQueue) => AllAhead(docQueue'))
  BY <1>1, AheadQueued DEF Prefetches, Queues
<1> QED
  BY <1>2 DEF LspInv, LspTyped, OnItsWay, Prefetches, Queues, lspTexts, Actions

LEMMA TakeOnItsWay ==
  ASSUME LspInv, SyncerTakes PROVE LspInv'
<1>0. docQueue \in Seq(Actions) /\ docQueue # <<>> /\ docQueue' = Tail(docQueue)
  BY DEF LspInv, LspTyped, Actions, SyncerTakes
<1> DEFINE a == Head(docQueue)
<1>1. /\ a \in Actions /\ docQueue' \in Seq(Actions)
      /\ AllAhead(docQueue) => AllAhead(docQueue') /\ a.kind = "prefetch"
      /\ LastGives(docQueue, pushed) =>
           LastGives(docQueue', pushed) \/ (AllAhead(docQueue') /\ a.kind \in Editing /\ a.text = pushed)
  BY <1>0, HeadTaken
<1>2. /\ \/ a.kind # "prefetch" /\ syncer' = [at |-> "serve", kind |-> a.kind, text |-> a.text]
         \/ a.kind = "prefetch" /\ syncer' = syncer
         \/ a.kind = "prefetch" /\ syncer' = [at |-> "serve", kind |-> "prefetch", text |-> 0]
      /\ UNCHANGED <<editorText, onDisk, pushed, version, server, fromFile>>
      /\ syncer.at = "idle"
  BY DEF SyncerTakes, lspTexts, lspBounds
<1>3. LspTyped'
  <2>1. /\ syncer' \in [at : {"idle", "serve", "send", "ask"}, kind : Editing \union {"none", "prefetch"}, text : Nat]
        /\ (syncer'.at = "idle" <=> syncer'.kind = "none") /\ (syncer'.at = "ask" => syncer'.kind = "prefetch")
    BY <1>1, <1>2 DEF LspInv, LspTyped, Actions, Editing
  <2>2. querier' = querier
    BY DEF SyncerTakes
  <2> QED
    BY <1>1, <1>2, <2>1, <2>2 DEF LspInv, LspTyped, Actions
<1>4. OnItsWay'
  BY <1>1, <1>2 DEF LspInv, LspTyped, OnItsWay, Actions, Editing
<1> QED
  BY <1>3, <1>4 DEF LspInv

\* What a step that leaves the queue and the editor's text alone does to the server.
LEMMA ServerTyped ==
  ASSUME LspTyped, NEW ok \in BOOLEAN, NEW t \in Nat, NEW o \in BOOLEAN
  PROVE  /\ Started(server, ok) \in [up : BOOLEAN, opened : BOOLEAN, text : Nat]
         /\ Started(server, ok).opened => server.opened /\ Started(server, ok) = server
         /\ Started(server, ok).opened => Started(server, ok).up
         /\ Received(server, o, t) \in [up : BOOLEAN, opened : BOOLEAN, text : Nat]
         /\ Received(server, o, t).opened => Received(server, o, t).up /\ Received(server, o, t).text = t
  BY DEF LspTyped, Started, Received, Down

LEMMA ServeOnItsWay ==
  ASSUME LspInv, NEW ok \in BOOLEAN, Serves(ok) PROVE LspInv'
<1>1. /\ server' \in [up : BOOLEAN, opened : BOOLEAN, text : Nat]
      /\ server'.opened => server.opened /\ server' = server /\ server'.up
      /\ UNCHANGED <<editorText, onDisk, pushed, docQueue, version, querier, fromFile>>
      /\ syncer.at = "serve" /\ (server'.opened => server'.up)
  BY ServerTyped DEF Serves, LspInv, lspTexts, lspBounds
<1>2. /\ ~server'.up => syncer' = Waiting
      /\ server'.up => \/ syncer' = [syncer EXCEPT !.at = "send"]
                       \/ syncer.kind = "prefetch" /\ syncer' = [syncer EXCEPT !.at = "ask"]
                       \/ syncer.kind = "prefetch" /\ syncer' = [syncer EXCEPT !.at = "send", !.text = onDisk]
  BY DEF Serves
<1>3. /\ syncer' \in [at : {"idle", "serve", "send", "ask"}, kind : Editing \union {"none", "prefetch"}, text : Nat]
      /\ (syncer'.at = "idle" <=> syncer'.kind = "none") /\ (syncer'.at = "ask" => syncer'.kind = "prefetch")
      /\ server'.up => syncer'.kind = syncer.kind /\ (syncer.kind \in Editing => syncer'.text = syncer.text)
  <2>0. /\ syncer \in [at : {"idle", "serve", "send", "ask"}, kind : Editing \union {"none", "prefetch"}, text : Nat]
        /\ syncer.kind # "none" /\ onDisk \in Nat
    BY <1>1 DEF LspInv, LspTyped
  <2>1. CASE syncer' = Waiting
    BY <2>1, <1>2 DEF Waiting, Editing
  <2>2. CASE syncer' = [syncer EXCEPT !.at = "send"]
    BY <2>0, <2>2 DEF Editing
  <2>3. CASE syncer.kind = "prefetch" /\ syncer' = [syncer EXCEPT !.at = "ask"]
    BY <2>0, <2>3 DEF Editing
  <2>4. CASE syncer.kind = "prefetch" /\ syncer' = [syncer EXCEPT !.at = "send", !.text = onDisk]
    BY <2>0, <2>4 DEF Editing
  <2> QED
    BY <1>2, <2>1, <2>2, <2>3, <2>4
<1>4. ~server'.up => syncer'.kind = "none"
  BY <1>2 DEF Waiting
<1>5. LspTyped'
  BY <1>1, <1>3 DEF LspInv, LspTyped
<1>6. OnItsWay'
  BY <1>1, <1>3, <1>4 DEF LspInv, LspTyped, OnItsWay, Editing
<1> QED
  BY <1>5, <1>6 DEF LspInv

LEMMA SendOnItsWay ==
  ASSUME LspInv, SyncerSends PROVE LspInv'
<1>1. syncer.at = "send" /\ syncer.text \in Nat /\ version \in Nat /\ (version = 0) \in BOOLEAN /\ LspTyped /\ OnItsWay
  BY DEF SyncerSends, LspInv, LspTyped
<1>2. server' = Received(server, version = 0, syncer.text)
  BY DEF SyncerSends, Send
<1>3. /\ server' \in [up : BOOLEAN, opened : BOOLEAN, text : Nat]
      /\ server'.opened => server'.up /\ server'.text = syncer.text
  BY <1>1, <1>2, ServerTyped
<1>4. /\ UNCHANGED <<editorText, onDisk, pushed, docQueue, querier>>
      /\ version' = version + 1 /\ fromFile' = (syncer.kind = "prefetch")
      /\ syncer' = IF syncer.kind = "prefetch" THEN [syncer EXCEPT !.at = "ask"] ELSE Waiting
  BY DEF SyncerSends, Send, lspTexts, lspBounds
<1>5. /\ syncer' \in [at : {"idle", "serve", "send", "ask"}, kind : Editing \union {"none", "prefetch"}, text : Nat]
      /\ (syncer'.at = "idle" <=> syncer'.kind = "none") /\ (syncer'.at = "ask" => syncer'.kind = "prefetch")
      /\ syncer'.kind \notin Editing /\ (syncer.kind \in Editing \/ syncer.kind = "prefetch")
  BY <1>1, <1>4 DEF LspTyped, Waiting, Editing
<1>6. LspTyped'
  BY <1>1, <1>3, <1>4, <1>5 DEF LspTyped
<1>7. OnItsWay'
  BY <1>1, <1>3, <1>4, <1>5 DEF OnItsWay
<1> QED
  BY <1>6, <1>7 DEF LspInv

\* A step of the threads outside the worker, short of an open.
LEMMA AskOnItsWay ==
  ASSUME LspInv,
         UNCHANGED <<editorText, onDisk, pushed, docQueue, syncer, version, fromFile>>,
         UNCHANGED server \/ server' = Down \/ \E ok \in BOOLEAN : server' = Started(server, ok),
         querier' \in [Queriers -> [at : {"out", "check", "open", "ask", "wait"}, text : Nat]]
  PROVE  LspInv'
<1>1. /\ server' \in [up : BOOLEAN, opened : BOOLEAN, text : Nat]
      /\ server'.opened => server'.up /\ server' = server
  <2>1. CASE UNCHANGED server
    BY <2>1 DEF LspInv, LspTyped
  <2>2. CASE server' = Down
    BY <2>2 DEF Down
  <2>3. ASSUME NEW ok \in BOOLEAN, server' = Started(server, ok)
        PROVE  server' \in [up : BOOLEAN, opened : BOOLEAN, text : Nat] /\ (server'.opened => server'.up /\ server' = server)
    BY <2>3, ServerTyped DEF LspInv
  <2> QED
    BY <2>1, <2>2, <2>3
<1>2. LspTyped'
  BY <1>1 DEF LspInv, LspTyped
<1>3. OnItsWay'
  BY <1>1 DEF LspInv, OnItsWay
<1> QED
  BY <1>2, <1>3 DEF LspInv

LEMMA OpenOnItsWay ==
  ASSUME LspInv, NEW q \in Queriers, QuerierOpens(q) PROVE LspInv'
<1>1. /\ UNCHANGED <<editorText, onDisk, pushed, docQueue, syncer>> /\ version' = version + 1 /\ fromFile'
      /\ server' = Received(server, version = 0, querier[q].text) /\ querier' = [querier EXCEPT ![q].at = "ask"]
  BY DEF QuerierOpens, Send, lspTexts
<1>2. querier[q].text \in Nat /\ (version = 0) \in BOOLEAN
  BY DEF LspInv, LspTyped
<1>3. /\ server' \in [up : BOOLEAN, opened : BOOLEAN, text : Nat]
      /\ server'.opened => server'.up
  BY <1>1, <1>2, ServerTyped DEF LspInv
<1>4. LspTyped'
  BY <1>1, <1>3 DEF LspInv, LspTyped
<1>5. OnItsWay'
  BY <1>1 DEF LspInv, OnItsWay
<1> QED
  BY <1>4, <1>5 DEF LspInv

LEMMA LspInvInit == LspInit => LspInv
<1> SUFFICES ASSUME LspInit PROVE LspInv
  OBVIOUS
<1>1. LspTyped
  BY DEF LspInit, LspTyped, Waiting, Down, Out, Editing
<1>2. OnItsWay
  BY DEF LspInit, OnItsWay, AllAhead, Waiting, Editing, Down
<1> QED
  BY <1>1, <1>2 DEF LspInv

LEMMA LspStep ==
  ASSUME LspInv, [LspNext]_lspVars PROVE LspInv'
<1> DEFINE Askings == [Queriers -> [at : {"out", "check", "open", "ask", "wait"}, text : Nat]]
<1>0. querier \in Askings /\ editorText \in Nat /\ onDisk \in Nat
  BY DEF LspInv, LspTyped
<1>1. CASE LspOpens
  BY <1>0, <1>1, EditorOnItsWay DEF LspOpens, Editing
<1>2. CASE LspUpdates
  BY <1>0, <1>2, EditorOnItsWay DEF LspUpdates, Editing
<1>3. CASE LspSaves
  BY <1>0, <1>3, EditorOnItsWay DEF LspSaves, Editing
<1>4. CASE Prefetches
  BY <1>4, PrefetchOnItsWay
<1>5. CASE ServerCrashes
  BY <1>0, <1>5, AskOnItsWay DEF ServerCrashes, lspTexts
<1>6. CASE Refreshes
  BY <1>0, <1>6, AskOnItsWay DEF Refreshes, lspTexts
<1>7. CASE Syncs
  <2>1. CASE AsksAhead
    <3>1. UNCHANGED <<editorText, onDisk, pushed, docQueue, version, server, querier, fromFile>> /\ syncer.at = "ask" /\ syncer' = Waiting
      BY <2>1 DEF AsksAhead, lspTexts
    <3>2. LspTyped'
      BY <3>1 DEF LspInv, LspTyped, Waiting
    <3>3. OnItsWay'
      BY <3>1 DEF LspInv, LspTyped, OnItsWay, Waiting, Editing
    <3> QED
      BY <3>2, <3>3 DEF LspInv
  <2> QED
    BY <1>7, <2>1, TakeOnItsWay, SendOnItsWay, ServeOnItsWay DEF Syncs
<1>8. CASE Replies
  <2>1. PICK r \in symbolRequests : ServerAnswers(r)
    BY <1>8 DEF Replies
  <2>2. querier' \in Askings
    BY <1>0, <2>1 DEF ServerAnswers, Out
  <2> QED
    BY <2>1, <2>2, AskOnItsWay DEF ServerAnswers, lspTexts
<1>9. ASSUME NEW q \in Queriers, Queries(q) \/ Asking(q) PROVE LspInv'
  <2>1. CASE Queries(q)
    <3>1. querier' \in Askings
      BY <1>0, <2>1 DEF Queries
    <3> QED
      BY <2>1, <3>1, AskOnItsWay DEF Queries, lspTexts
  <2>2. CASE QuerierReads(q)
    <3>1. querier' \in Askings
      BY <1>0, <2>2 DEF QuerierReads, Out
    <3> QED
      BY <2>2, <3>1, AskOnItsWay DEF QuerierReads, lspTexts
  <2>3. CASE QuerierAsks(q)
    <3>1. querier' \in Askings
      BY <1>0, <2>3 DEF QuerierAsks
    <3> QED
      BY <2>3, <3>1, AskOnItsWay DEF QuerierAsks, lspTexts
  <2>4. CASE GivesUp(q)
    <3>1. querier' \in Askings
      BY <1>0, <2>4 DEF GivesUp, Out
    <3> QED
      BY <2>4, <3>1, AskOnItsWay DEF GivesUp, lspTexts
  <2> QED
    BY <1>9, <2>1, <2>2, <2>3, <2>4, OpenOnItsWay DEF Asking
<1>10. CASE UNCHANGED lspVars
  BY <1>0, <1>10, AskOnItsWay DEF lspVars
<1> QED
  BY <1>1, <1>2, <1>3, <1>4, <1>5, <1>6, <1>7, <1>8, <1>9, <1>10 DEF LspNext

\* ServerFollows: once the queue is worked off, a server that has the document open has the
\* text the editor gave last, whatever died and whoever queried meanwhile
\* (standard_lsp_backend.cpp, the worker of doc_queue_).
THEOREM LspServerFollows == LspSpec => []ServerFollows
<1>1. LspInv => ServerFollows
  BY DEF LspInv, OnItsWay, ServerFollows, LastGives, Waiting, Editing
<1> QED
  BY <1>1, LspInvInit, LspStep, PTL DEF LspSpec

-----------------------------------------------------------------------------
(* A command that was not stopped has all its output shown, wherever a chunk ended. *)

Bytes  == {"x", NL}
Texts  == Seq(Bytes)
Pieces == [lines : Seq(Texts), rest : Texts]

\* One more byte leaves pieces.
LEMMA OneMoreTyped ==
  ASSUME NEW b \in Pieces, NEW c \in Bytes
  PROVE  OneMore(b, c) \in Pieces
<1>1. b.lines \in Seq(Texts) /\ b.rest \in Seq(Bytes) /\ <<>> \in Texts
  BY DEF Pieces, Texts
<1>2. Append(b.lines, b.rest) \in Seq(Texts) /\ Append(b.rest, c) \in Seq(Bytes)
  BY <1>1 DEF Texts
<1>3. CASE c = NL
  <2>1. OneMore(b, c) = [lines |-> Append(b.lines, b.rest), rest |-> <<>>]
    BY <1>3 DEF OneMore
  <2> QED
    BY <1>1, <1>2, <2>1 DEF Pieces
<1>4. CASE c # NL
  <2>1. OneMore(b, c) = [lines |-> b.lines, rest |-> Append(b.rest, c)]
    BY <1>4 DEF OneMore
  <2> QED
    BY <1>1, <1>2, <2>1 DEF Pieces, Texts
<1> QED
  BY <1>3, <1>4


-----------------------------------------------------------------------------
BreaksUp(g, t) == g = [k \in 0..Len(t) |-> IF k = 0 THEN Nothing ELSE OneMore(g[k - 1], t[k])]

\* A text and a longer one that begins with it are broken alike.
LEMMA AlikeSoFar ==
  ASSUME NEW t \in Texts, NEW u \in Texts, Len(t) <= Len(u), \A k \in 1..Len(t) : u[k] = t[k],
         NEW g, NEW h, BreaksUp(g, t), BreaksUp(h, u)
  PROVE  \A k \in 0..Len(t) : g[k] = h[k]
<1> DEFINE Bad == {k \in 0..Len(t) : g[k] # h[k]}
<1>1. Len(t) \in Nat /\ Len(u) \in Nat
  BY DEF Texts
<1>2. Bad = {}
  <2> SUFFICES ASSUME Bad # {} PROVE FALSE
    OBVIOUS
  <2>1. Bad \in SUBSET Nat
    BY <1>1
  <2>2. PICK m \in Bad : \A l \in Bad : m <= l
    BY <2>1, LeastNumber
  <2>3. m \in 1..Len(t) /\ m \in 1..Len(u)
    BY <1>1, <2>2 DEF BreaksUp
  <2>4. m - 1 \in 0..Len(t) /\ m - 1 \notin Bad
    BY <1>1, <2>2, <2>3
  <2>5. g[m] = OneMore(g[m - 1], t[m]) /\ h[m] = OneMore(h[m - 1], u[m])
    <3>1. m \in 0..Len(t) /\ m \in 0..Len(u) /\ m # 0
      BY <1>1, <2>3
    <3>2. g[m] = OneMore(g[m - 1], t[m])
      BY <3>1 DEF BreaksUp
    <3>3. h[m] = OneMore(h[m - 1], u[m])
      BY <3>1 DEF BreaksUp
    <3> QED
      BY <3>2, <3>3
  <2> QED
    BY <2>2, <2>3, <2>4, <2>5
<1> QED
  BY <1>2

LEMMA BrokenUp ==
  ASSUME NEW t \in Texts
  PROVE  \E g \in [0..Len(t) -> Pieces] : BreaksUp(g, t) /\ Broken(t) = g[Len(t)]
<1>1. Len(t) \in Nat /\ DOMAIN t = 1..Len(t) /\ \A k \in 1..Len(t) : t[k] \in Bytes
  BY DEF Texts
<1>2. Nothing \in Pieces
  BY DEF Nothing, Pieces, Texts
<1> DEFINE F == [k \in 1..Len(t) |-> [b \in Pieces |-> OneMore(b, t[k])]]
<1>3. F \in [1..Len(t) -> [Pieces -> Pieces]]
  BY <1>1, OneMoreTyped
<1> HIDE DEF F
<1>4. PICK f : Along(f, Pieces, Len(t), Nothing, F)
  BY <1>1, <1>2, <1>3, Recursion
<1>5. \A k \in 1..Len(t) : f[k - 1] \in Pieces
  <2>1. \A k \in 1..Len(t) : k - 1 \in 0..Len(t)
    BY <1>1
  <2> QED
    BY <1>4, <2>1 DEF Along
<1>6. \A k \in 1..Len(t) : f[k] = OneMore(f[k - 1], t[k])
  BY <1>4, <1>5 DEF F, Along
<1>7. BreaksUp(f, t)
  BY <1>1, <1>4, <1>6 DEF BreaksUp, Along
<1> DEFINE c == CHOOSE g : BreaksUp(g, t)
<1>8. BreaksUp(c, t)
  BY <1>7
<1>9. Broken(t) = c[Len(t)]
  BY DEF Broken, BreaksUp
<1> HIDE DEF c
<1>10. c[Len(t)] = f[Len(t)]
  BY <1>1, <1>7, <1>8, AlikeSoFar
<1> QED
  BY <1>4, <1>7, <1>9, <1>10 DEF Along

\* A text is broken byte by byte.
LEMMA BrokenByOne ==
  /\ Broken(<<>>) = Nothing
  /\ \A t \in Texts : Broken(t) \in Pieces
  /\ \A t \in Texts, c \in Bytes : Broken(Append(t, c)) = OneMore(Broken(t), c)
<1>1. Broken(<<>>) = Nothing
  <2>1. <<>> \in Texts /\ Len(<<>>) = 0
    BY DEF Texts
  <2> QED
    BY <2>1, BrokenUp DEF BreaksUp
<1>2. ASSUME NEW t \in Texts PROVE Broken(t) \in Pieces
  <2>1. Len(t) \in 0..Len(t)
    BY DEF Texts
  <2> QED
    BY <2>1, BrokenUp
<1>3. ASSUME NEW t \in Texts, NEW c \in Bytes PROVE Broken(Append(t, c)) = OneMore(Broken(t), c)
  <2> DEFINE u == Append(t, c)
  <2>1. u \in Texts /\ Len(u) = Len(t) + 1 /\ u[Len(t) + 1] = c /\ \A k \in 1..Len(t) : u[k] = t[k]
    BY AppendProperties DEF Texts
  <2>2. Len(t) \in Nat
    BY DEF Texts
  <2> HIDE DEF u
  <2>3. PICK g : BreaksUp(g, t) /\ Broken(t) = g[Len(t)]
    BY BrokenUp
  <2>4. PICK h : BreaksUp(h, u) /\ Broken(u) = h[Len(u)]
    BY <2>1, BrokenUp
  <2>5. g[Len(t)] = h[Len(t)]
    BY <2>1, <2>2, <2>3, <2>4, AlikeSoFar
  <2>6. Len(t) + 1 \in 0..Len(t) + 1 /\ Len(t) + 1 # 0 /\ (Len(t) + 1) - 1 = Len(t)
    BY <2>2
  <2>7. h[Len(t) + 1] = OneMore(h[Len(t)], c)
    BY <2>1, <2>4, <2>6 DEF BreaksUp
  <2> QED
    BY <2>1, <2>3, <2>4, <2>5, <2>7 DEF u
<1> QED
  BY <1>1, <1>2, <1>3

\* Where a chunk ends makes no difference: what was left of the text before it goes
\* in front.
LEMMA BrokenInTwo ==
  ASSUME NEW a \in Texts, NEW b \in Texts
  PROVE  /\ LinesIn(a \o b) = LinesIn(a) \o LinesIn(RestOf(a) \o b)
         /\ RestOf(a \o b) = RestOf(RestOf(a) \o b)
<1> DEFINE Divides(x, y) == /\ LinesIn(x \o y) = LinesIn(x) \o LinesIn(RestOf(x) \o y)
                            /\ RestOf(x \o y) = RestOf(RestOf(x) \o y)
           Whole == {x \in Texts : Broken(RestOf(x)) = [lines |-> <<>>, rest |-> RestOf(x)]}
           After(x) == {y \in Texts : Divides(x, y)}
<1>1. \A x \in Texts : LinesIn(x) \in Seq(Texts) /\ RestOf(x) \in Texts
  BY BrokenByOne DEF Pieces, LinesIn, RestOf
<1>2. Texts \subseteq Whole
  <2>1. <<>> \in Whole
    BY BrokenByOne DEF Nothing, RestOf, Texts
  <2>2. ASSUME NEW t \in Texts, NEW c \in Bytes, t \in Whole PROVE Append(t, c) \in Whole
    <3>1. Append(t, c) \in Texts
      BY AppendProperties DEF Texts
    <3>2. CASE c = NL
      <4>1. RestOf(Append(t, c)) = <<>>
        BY <3>2, BrokenByOne DEF OneMore, RestOf
      <4> QED
        BY <3>1, <4>1, BrokenByOne DEF Nothing
    <3>3. CASE c # NL
      <4>1. RestOf(Append(t, c)) = Append(RestOf(t), c)
        BY <3>3, BrokenByOne DEF OneMore, RestOf
      <4>2. Broken(Append(RestOf(t), c)) = OneMore(Broken(RestOf(t)), c)
        BY <1>1, BrokenByOne
      <4>3. OneMore([lines |-> <<>>, rest |-> RestOf(t)], c) = [lines |-> <<>>, rest |-> Append(RestOf(t), c)]
        BY <3>3 DEF OneMore
      <4> QED
        BY <2>2, <3>1, <4>1, <4>2, <4>3
    <3> QED
      BY <3>2, <3>3
  <2> HIDE DEF Whole
  <2> QED
    BY <2>1, <2>2, ByAppending DEF Texts
<1>3. ASSUME NEW x \in Texts PROVE Texts \subseteq After(x)
  <2>1. <<>> \in After(x)
    <3>1. x \o <<>> = x /\ RestOf(x) \o <<>> = RestOf(x) /\ LinesIn(x) \o <<>> = LinesIn(x)
      BY <1>1, ConcatEmptySeq DEF Texts
    <3>2. Broken(RestOf(x)) = [lines |-> <<>>, rest |-> RestOf(x)]
      BY <1>2
    <3>3. LinesIn(RestOf(x)) = <<>> /\ RestOf(RestOf(x)) = RestOf(x)
      BY <3>2 DEF LinesIn, RestOf
    <3>4. <<>> \in Texts
      BY DEF Texts
    <3>5. Divides(x, <<>>)
      BY <3>1, <3>3
    <3> QED
      BY <3>4, <3>5
  <2>2. ASSUME NEW y \in Texts, NEW c \in Bytes, y \in After(x) PROVE Append(y, c) \in After(x)
    <3>1. Append(y, c) \in Texts /\ x \o y \in Texts /\ RestOf(x) \o y \in Texts
      BY <1>1, AppendProperties, ConcatProperties DEF Texts
    <3>2. x \o Append(y, c) = Append(x \o y, c) /\ RestOf(x) \o Append(y, c) = Append(RestOf(x) \o y, c)
      <4>1. x \in Seq(Bytes) /\ y \in Seq(Bytes) /\ RestOf(x) \in Seq(Bytes)
        BY <1>1 DEF Texts
      <4>2. x \o Append(y, c) = Append(x \o y, c)
        BY <4>1, AppendInside
      <4>3. RestOf(x) \o Append(y, c) = Append(RestOf(x) \o y, c)
        BY <4>1, AppendInside
      <4> QED
        BY <4>2, <4>3
    <3>3. /\ Broken(x \o Append(y, c)) = OneMore(Broken(x \o y), c)
          /\ Broken(RestOf(x) \o Append(y, c)) = OneMore(Broken(RestOf(x) \o y), c)
      BY <3>1, <3>2, BrokenByOne
    <3>4. Divides(x, y)
      BY <2>2
    <3>5. CASE c = NL
      <4>1. /\ RestOf(x \o Append(y, c)) = <<>> /\ RestOf(RestOf(x) \o Append(y, c)) = <<>>
            /\ LinesIn(x \o Append(y, c)) = Append(LinesIn(x \o y), RestOf(x \o y))
            /\ LinesIn(RestOf(x) \o Append(y, c))
                 = Append(LinesIn(RestOf(x) \o y), RestOf(RestOf(x) \o y))
        BY <3>3, <3>5 DEF OneMore, LinesIn, RestOf
      <4>2. /\ LinesIn(x) \in Seq(Texts) /\ LinesIn(RestOf(x) \o y) \in Seq(Texts)
            /\ RestOf(RestOf(x) \o y) \in Texts
        BY <1>1, <3>1
      <4>3. \A p \in Seq(Texts), q \in Seq(Texts), e \in Texts : p \o Append(q, e) = Append(p \o q, e)
        BY AppendInside
      <4>4. LinesIn(x) \o Append(LinesIn(RestOf(x) \o y), RestOf(RestOf(x) \o y))
              = Append(LinesIn(x) \o LinesIn(RestOf(x) \o y), RestOf(RestOf(x) \o y))
        BY <4>2, <4>3
      <4>5. Append(LinesIn(x) \o LinesIn(RestOf(x) \o y), RestOf(RestOf(x) \o y))
              = Append(LinesIn(x \o y), RestOf(x \o y))
        BY <3>4
      <4>6. Divides(x, Append(y, c))
        BY <4>1, <4>4, <4>5
      <4> QED
        BY <3>1, <4>6
    <3>6. CASE c # NL
      <4>1. /\ RestOf(x \o Append(y, c)) = Append(RestOf(x \o y), c)
            /\ RestOf(RestOf(x) \o Append(y, c)) = Append(RestOf(RestOf(x) \o y), c)
            /\ LinesIn(x \o Append(y, c)) = LinesIn(x \o y)
            /\ LinesIn(RestOf(x) \o Append(y, c)) = LinesIn(RestOf(x) \o y)
        BY <3>3, <3>6 DEF OneMore, LinesIn, RestOf
      <4> QED
        BY <3>1, <3>4, <4>1
    <3> QED
      BY <3>5, <3>6
  <2> HIDE DEF After
  <2> QED
    BY <2>1, <2>2, ByAppending DEF Texts
<1> QED
  BY <1>3

-----------------------------------------------------------------------------
(* What was delivered.  OutputWhole says something of the end only; until then the  *)
(* document shows the lines of what was taken from the pipe, and the buffer holds   *)
(* what is left of it.                                                              *)

Delivered ==
    \E d \in Texts : wrote = d \o pipe /\ shown = LinesIn(d) /\ buffer = RestOf(d)

RunnerInv ==
    /\ step \in {"check", "poll", "read", "hup", "kill", "wait", "done"}
    /\ pipe \in Texts
    /\ step \in {"check", "poll", "read", "hup"} => ~canceled
    /\ step = "kill" => canceled
    /\ step # "done" /\ ~canceled /\ ~broken => Delivered
    /\ step = "wait" /\ ~canceled => pipe = <<>>
    /\ broken => step \in {"wait", "done"}
    /\ OutputWhole

\* Taking a part of the pipe and delivering it.
LEMMA DeliveredOn ==
  ASSUME Delivered, NEW a \in Texts, NEW b \in Texts, pipe = a \o b, Deliver(a), pipe' = b,
         wrote' = wrote
  PROVE  Delivered'
<1>1. PICK d \in Texts : wrote = d \o pipe /\ shown = LinesIn(d) /\ buffer = RestOf(d)
  BY DEF Delivered
<1>2. d \o a \in Texts
  BY ConcatProperties DEF Texts
<1>3. wrote' = (d \o a) \o b
  <2>1. d \in Seq(Bytes) /\ a \in Seq(Bytes) /\ b \in Seq(Bytes)
    BY DEF Texts
  <2>2. d \o (a \o b) = (d \o a) \o b
    BY <2>1, ConcatAssociative, SMTT(30)
  <2> QED
    BY <1>1, <2>2
<1>4. shown' = LinesIn(d \o a) /\ buffer' = RestOf(d \o a)
  BY <1>1, BrokenInTwo DEF Deliver
<1> QED
  BY <1>2, <1>3, <1>4 DEF Delivered

LEMMA RunnerStep == RunnerInv /\ [RunNext]_runVars => RunnerInv'
<1> SUFFICES ASSUME RunnerInv, [RunNext]_runVars PROVE RunnerInv'
  OBVIOUS
<1> USE DEF RunnerInv, runner, program
<1>1. ASSUME NEW b \in Bytes, Outputs(b) PROVE RunnerInv'
  <2>1. pipe' \in Texts
    BY <1>1, AppendProperties DEF Outputs, Texts
  <2>2. ASSUME Delivered PROVE Delivered'
    <3>1. PICK d \in Texts : wrote = d \o pipe /\ shown = LinesIn(d) /\ buffer = RestOf(d)
      BY <2>2 DEF Delivered
    <3>2. wrote' = d \o pipe'
      BY <1>1, <3>1, AppendInside DEF Outputs, Texts
    <3>3. UNCHANGED <<shown, buffer>>
      BY <1>1 DEF Outputs
    <3> QED
      BY <3>1, <3>2, <3>3 DEF Delivered
  <2>3. step' = step /\ canceled' = canceled /\ broken' = broken /\ step \notin {"wait", "done"}
    BY <1>1 DEF Outputs
  <2> QED
    BY <2>1, <2>2, <2>3 DEF OutputWhole
<1>2. CASE JoinsGroup \/ ClosesOutput \/ Backgrounds \/ ChildExits \/ BehindExits \/ Interrupted
  <2>1. UNCHANGED <<step, canceled, broken, pipe, wrote, shown, buffer>>
    BY <1>2 DEF JoinsGroup, ClosesOutput, Backgrounds, ChildExits, BehindExits, Interrupted
  <2> QED
    BY <2>1 DEF Delivered, OutputWhole
<1>3. CASE LooksAtStop
  <2>1. /\ UNCHANGED <<pipe, wrote, shown, buffer, broken>> /\ step = "check" /\ step' \in {"kill", "poll"}
        /\ step' = "kill" <=> canceled'
    BY <1>3 DEF LooksAtStop
  <2> QED
    BY <2>1 DEF Delivered, OutputWhole
<1>4. CASE PollsPipe \/ Retries
  <2>1. /\ UNCHANGED <<pipe, wrote, shown, buffer, canceled, broken>> /\ step \in {"poll", "read"}
        /\ step' \in {"read", "hup", "check"}
    BY <1>4 DEF PollsPipe, Retries
  <2> QED
    BY <2>1 DEF Delivered, OutputWhole
<1>5. CASE ReadsPipe
  <2> DEFINE n == Len(NextChunk)
  <2>1. Len(pipe) \in Nat /\ Chunk \in Nat
    BY ChunkAssumption DEF Texts
  <2>2. NextChunk \in Texts /\ n \in 0..Len(pipe) /\ NextChunk = SubSeq(pipe, 1, n)
    BY <2>1, SubSeqProperties DEF NextChunk, Texts
  <2>3. SubSeq(pipe, n + 1, Len(pipe)) \in Texts
    BY <2>1, <2>2, SubSeqProperties DEF Texts
  <2>4. pipe = NextChunk \o SubSeq(pipe, n + 1, Len(pipe))
    BY <2>1, <2>2, ConcatAdjacentSubSeq DEF Texts
  <2>5. /\ Deliver(NextChunk) /\ pipe' = SubSeq(pipe, n + 1, Len(pipe)) /\ step = "read"
        /\ step' \in {"hup", "check"} /\ UNCHANGED <<wrote, canceled, broken>>
    BY <1>5 DEF ReadsPipe
  <2> HIDE DEF n
  <2>6. Delivered => Delivered'
    BY <2>2, <2>3, <2>4, <2>5, DeliveredOn
  <2> QED
    BY <2>3, <2>5, <2>6 DEF OutputWhole
<1>6. CASE HangsUp
  <2>1. pipe = pipe \o <<>> /\ <<>> \in Texts
    BY ConcatEmptySeq DEF Texts
  <2>2. /\ Deliver(pipe) /\ pipe' = <<>> /\ step = "hup" /\ step' = "wait"
        /\ UNCHANGED <<wrote, canceled, broken>>
    BY <1>6 DEF HangsUp, Drained
  <2>3. Delivered => Delivered'
    BY <2>1, <2>2, DeliveredOn
  <2> QED
    BY <2>1, <2>2, <2>3 DEF OutputWhole
<1>7. CASE KillsGroup
  <2>1. canceled' /\ step' = "wait" /\ pipe' = <<>> /\ broken' = broken
    BY <1>7 DEF KillsGroup
  <2> QED
    BY <2>1 DEF OutputWhole, Texts
<1>8. CASE ReapsChild
  <2>1. /\ step = "wait" /\ step' = "done" /\ UNCHANGED <<canceled, broken, pipe, wrote>>
        /\ shown' = IF buffer = <<>> THEN shown ELSE Append(shown, buffer)
    BY <1>8 DEF ReapsChild
  <2>2. ASSUME ~canceled, ~broken PROVE shown' = WholeLines(wrote)
    <3>1. PICK d \in Texts : wrote = d \o pipe /\ shown = LinesIn(d) /\ buffer = RestOf(d)
      BY <2>1, <2>2 DEF Delivered
    <3>2. wrote = d
      BY <2>1, <2>2, <3>1, ConcatEmptySeq DEF Texts
    <3>3. LinesIn(d) \in Seq(Texts) /\ RestOf(d) \in Texts
      BY BrokenByOne DEF Pieces, LinesIn, RestOf
    <3>4. CASE RestOf(d) = <<>>
      BY <2>1, <3>1, <3>2, <3>3, <3>4, ConcatEmptySeq DEF WholeLines
    <3>5. CASE RestOf(d) # <<>>
      BY <2>1, <3>1, <3>2, <3>3, <3>5, AppendIsConcat DEF WholeLines
    <3> QED
      BY <3>4, <3>5
  <2> QED
    BY <2>1, <2>2 DEF OutputWhole
<1>10. CASE PipeFails
  <2>1. broken' /\ step \in {"poll", "read"} /\ step' = "wait" /\ pipe' = <<>> /\ canceled' = canceled
    BY <1>10 DEF PipeFails
  <2> QED
    BY <2>1 DEF OutputWhole, Texts
<1>9. CASE UNCHANGED runVars
  BY <1>9 DEF runVars, Delivered, OutputWhole
<1> QED
  BY <1>1, <1>2, <1>3, <1>4, <1>5, <1>6, <1>7, <1>8, <1>9, <1>10 DEF RunNext, Executes, Program, Bytes

\* A command that was not stopped, and whose pipe did not fail, has all its output shown, line by line, whatever
\* the chunks it came in and whichever of its processes closed the output last.
THEOREM RunnerShowsAll == RunSpec => []OutputWhole
<1>1. RunInit => RunnerInv
  <2> SUFFICES ASSUME RunInit PROVE RunnerInv
    OBVIOUS
  <2>1. <<>> \in Texts /\ <<>> \o <<>> = <<>>
    BY ConcatEmptySeq DEF Texts
  <2>2. LinesIn(<<>>) = <<>> /\ RestOf(<<>>) = <<>>
    BY BrokenByOne DEF Nothing, LinesIn, RestOf
  <2> QED
    BY <2>1, <2>2 DEF RunInit, RunnerInv, Delivered, OutputWhole
<1>2. RunnerInv => OutputWhole
  BY DEF RunnerInv
<1> QED
  BY <1>1, <1>2, RunnerStep, PTL DEF RunSpec
=============================================================================
