---------------------------- MODULE AgentsProofs ----------------------------
(* Agents that have agents: the tree of subagents, and tasks given over the network. *)
EXTENDS AgentTreeProps, RemoteTasks, TLAPS

-----------------------------------------------------------------------------
(* Whatever the agents, the tools they are given and the bounds: a subagent of an agent
   that was declared dead is dead and closed, or about to be, or was spawned too late. *)

\* The part of the types that the cascade is about.
FamilyTyped ==
    /\ subs \in [Agents -> SUBSET Agents]
    /\ closed \in [Agents -> BOOLEAN]
    /\ doomed \in [Agents -> {"no", "close", "dead"}]

\* A subagent in the cascade is closed before it is set to dead.
ClosedFirst == \A c \in Agents : doomed[c] = "dead" => closed[c]

\* OnlyLateSpawnsEscape made inductive: what it says once the cascade is over holds in
\* the midst of it for the subagents the cascade has done with.
Reached == \A a \in fallen : \A c \in subs[a] \ late : doomed[c] # "no" \/ (closed[c] /\ c \in fallen)

TreeInv == FamilyTyped /\ fallen \subseteq Agents /\ ClosedFirst /\ Reached

LEMMA InitReached == TreeInit => TreeInv
  BY DEF TreeInit, TreeInv, FamilyTyped, ClosedFirst, Reached

\* A new subagent of an agent that is dead is counted as late.
LEMMA BornReached ==
  ASSUME TreeInv, NEW c \in Agents, NEW a, NEW st, NEW lp, Born(c, a, st, lp),
         UNCHANGED <<closed, doomed, fallen>>
  PROVE  TreeInv'
<1>1. /\ subs' = [subs EXCEPT ![a] = @ \union {c}]
      /\ late' = IF a \in fallen THEN late \union {c} ELSE late
  BY DEF Born
<1>2. subs' \in [Agents -> SUBSET Agents]
  BY <1>1 DEF TreeInv, FamilyTyped
<1>3. ASSUME NEW b \in fallen, NEW d \in subs'[b] \ late' PROVE d \in subs[b] \ late
  BY <1>1, <1>3 DEF TreeInv, FamilyTyped
<1>4. Reached'
  BY <1>3 DEF TreeInv, Reached
<1> QED
  BY <1>2, <1>4 DEF TreeInv, FamilyTyped, ClosedFirst

\* What a death collects, when the agent is added to the fallen.
LEMMA CollectReached ==
  ASSUME TreeInv, NEW a \in Agents, doomed' = Collect(a), fallen' = fallen \union {a},
         UNCHANGED <<subs, closed, late>>
  PROVE  TreeInv'
  BY DEF TreeInv, FamilyTyped, ClosedFirst, Reached, Collect

\* A step that leaves the cascade's variables alone.
LEMMA StutterReached ==
  ASSUME TreeInv, UNCHANGED <<subs, closed, doomed, late, fallen>> PROVE TreeInv'
  BY DEF TreeInv, FamilyTyped, ClosedFirst, Reached

LEMMA FinishReached ==
  ASSUME TreeInv, NEW a \in Agents, Finishes(a) PROVE TreeInv'
<1>1. UNCHANGED <<subs, closed, late>> /\ \/ doomed' = Collect(a) /\ fallen' = fallen \union {a}
                                          \/ UNCHANGED <<doomed, fallen>>
  BY DEF Finishes
<1>2. CASE doomed' = Collect(a) /\ fallen' = fallen \union {a}
  BY <1>1, <1>2, CollectReached
<1>3. CASE UNCHANGED <<doomed, fallen>>
  BY <1>1, <1>3, StutterReached
<1> QED
  BY <1>1, <1>2, <1>3

LEMMA KillReached ==
  ASSUME TreeInv, NEW a \in Agents, NEW c \in Agents, Kills(a, c) PROVE TreeInv'
  BY DEF TreeInv, FamilyTyped, ClosedFirst, Reached, Kills

LEMMA RemoveReached ==
  ASSUME TreeInv, NEW a \in Agents, Removes(a) PROVE TreeInv'
  BY DEF TreeInv, FamilyTyped, ClosedFirst, Reached, Removes

LEMMA CloseReached ==
  ASSUME TreeInv, NEW c \in Agents, CascadeCloses(c) PROVE TreeInv'
  BY DEF TreeInv, FamilyTyped, ClosedFirst, Reached, CascadeCloses

\* The subagents of c are collected; c itself is closed and fallen.
LEMMA CascadeReached ==
  ASSUME TreeInv, NEW c \in Agents, CascadeKills(c) PROVE TreeInv'
<1>1. doomed[c] = "dead" /\ closed[c]
  BY DEF CascadeKills, TreeInv, ClosedFirst
<1>2. /\ UNCHANGED <<subs, closed, late>> /\ fallen' = fallen \union {c}
      /\ \A x \in Agents : doomed'[x] = IF x = c THEN "no" ELSE IF x \in subs[c] THEN "close" ELSE doomed[x]
      /\ doomed' \in [Agents -> {"no", "close", "dead"}]
  BY DEF CascadeKills, TreeInv, FamilyTyped, Collect
<1> QED
  BY <1>1, <1>2 DEF TreeInv, FamilyTyped, ClosedFirst, Reached

LEMMA ReapReached ==
  ASSUME TreeInv, VerifierReaps PROVE TreeInv'
  BY DEF TreeInv, FamilyTyped, ClosedFirst, Reached, VerifierReaps, turns

\* The tools: only the spawning ones and kill_subagent touch the family.
LEMMA CallReached ==
  ASSUME TreeInv, NEW a \in Agents, Calls(a) PROVE TreeInv'
<1>1. CASE Concludes(a) \/ SetsTimer(a)
  BY <1>1, StutterReached DEF Concludes, SetsTimer, family
<1>2. ASSUME NEW c \in Agents \ {a}, Spawns(a, c) \/ Invokes(a, c) \/ Reviews(a, c)
      PROVE  TreeInv'
  <2>1. /\ UNCHANGED <<closed, doomed, fallen>>
        /\ \E lp : Born(c, a, InTool(a), lp)
    BY <1>2 DEF Spawns, Invokes, Reviews
  <2> QED
    BY <2>1, BornReached
<1>3. ASSUME NEW c \in Agents \ {a}, Waits(a, c) \/ Sends(a, c) PROVE TreeInv'
  BY <1>3, StutterReached DEF Waits, Sends, family
<1>4. ASSUME NEW c \in Agents \ {a}, Kills(a, c) PROVE TreeInv'
  BY <1>4, KillReached
<1> QED
  BY <1>1, <1>2, <1>3, <1>4 DEF Calls

LEMMA StepReached ==
  ASSUME TreeInv, NEW a \in Agents, Step(a) \/ TimesOut(a) PROVE TreeInv'
<1>1. CASE \/ Top(a) \/ Asks(a) \/ TurnEnds(a) \/ TurnsBack(a) \/ LeavesClosed(a) \/ Report(a)
           \/ Pauses(a) \/ Mutes(a) \/ Returns(a) \/ TimerEnds(a) \/ TimesOut(a)
  BY <1>1, StutterReached
     DEF Top, Asks, TurnEnds, TurnsBack, LeavesClosed, Report, Pauses, Mutes, Returns, TimerEnds,
         TimesOut, family
<1>2. CASE Finishes(a)
  BY <1>2, FinishReached
<1>3. CASE CascadeCloses(a)
  BY <1>3, CloseReached
<1>4. CASE CascadeKills(a)
  BY <1>4, CascadeReached
<1>5. CASE Removes(a)
  BY <1>5, RemoveReached
<1> QED
  BY <1>1, <1>2, <1>3, <1>4, <1>5 DEF Step, Goes

LEMMA TreeStep ==
  ASSUME TreeInv, [TreeNext]_treeVars PROVE TreeInv'
<1>1. CASE Prompt
  BY <1>1, StutterReached DEF Prompt, family
<1>2. CASE VerifierReaps
  BY <1>2, ReapReached
<1>3. ASSUME NEW c \in Agents, VerifierSpawns(c) PROVE TreeInv'
  BY <1>3, BornReached DEF VerifierSpawns
<1>4. ASSUME NEW a \in Agents, Step(a) \/ Calls(a) \/ TimesOut(a) PROVE TreeInv'
  BY <1>4, StepReached, CallReached
<1>5. CASE UNCHANGED treeVars
  BY <1>5, StutterReached DEF treeVars, family
<1> QED
  BY <1>1, <1>2, <1>3, <1>4, <1>5 DEF TreeNext, Verifies

\* For any agents, tools and bounds: once no cascade is in progress, every subagent of an
\* agent that set_status declared dead is closed and dead, but for those that were
\* spawned after the death had collected the subagents.
THEOREM EscapedOnlyLate == TreeSpec => []OnlyLateSpawnsEscape
<1>1. TreeInv => OnlyLateSpawnsEscape
  BY DEF TreeInv, FamilyTyped, Reached, OnlyLateSpawnsEscape, Cascading
<1>2. TreeInv /\ [TreeNext]_treeVars => TreeInv'
  BY TreeStep
<1> QED
  BY <1>1, <1>2, InitReached, PTL DEF TreeSpec

-----------------------------------------------------------------------------
(* For any tasks and clients, any number of lost requests and restarts: what a client
   was told of a task's end stays true.  What makes it so is that a task whose thread is
   still there has not ended in the record, and that what has ended is not cancelled. *)

Stages  == {"off", "prepare", "run", "clean", "finish"}
JobRec  == [at : Stages, tree : BOOLEAN, code : {0, 1}, left : BOOLEAN]
States  == {"none", "running", "completed", "failed", "cancelled"}
Ended   == {"completed", "failed"}
Asker   == [at : {"submit", "poll", "heard", "done"}, task : Tasks \union {NoTask},
            heard : States \union {"enqueued", "error", "timeout"}]

TasksTyped ==
    /\ record \in [Tasks -> States] /\ issued \subseteq Tasks
    /\ job \in [Tasks -> JobRec] /\ client \in [Clients -> Asker]

\* A record is of a task that was given out, and has not ended while its thread runs.
Recorded ==
    \A t \in Tasks : /\ record[t] # "none" => t \in issued
                     /\ job[t].at # "off" => record[t] \in {"running", "cancelled"}

\* A client asks for a task that was given out, and what it knows of its end holds.
Informed ==
    \A c \in Clients :
        /\ client[c].at \in {"poll", "heard"} => client[c].task \in issued
        /\ client[c].heard \in Ended =>
             client[c].task \in issued /\ record[client[c].task] \in {client[c].heard, "none"}

TaskInv == TasksTyped /\ Recorded /\ Informed

-----------------------------------------------------------------------------
LEMMA InitInv == TaskInit => TaskInv
<1> SUFFICES ASSUME TaskInit PROVE TaskInv
  OBVIOUS
<1>1. TasksTyped
  BY DEF TaskInit, TasksTyped, States, JobRec, Stages, NoJob, Client, Asker
<1>2. Recorded
  BY DEF TaskInit, Recorded, NoJob
<1>3. Informed
  BY DEF TaskInit, Informed, Client, Ended
<1> QED
  BY <1>1, <1>2, <1>3 DEF TaskInv

\* A thread that goes on in its task leaves the record as it is.
LEMMA ThreadGoesOn ==
  ASSUME TaskInv, NEW t \in Tasks, job[t].at # "off",
         NEW r \in JobRec, job' = [job EXCEPT ![t] = r],
         UNCHANGED <<record, issued, client>>
  PROVE  TaskInv'
<1>1. TasksTyped'
  BY DEF TaskInv, TasksTyped
<1>2. Recorded'
  BY DEF TaskInv, TasksTyped, Recorded
<1>3. Informed'
  BY DEF TaskInv, Informed
<1> QED
  BY <1>1, <1>2, <1>3 DEF TaskInv

\* A record may change while it has not ended: nobody was told its end.
LEMMA RecordChanges ==
  ASSUME TaskInv, NEW t \in Tasks, record[t] \in {"running", "cancelled"},
         NEW s \in States \ {"none"}, record' = [record EXCEPT ![t] = s],
         UNCHANGED <<issued, client>>
  PROVE  Informed'
  BY DEF TaskInv, TasksTyped, Informed, Ended, States, Asker

\* A client that hears nothing of an end knows nothing that could become false.
LEMMA ClientGoesOn ==
  ASSUME TaskInv, NEW c \in Clients, NEW k \in Asker, client' = [client EXCEPT ![c] = k],
         k.at \in {"poll", "heard"} => k.task \in issued,
         k.heard \in Ended => k.task \in issued /\ record[k.task] \in {k.heard, "none"},
         UNCHANGED <<record, issued, job>>
  PROVE  TaskInv'
<1>1. TasksTyped'
  BY DEF TaskInv, TasksTyped
<1>2. Recorded'
  BY DEF TaskInv, Recorded
<1>3. Informed'
  BY DEF TaskInv, TasksTyped, Informed
<1> QED
  BY <1>1, <1>2, <1>3 DEF TaskInv

-----------------------------------------------------------------------------
LEMMA JobFields ==
  ASSUME NEW r \in JobRec
  PROVE  r = [at |-> r.at, tree |-> r.tree, code |-> r.code, left |-> r.left]
  BY DEF JobRec

LEMMA PrepareInv ==
  ASSUME TaskInv, NEW t \in Tasks, PreparesTask(t)
  PROVE  TaskInv'
<1>1. PICK made \in BOOLEAN : job' = [job EXCEPT ![t].at = "run", ![t].tree = made]
  BY DEF PreparesTask
<1> DEFINE r == [job[t] EXCEPT !.at = "run", !.tree = made]
<1>2. job[t] \in JobRec /\ r \in JobRec
  BY DEF TaskInv, TasksTyped, JobRec, Stages
<1>3. job' = [job EXCEPT ![t] = r]
  BY <1>1 DEF TaskInv, TasksTyped
<1> HIDE DEF r
<1> QED
  BY <1>2, <1>3, ThreadGoesOn DEF PreparesTask

LEMMA RunInv ==
  ASSUME TaskInv, NEW t \in Tasks, RunsTask(t)
  PROVE  TaskInv'
<1>1. PICK code \in {0, 1}, left \in BOOLEAN :
        job' = [job EXCEPT ![t].at = "clean", ![t].code = code, ![t].left = left]
  BY DEF RunsTask
<1> DEFINE r == [job[t] EXCEPT !.at = "clean", !.code = code, !.left = left]
<1>2. job[t] \in JobRec /\ r \in JobRec
  BY DEF TaskInv, TasksTyped, JobRec, Stages
<1>3. job' = [job EXCEPT ![t] = r]
  BY <1>1 DEF TaskInv, TasksTyped
<1> HIDE DEF r
<1> QED
  BY <1>2, <1>3, ThreadGoesOn DEF RunsTask

LEMMA CleanInv ==
  ASSUME TaskInv, NEW t \in Tasks, CleansTask(t)
  PROVE  TaskInv'
<1> DEFINE r == [job[t] EXCEPT !.at = "finish", !.left = @ /\ ~job[t].tree]
<1>2. job[t] \in JobRec /\ r \in JobRec
  BY DEF TaskInv, TasksTyped, JobRec, Stages
<1>3. job' = [job EXCEPT ![t] = r]
  BY DEF CleansTask, TaskInv, TasksTyped
<1> HIDE DEF r
<1> QED
  BY <1>2, <1>3, ThreadGoesOn DEF CleansTask

LEMMA FinishInv ==
  ASSUME TaskInv, NEW t \in Tasks, FinishesTask(t)
  PROVE  TaskInv'
<1>1. record[t] \in {"running", "cancelled"} /\ Outcome(t) \in Ended
  BY DEF FinishesTask, TaskInv, Recorded, Outcome, Ended
<1>2. record' = [record EXCEPT ![t] = Outcome(t)] /\ job' = [job EXCEPT ![t] = NoJob]
      /\ UNCHANGED <<issued, client>>
  BY DEF FinishesTask
<1>3. TasksTyped'
  BY <1>1, <1>2 DEF TaskInv, TasksTyped, States, Ended, NoJob, JobRec, Stages
<1>4. Recorded'
  BY <1>1, <1>2 DEF TaskInv, TasksTyped, Recorded, NoJob
<1>5. Informed'
  BY <1>1, <1>2, RecordChanges DEF Ended, States
<1> QED
  BY <1>3, <1>4, <1>5 DEF TaskInv

LEMMA CancelInv ==
  ASSUME TaskInv, NEW t \in Tasks, CancelsTask(t)
  PROVE  TaskInv'
<1>1. record[t] \in {"running", "cancelled"} /\ record' = [record EXCEPT ![t] = "cancelled"]
      /\ UNCHANGED <<issued, job, client>>
  BY DEF CancelsTask, Cancellable
<1>2. TasksTyped'
  BY <1>1 DEF TaskInv, TasksTyped, States
<1>3. Recorded'
  BY <1>1 DEF TaskInv, TasksTyped, Recorded
<1>4. Informed'
  BY <1>1, RecordChanges DEF States
<1> QED
  BY <1>2, <1>3, <1>4 DEF TaskInv

LEMMA RestartInv ==
  ASSUME TaskInv, ServerRestarts
  PROVE  TaskInv'
<1>1. TasksTyped'
  BY DEF ServerRestarts, TaskInv, TasksTyped, States, NoJob, JobRec, Stages
<1>2. Recorded'
  BY DEF ServerRestarts, Recorded, NoJob
<1>3. Informed'
  BY DEF ServerRestarts, TaskInv, TasksTyped, Informed
<1> QED
  BY <1>1, <1>2, <1>3 DEF TaskInv

-----------------------------------------------------------------------------
\* A new record is of a task no client has heard of.
LEMMA SubmitInv ==
  ASSUME TaskInv, NEW c \in Clients, Submits(c)
  PROVE  TaskInv'
<1>1. PICK t \in Tasks, k \in Asker :
        /\ Enrolled(t) /\ client' = [client EXCEPT ![c] = k]
        /\ k.heard \notin Ended /\ (k.at \in {"poll", "heard"} => k.task = t)
  <2>1. PICK t \in Tasks :
          /\ Enrolled(t)
          /\ \/ \E at \in {"poll", "done"} : client' = [client EXCEPT ![c] = Client(at, t, "enqueued")]
             \/ client' = [client EXCEPT ![c] = Client("done", NoTask, "error")]
    BY DEF Submits
  <2>2. CASE client' = [client EXCEPT ![c] = Client("done", NoTask, "error")]
    <3> DEFINE k == Client("done", NoTask, "error")
    <3>1. k \in Asker /\ k.heard \notin Ended /\ k.at = "done"
      BY DEF Client, Asker, Ended
    <3> HIDE DEF k
    <3> QED
      BY <2>1, <2>2, <3>1 DEF k
  <2>3. ASSUME NEW at \in {"poll", "done"}, client' = [client EXCEPT ![c] = Client(at, t, "enqueued")]
        PROVE  \E k \in Asker :
                 /\ Enrolled(t) /\ client' = [client EXCEPT ![c] = k]
                 /\ k.heard \notin Ended /\ (k.at \in {"poll", "heard"} => k.task = t)
    <3> DEFINE k == Client(at, t, "enqueued")
    <3>1. k \in Asker /\ k.heard \notin Ended /\ k.task = t
      BY DEF Client, Asker, Ended
    <3>2. client' = [client EXCEPT ![c] = k]
      BY <2>3
    <3> HIDE DEF k
    <3> QED
      BY <2>1, <3>1, <3>2
  <2> QED
    BY <2>1, <2>2, <2>3
<1>2. /\ t \notin issued /\ issued' = issued \union {t}
      /\ record' = [record EXCEPT ![t] = "running"]
      /\ job' = [job EXCEPT ![t].at = "prepare"]
  BY <1>1 DEF Enrolled
<1> DEFINE r == [job[t] EXCEPT !.at = "prepare"]
<1>3. job[t] \in JobRec /\ r \in JobRec
  BY DEF TaskInv, TasksTyped, JobRec, Stages
<1>4. job' = [job EXCEPT ![t] = r]
  BY <1>2 DEF TaskInv, TasksTyped
<1> HIDE DEF r
<1>5. TasksTyped'
  BY <1>1, <1>2, <1>3, <1>4 DEF TaskInv, TasksTyped, States
<1>6. Recorded'
  BY <1>2, <1>4 DEF TaskInv, TasksTyped, Recorded
<1>7. Informed'
  BY <1>1, <1>2 DEF TaskInv, TasksTyped, Informed
<1> QED
  BY <1>5, <1>6, <1>7 DEF TaskInv

LEMMA SubmitFailInv ==
  ASSUME TaskInv, NEW c \in Clients, SubmitFails(c)
  PROVE  TaskInv'
<1> DEFINE k == Client("done", NoTask, "error")
<1>1. k \in Asker /\ k.at = "done" /\ k.heard \notin Ended
  BY DEF Client, Asker, Ended
<1>2. client' = [client EXCEPT ![c] = k] /\ UNCHANGED <<record, issued, job>>
  BY DEF SubmitFails
<1> HIDE DEF k
<1> QED
  BY <1>1, <1>2, ClientGoesOn

\* What is heard is what the record says now.
LEMMA PollInv ==
  ASSUME TaskInv, NEW c \in Clients, PollsTask(c)
  PROVE  TaskInv'
<1>1. client[c] \in Asker /\ client[c].task \in issued /\ client[c].task \in Tasks
  BY DEF PollsTask, TaskInv, TasksTyped, Informed
<1>2. PICK s \in {record[client[c].task], "none"} :
        client' = [client EXCEPT ![c] = Client("heard", client[c].task, s)]
  BY DEF PollsTask, TaskInv, TasksTyped
<1> DEFINE k == Client("heard", client[c].task, s)
<1>3. s \in States
  BY <1>1 DEF TaskInv, TasksTyped, States
<1>4. k \in Asker /\ k.task = client[c].task /\ k.heard = s
  BY <1>1, <1>3 DEF Client, Asker
<1>5. client' = [client EXCEPT ![c] = k] /\ UNCHANGED <<record, issued, job>>
  BY <1>2 DEF PollsTask
<1>6. k.heard \in Ended => record[k.task] = k.heard
  BY <1>4 DEF Ended
<1> HIDE DEF k
<1> QED
  BY <1>1, <1>4, <1>5, <1>6, ClientGoesOn

LEMMA HearInv ==
  ASSUME TaskInv, NEW c \in Clients, Hears(c)
  PROVE  TaskInv'
<1>1. client[c] \in Asker /\ client[c].task \in issued
  BY DEF Hears, TaskInv, TasksTyped, Informed
<1>2. PICK k : /\ k \in Asker /\ k.task = client[c].task
               /\ client' = [client EXCEPT ![c] = k]
               /\ k.heard \in Ended => k.heard = client[c].heard
  <2>1. ASSUME NEW at \in {"done", "poll"}, client' = [client EXCEPT ![c].at = at]
        PROVE  \E k : /\ k \in Asker /\ k.task = client[c].task
                      /\ client' = [client EXCEPT ![c] = k]
                      /\ k.heard \in Ended => k.heard = client[c].heard
    <3> DEFINE k == [client[c] EXCEPT !.at = at]
    <3>1. k \in Asker /\ k.task = client[c].task /\ k.heard = client[c].heard
      BY <1>1 DEF Asker
    <3>2. client' = [client EXCEPT ![c] = k]
      BY <2>1 DEF TaskInv, TasksTyped
    <3> HIDE DEF k
    <3> QED
      BY <3>1, <3>2
  <2>2. CASE client' = [client EXCEPT ![c] = Client("done", @.task, "timeout")]
    <3> DEFINE k == Client("done", client[c].task, "timeout")
    <3>1. k \in Asker /\ k.task = client[c].task /\ k.heard \notin Ended
      BY <1>1 DEF Client, Asker, Ended
    <3>2. client' = [client EXCEPT ![c] = k]
      BY <2>2 DEF TaskInv, TasksTyped
    <3> HIDE DEF k
    <3> QED
      BY <3>1, <3>2
  <2> QED
    BY <2>1, <2>2 DEF Hears
<1>3. k.heard \in Ended => record[k.task] \in {k.heard, "none"}
  BY <1>2 DEF TaskInv, Informed
<1> QED
  BY <1>1, <1>2, <1>3, ClientGoesOn DEF Hears

LEMMA AskInv ==
  ASSUME TaskInv, NEW c \in Clients, AsksAgain(c)
  PROVE  TaskInv'
<1> DEFINE k == Client("submit", NoTask, "none")
<1>1. k \in Asker /\ k.at = "submit" /\ k.heard \notin Ended
  BY DEF Client, Asker, Ended, States
<1>2. client' = [client EXCEPT ![c] = k] /\ UNCHANGED <<record, issued, job>>
  BY DEF AsksAgain
<1> HIDE DEF k
<1> QED
  BY <1>1, <1>2, ClientGoesOn

-----------------------------------------------------------------------------
LEMMA StepInv == TaskInv /\ [TaskNext]_taskVars => TaskInv'
<1> SUFFICES ASSUME TaskInv, [TaskNext]_taskVars PROVE TaskInv'
  OBVIOUS
<1>1. CASE \E t \in Tasks : PreparesTask(t) \/ RunsTask(t) \/ CleansTask(t) \/ FinishesTask(t) \/ CancelsTask(t)
  BY <1>1, PrepareInv, RunInv, CleanInv, FinishInv, CancelInv
<1>2. CASE ServerRestarts
  BY <1>2, RestartInv
<1>3. CASE \E c \in Clients : Submits(c) \/ SubmitFails(c) \/ PollsTask(c) \/ Hears(c) \/ AsksAgain(c)
  BY <1>3, SubmitInv, SubmitFailInv, PollInv, HearInv, AskInv
<1>4. CASE UNCHANGED taskVars
  BY <1>4 DEF taskVars, TaskInv, TasksTyped, Recorded, Informed
<1> QED
  BY <1>1, <1>2, <1>3, <1>4 DEF TaskNext

LEMMA InvHolds == TaskInv => AnswerHolds
  BY DEF TaskInv, Informed, AnswerHolds, Ended

\* What a client was told of the end of its task, that it completed or failed, stays what
\* the server says (a2a_server::cancel_task refuses what has ended, and the thread of a
\* task writes its end once).
THEOREM EndsAreFinal == TaskSpec => []AnswerHolds
<1>1. TaskSpec => []TaskInv
  BY InitInv, StepInv, PTL DEF TaskSpec
<1> QED
  BY <1>1, InvHolds, PTL
=============================================================================
