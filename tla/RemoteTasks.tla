----------------------------- MODULE RemoteTasks -----------------------------
(* Tasks for the agents of another editor: the server keeps a record of each and runs it
   as a program of its own on a detached thread (a2a/a2a_server.cpp); a client submits
   one and asks for it again and again until a time-out (a2a/a2a_client.cpp).  Requests
   and answers may be lost, anybody may cancel, and a server that restarts has no
   records. *)
EXTENDS Naturals

CONSTANTS Tasks,  \* the ids given out: random numbers, taken never to come twice
          Clients

Final == {"completed", "failed", "cancelled"}

VARIABLES
  record, \* tasks_: the status of a task, or none
  issued, \* the ids given out so far
  job,    \* a task's thread: where it is (off, prepare, run, clean, finish), whether it
          \* made a worktree, what the program returned, whether result.json is there
  client  \* execute_task_sync: where it is, its task, what it last heard

taskVars == <<record, issued, job, client>>

NoTask == "no task"
NoJob  == [at |-> "off", tree |-> FALSE, code |-> 0, left |-> FALSE]
Client(at, task, heard) == [at |-> at, task |-> task, heard |-> heard]

-----------------------------------------------------------------------------
(* The server *)

NextTask == CHOOSE t \in Tasks : t \notin issued

\* create_task: the record is there before the thread.
Enrolled(t) ==
    /\ t \notin issued /\ t = NextTask /\ issued' = issued \union {t}
    /\ record' = [record EXCEPT ![t] = "running"]
    /\ job' = [job EXCEPT ![t].at = "prepare"]

\* git worktree add, or a clone, or neither.
PreparesTask(t) ==
    /\ job[t].at = "prepare"
    /\ \E made \in BOOLEAN : job' = [job EXCEPT ![t].at = "run", ![t].tree = made]
    /\ UNCHANGED <<record, issued, client>>

\* The program ends, with its result written or not.
RunsTask(t) ==
    /\ job[t].at = "run"
    /\ \E code \in {0, 1}, left \in BOOLEAN :
         job' = [job EXCEPT ![t].at = "clean", ![t].code = code, ![t].left = left]
    /\ UNCHANGED <<record, issued, client>>

\* git worktree remove -f takes the directory with the result in it.
CleansTask(t) ==
    /\ job[t].at = "clean"
    /\ job' = [job EXCEPT ![t].at = "finish", ![t].left = @ /\ ~job[t].tree]
    /\ UNCHANGED <<record, issued, client>>

\* What the thread writes in the end, whatever is in the record by then.
Outcome(t) == IF job[t].code = 0 /\ job[t].left THEN "completed" ELSE "failed"

FinishesTask(t) ==
    /\ job[t].at = "finish" /\ job' = [job EXCEPT ![t] = NoJob]
    /\ record' = [record EXCEPT ![t] = Outcome(t)]
    /\ UNCHANGED <<issued, client>>

\* Mutant: a task that failed can be cancelled.
CancellableAny == {"running", "cancelled", "failed"}
\* cancel_task: what has ended cannot be cancelled.
Cancellable == {"running", "cancelled"}

CancelsTask(t) ==
    /\ record[t] \in Cancellable
    /\ record' = [record EXCEPT ![t] = "cancelled"]
    /\ UNCHANGED <<issued, job, client>>

\* The program ends: tasks_ and the detached threads are gone.
ServerRestarts ==
    /\ record' = [t \in Tasks |-> "none"] /\ job' = [t \in Tasks |-> NoJob]
    /\ UNCHANGED <<issued, client>>

-----------------------------------------------------------------------------
(* The client *)

\* submit_task: an answer that is lost leaves a task nobody asks for, and an agent that
\* does not wait asks for none.
Submits(c) ==
    /\ client[c].at = "submit"
    /\ \E t \in Tasks :
         /\ Enrolled(t)
         /\ \/ \E at \in {"poll", "done"} : client' = [client EXCEPT ![c] = Client(at, t, "enqueued")]
            \/ client' = [client EXCEPT ![c] = Client("done", NoTask, "error")]

\* The request is lost, or the server refuses it.
SubmitFails(c) ==
    /\ client[c].at = "submit"
    /\ client' = [client EXCEPT ![c] = Client("done", NoTask, "error")]
    /\ UNCHANGED <<record, issued, job>>

\* The server copies the record; without one, or when the request or its answer is
\* lost, the client has a result without a status.
PollsTask(c) ==
    /\ client[c].at = "poll"
    /\ \E said \in {record[client[c].task], "none"} :
         client' = [client EXCEPT ![c] = Client("heard", @.task, said)]
    /\ UNCHANGED <<record, issued, job>>

\* It returns a final status, or the time-out, or sleeps and asks again.
Hears(c) ==
    /\ client[c].at = "heard"
    /\ IF client[c].heard \in Final THEN client' = [client EXCEPT ![c].at = "done"]
       ELSE \/ client' = [client EXCEPT ![c].at = "poll"]
            \/ client' = [client EXCEPT ![c] = Client("done", @.task, "timeout")]
    /\ UNCHANGED <<record, issued, job>>

\* The agent calls invoke_subagent again.
AsksAgain(c) ==
    /\ client[c].at = "done"
    /\ client' = [client EXCEPT ![c] = Client("submit", NoTask, "none")]
    /\ UNCHANGED <<record, issued, job>>

-----------------------------------------------------------------------------
TaskInit ==
    /\ record = [t \in Tasks |-> "none"] /\ issued = {}
    /\ job = [t \in Tasks |-> NoJob]
    /\ client = [c \in Clients |-> Client("submit", NoTask, "none")]

TaskNext ==
    \/ \E t \in Tasks : PreparesTask(t) \/ RunsTask(t) \/ CleansTask(t) \/ FinishesTask(t) \/ CancelsTask(t)
    \/ ServerRestarts
    \/ \E c \in Clients : Submits(c) \/ SubmitFails(c) \/ PollsTask(c) \/ Hears(c) \/ AsksAgain(c)

TaskSpec == TaskInit /\ [][TaskNext]_taskVars

-----------------------------------------------------------------------------
\* AnswerHolds: what a client was told of a task's end, that it completed or failed, is
\* what the server says of it ever after, whoever cancels and whatever was lost; only a
\* server that restarted says nothing.
AnswerHolds ==
    \A c \in Clients : client[c].at \in {"heard", "done"} /\ client[c].heard \in {"completed", "failed"} =>
        record[client[c].task] \in {client[c].heard, "none"}
=============================================================================
