------------------------------ MODULE GitWorker ------------------------------
(* git_manager: a thread takes status and add requests from a bounded queue, runs git
   and keeps what it found (git_manager.cpp).  A wait on its condition variable is two
   steps, the look at the predicate and going to sleep: the queue's lock is held in
   between, but stop() does not take it. *)
EXTENDS Naturals, Sequences

CONSTANTS Files,
          QueueLimit,  \* 1000 in the code
          MaxChanges,  \* bound: changes of the files
          MaxRequests  \* bound: requests of the editor

VARIABLES
  tracked,   \* what git would say of each file, as a version
  changes,
  requested, \* requests made by the editor so far
  jobs,      \* pending_requests_
  known,     \* status_cache_
  asked,     \* history: the file's version at its last accepted status request
  thread,    \* worker_loop: top, decided (to sleep), asleep, status, store, add, off
  stopping,  \* stop_thread_
  stopper    \* stop(): no, notify, join, done

gitVars == <<tracked, changes, requested, jobs, known, asked, thread, stopping, stopper>>

Resting == [at |-> "top", file |-> "", found |-> 0]

\* queue_mutex_ is free.
QueueFree == thread.at # "decided"
\* Mutant: the request is queued and nobody is told.
WokenNot == thread

Woken == IF thread.at = "asleep" THEN [thread EXCEPT !.at = "top"] ELSE thread

\* A file changes: it is saved, or another program does it.
Changes(f) ==
    /\ changes < MaxChanges /\ changes' = changes + 1
    /\ tracked' = [tracked EXCEPT ![f] = changes + 1]
    /\ UNCHANGED <<requested, jobs, known, asked, thread, stopping, stopper>>

\* request_status and git_add: at the limit the request is dropped.
Requests(f, kind) ==
    /\ requested < MaxRequests /\ requested' = requested + 1
    /\ QueueFree
    /\ IF Len(jobs) >= QueueLimit THEN UNCHANGED <<jobs, asked, thread>>
       ELSE /\ jobs' = Append(jobs, [kind |-> kind, file |-> f])
            /\ asked' = IF kind = "status" THEN [asked EXCEPT ![f] = tracked[f]] ELSE asked
            /\ thread' = Woken
    /\ UNCHANGED <<tracked, changes, known, stopping, stopper>>

Looks ==
    /\ thread.at = "top"
    /\ IF stopping THEN thread' = [Resting EXCEPT !.at = "off"] /\ UNCHANGED jobs
       ELSE IF jobs = <<>> THEN thread' = [Resting EXCEPT !.at = "decided"] /\ UNCHANGED jobs
       ELSE /\ thread' = [at |-> Head(jobs).kind, file |-> Head(jobs).file, found |-> 0]
            /\ jobs' = Tail(jobs)
    /\ UNCHANGED <<tracked, changes, requested, known, asked, stopping, stopper>>

Sleeps ==
    /\ thread.at = "decided"
    /\ thread' = [thread EXCEPT !.at = "asleep"]
    /\ UNCHANGED <<tracked, changes, requested, jobs, known, asked, stopping, stopper>>

\* run_git_status_cmd, then what it found is kept.
RunsStatus ==
    /\ thread.at = "status"
    /\ thread' = [thread EXCEPT !.at = "store", !.found = tracked[thread.file]]
    /\ UNCHANGED <<tracked, changes, requested, jobs, known, asked, stopping, stopper>>

StoresStatus ==
    /\ thread.at = "store"
    /\ known' = [known EXCEPT ![thread.file] = thread.found]
    /\ thread' = Resting
    /\ UNCHANGED <<tracked, changes, requested, jobs, asked, stopping, stopper>>

\* run_git_add_cmd, and a status request of its own, dropped at the limit as well.
RunsAdd ==
    /\ thread.at = "add"
    /\ LET f == thread.file IN
       IF Len(jobs) >= QueueLimit THEN UNCHANGED <<jobs, asked>>
       ELSE /\ jobs' = Append(jobs, [kind |-> "status", file |-> f])
            /\ asked' = [asked EXCEPT ![f] = tracked[f]]
    /\ thread' = Resting
    /\ UNCHANGED <<tracked, changes, requested, known, stopping, stopper>>

\* stop(): the flag, the notification, the join.
SetsStop ==
    /\ stopper = "no" /\ stopper' = "notify" /\ stopping' = TRUE
    /\ UNCHANGED <<tracked, changes, requested, jobs, known, asked, thread>>

NotifiesStop ==
    /\ stopper = "notify" /\ stopper' = "join"
    /\ thread' = Woken
    /\ UNCHANGED <<tracked, changes, requested, jobs, known, asked, stopping>>

JoinsWorker ==
    /\ stopper = "join" /\ thread.at = "off" /\ stopper' = "done"
    /\ UNCHANGED <<tracked, changes, requested, jobs, known, asked, thread, stopping>>

-----------------------------------------------------------------------------
GitInit ==
    /\ tracked = [f \in Files |-> 1] /\ changes = 1 /\ requested = 0
    /\ jobs = <<>> /\ known = [f \in Files |-> 0] /\ asked = [f \in Files |-> 0]
    /\ thread = Resting /\ stopping = FALSE /\ stopper = "no"

Works == Looks \/ Sleeps \/ RunsStatus \/ StoresStatus \/ RunsAdd
StopSteps == NotifiesStop \/ JoinsWorker

GitNext ==
    \/ \E f \in Files : Changes(f) \/ Requests(f, "status") \/ Requests(f, "add")
    \/ Works \/ SetsStop \/ StopSteps

\* Both threads run on; nobody need change a file, ask or stop.
GitFairness == WF_gitVars(Works) /\ WF_gitVars(StopSteps)
GitSpec == GitInit /\ [][GitNext]_gitVars /\ GitFairness

-----------------------------------------------------------------------------
\* StatusFollows: what is shown of a file catches up with what it was when a status
\* request for it was accepted, unless the editor stops.
StatusFollows ==
    \A f \in Files : known[f] < asked[f] ~> known[f] >= asked[f] \/ stopping
=============================================================================
