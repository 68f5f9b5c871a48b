----------------------- MODULE ConversationPagingProps -----------------------
(* What paging promises, over ConversationPaging. *)
EXTENDS ConversationPaging

Remembered ==
    ToSet(current.body)
      \union (UNION {ToSet(episodes[i].body) : i \in DOMAIN episodes})
      \union (UNION {ToSet(disk[id]) : id \in index})

\* NothingSaidLost: every message of the user, answer and call that entered the
\* conversation is in memory or in the archive of an episode of the index, whatever
\* was paged, compacted, restored, closed and loaded again (page_out_context archives
\* what it replaces, and load_active_state only repairs the results).
Said(m) == m.kind \in {"user", "answer", "call"}
NothingSaidLost == {m \in told : Said(m)} \subseteq Remembered

\* ResultsKept: nor is the result of a tool, as long as no snapshot doubled a call: with
\* two copies of it, a restart pairs the result with one of them and may drop it later.
ResultsKept == archived = {} => {m \in told : IsResult(m)} \subseteq Remembered

\* GroupsWhole: in what is sent to the model a result comes after its call, and no
\* page-out, restore or restart separates the two.
GroupsWhole ==
    worker # "closed" /\ archived = {} =>
      \A j \in DOMAIN Flat : IsResult(Flat[j].m) =>
        \E i \in 1..(j - 1) : IsCall(Flat[i].m) /\ Flat[i].m.n = Flat[j].m.n

\* ArchivesKept: an archive on disk is never replaced by one that lacks a message of it:
\* allocate_next_episode_seq "allocates and returns a unique monotonic sequence number".
\* It holds while every session is closed, and does not after a crash.
Superset(id) == id \in DOMAIN disk' /\ ToSet(disk[id]) \subseteq ToSet(disk'[id])
ArchivesKept == [][\A id \in DOMAIN disk : Superset(id)]_pagingVars

\* HintOwed: an episode of the index has its hint, or the summary thread will get to
\* it, or failed to write it, or a snapshot of this session made it.
HintOwed ==
    worker # "closed" =>
      index \subseteq hinted \union failed \union archived \union ToSet(queue)
=============================================================================
