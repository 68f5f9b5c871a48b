------------------------- MODULE ConversationPaging -------------------------
(* An agent's conversation, its archive on disk and the threads that move parts of
   one to the other (src/src/agentlib/ai_agent.cpp, data/conversation.cpp,
   data/episode.cpp): the run loop asks the model and runs its tool calls; the
   tools, the commands of the window and the compaction page episodes out and in;
   a second thread writes the hints; the program closes, restarts, crashes.

   A message is [kind, n]: n counts what was said, a call and its result share it,
   and an anchor has the id of the episode it stands for.  An episode id is the
   number in "episode_<n>"; Active is "episode_active", and an episode that
   submit_prompt names after the time has a negative id and no number. *)
EXTENDS Integers, SequencesExt

CONSTANTS MaxSaid,     \* bound: the things said in all sessions
          MaxEpisodes, \* bound: the episodes numbered
          MaxShifts,   \* bound: the moves of an episode by command, tool or compaction
          Levels       \* compaction levels an episode is paged in at

Active  == 0
NoEp    == 99999
PagedOut     == 99        \* COMPACTION_LEVEL_PAGED_OUT
None    == [id |-> NoEp, body |-> <<>>]
Unsaved == [episodes |-> <<>>, current |-> None, nextSeq |-> 0]
Msg(k, n)  == [kind |-> k, n |-> n]
Prompt     == Msg("prompt", 0)
Anchor(id) == Msg("anchor", id)

VARIABLES
  episodes,              \* conversation_->episodes_: records [id, level, body]
  current,               \* conversation_->current_episode_, or None
  nextSeq,               \* conversation_->next_episode_seq_
  original,              \* original_system_prompt_
  index,                 \* the ids in episode_index_
  disk,                  \* history_dir: id -> messages of <id>.json
  saved,                 \* active_state.json: the conversation of the last close, or Unsaved
  worker,                \* the run loop: idle, ready, asking, tool, compress; or closed
  held,                  \* the transaction or turn it writes to is part of conversation_
  range,                 \* what page_out_prior_context chose before it unlocked
  said,                  \* how much was said
  shifts,                \* how often a command, a tool or the compaction moved an episode
  queue, hinted, failed, \* summary_queue_ and what came of its tasks
  told, archived         \* history: the messages entered, the episodes a
                         \* snapshot archived

conv   == <<episodes, current, nextSeq, original>>
hints  == <<queue, hinted, failed>>
pagingVars == <<conv, index, disk, saved, worker, held, range, said, shifts, hints, told, archived>>

IsResult(m) == m.kind \in {"result", "marked"}
IsCall(m)   == m.kind = "call"
IsSystem(m) == m.kind \in {"prompt", "anchor"}
NumberOf(id)   == IF id < 0 THEN 0 ELSE id
Ids         == {episodes[i].id : i \in DOMAIN episodes}

-----------------------------------------------------------------------------
(* What is sent: get_conversation_unlocked *)

\* An episode's messages: the anchor alone when it is paged out, the anchor and the
\* messages when it is compacted, the messages when it is raw.
Shown(ep) ==
    LET lines == CASE ep.level = PagedOut -> <<Anchor(ep.id)>>
                   [] ep.level = 0   -> ep.body
                   [] OTHER          -> <<Anchor(ep.id)>> \o ep.body
    IN  [i \in DOMAIN lines |-> [m |-> lines[i], ep |-> ep.id, level |-> ep.level]]

Loose(body) == [i \in DOMAIN body |-> [m |-> body[i], ep |-> NoEp, level |-> 0]]

FlatOf(eps, cur) == FlattenSeq([i \in DOMAIN eps |-> Shown(eps[i])]) \o Loose(cur.body)
Flat == FlatOf(episodes, current)

(* set_conversation_unlocked: a new Conversation out of messages.  Those with an
   episode id make up the episodes, in order of their first message, the others the
   current episode. *)
PlacesOf(flat, id) == {i \in DOMAIN flat : flat[i].ep = id}
IdsOf(flat) ==
    FlattenSeq([i \in DOMAIN flat |->
                  IF flat[i].ep # NoEp /\ \A j \in PlacesOf(flat, flat[i].ep) : i <= j THEN <<flat[i].ep>> ELSE <<>>])
BodyOf(flat, id) ==
    FlattenSeq([i \in DOMAIN flat |-> IF flat[i].ep = id THEN <<flat[i].m>> ELSE <<>>])
LevelOf(flat, id) == flat[Min(PlacesOf(flat, id))].level

EpisodesOf(flat) ==
    LET ids == IdsOf(flat)
    IN  [i \in DOMAIN ids |-> [id |-> ids[i], level |-> LevelOf(flat, ids[i]), body |-> BodyOf(flat, ids[i])]]
CurrentOf(flat) ==
    IF PlacesOf(flat, NoEp) = {} THEN None ELSE [id |-> Active, body |-> BodyOf(flat, NoEp)]
NextOf(flat, idx, next) == Max({next} \union {NumberOf(id) + 1 : id \in ToSet(IdsOf(flat)) \cap idx})

Rebuilt(flat, idx, next) ==
        /\ episodes' = EpisodesOf(flat)
        /\ current' = CurrentOf(flat)
        /\ nextSeq' = NextOf(flat, idx, next)
        /\ original' = LET sys == {i \in DOMAIN flat : IsSystem(flat[i].m)}
                       IN  IF sys = {} THEN original ELSE flat[Min(sys)].m

-----------------------------------------------------------------------------
(* page_out_context: indices count from 0, the end is not part of the range *)

Groups(flat) ==
    LET size  == Len(flat)
        later(i) == {j \in (i + 1)..size : IsResult(flat[j].m) /\ flat[j].m.n = flat[i].m.n}
        group(i) == [first |-> i - 1, last |-> IF later(i) = {} THEN size ELSE Max(later(i)) - 1]
    IN  FlattenSeq([i \in 1..size |-> IF IsCall(flat[i].m) THEN <<group(i)>> ELSE <<>>])

\* Mutant: a range may cut a group.
ClearNothing(r, g) == r

\* Move the bounds of a range that cuts the group off it.
Clear(r, g) ==
    IF r.s >= r.e \/ g.first > r.e - 1 \/ g.last < r.s \/ (g.first >= r.s /\ g.last <= r.e - 1)
    THEN r
    ELSE [s |-> IF g.first < r.s THEN g.last + 1 ELSE r.s,
          e |-> IF g.last > r.e - 1 THEN g.first ELSE r.e]

\* One pass over the groups, and as many as the range is long: a pass that changes it
\* makes it shorter.
Swept(r, groups) ==
    LET swept[k \in 0..Len(groups)] == IF k = 0 THEN r ELSE Clear(swept[k - 1], groups[k])
    IN  swept[Len(groups)]
Length(r) == IF r.s < r.e THEN r.e - r.s ELSE 0
Settled(r, groups) ==
    LET settled[k \in 0..Length(r)] == IF k = 0 THEN r ELSE Swept(settled[k - 1], groups)
    IN  settled[Length(r)]

\* Mutant: the archive lacks the last message of the range.
CutShort(flat, r) == SubSeq(flat, r.s + 1, r.e - 1)

Cut(flat, r) == SubSeq(flat, r.s + 1, r.e)

\* Mutant: nobody is told to write the hint.
EnqueuedNot == queue

Enqueued == Append(queue, nextSeq)

\* The range r of the messages is archived under a new number and replaced by an
\* anchor.  The tool or the answer in progress loses the turn it writes to.
PageOut(r0, exiting) ==
    LET flat == Flat
        r    == Settled(r0, Groups(flat))
        cut  == Cut(flat, r)
        rest == SubSeq(flat, 1, r.s) \o <<[m |-> Anchor(nextSeq), ep |-> nextSeq, level |-> PagedOut]>>
                \o SubSeq(flat, r.e + 1, Len(flat))
    IN  IF r.s >= r.e \/ r.e > Len(flat)
        THEN UNCHANGED <<conv, index, disk, held, queue>>
        ELSE /\ disk' = [id \in DOMAIN disk \union {nextSeq} |->
                           IF id = nextSeq THEN [i \in DOMAIN cut |-> cut[i].m] ELSE disk[id]]
             /\ index' = index \union {nextSeq}
             /\ Rebuilt(rest, index', nextSeq + 1)
             /\ held' = FALSE
             /\ queue' = IF exiting THEN queue ELSE Enqueued

Boundary(flat, i) == i > 0 /\ flat[i + 1].m.kind = "anchor"

\* page_out_prior_context up to the place where it unlocks; no range: it returned
Prior(target, all) ==
    LET flat  == Flat
        size  == Len(flat)
        back  == 0..(size - 2)
        found == {i \in back : flat[i + 1].m = Anchor(target)}
        stops == {i \in back : flat[i + 1].m.kind = "marked" \/ Boundary(flat, i)}
        e     == CASE target # NoEp -> IF found = {} THEN 0 ELSE Max(found)
                   [] stops # {} -> IF flat[Max(stops) + 1].m.kind = "marked" THEN Max(stops) + 1 ELSE Max(stops)
                   [] OTHER -> size - 2
        below == {i \in 0..(e - 1) : IsSystem(flat[i + 1].m) \/ flat[i + 1].m.kind = "user"}
        s     == IF all \/ below = {} THEN 1 ELSE Max(below) + 1
    IN  IF size < 3 \/ s >= e THEN [s |-> 0, e |-> 0] ELSE [s |-> s, e |-> e]

-----------------------------------------------------------------------------
(* set_episode_state *)

\* [episodes |-> .., done |-> ..]: an archived episode is read back, a loaded one is
\* emptied (its archive was written when it was finalized), one that only the
\* disk has is appended.
InState(eps, id, level) ==
    IF \E i \in DOMAIN eps : eps[i].id = id
    THEN LET i == CHOOSE i \in DOMAIN eps : eps[i].id = id /\ \A j \in 1..(i - 1) : eps[j].id # id
             body == CASE eps[i].level = PagedOut /\ level # PagedOut /\ id \in DOMAIN disk -> disk[id]
                       [] eps[i].level # PagedOut /\ level = PagedOut -> <<>>
                       [] OTHER -> eps[i].body
         IN  [eps EXCEPT ![i] = [id |-> id, level |-> level, body |-> body]]
    ELSE IF id \in DOMAIN disk THEN Append(eps, [id |-> id, level |-> level, body |-> disk[id]])
    ELSE eps

SetState(id, level) ==
    /\ shifts < MaxShifts /\ shifts' = shifts + 1
    /\ episodes' = InState(episodes, id, level)
    /\ UNCHANGED <<current, nextSeq, original, index, disk, saved, said, hints, told, archived>>

\* Mutant: the number is not counted as taken.
TakenNot(id) == nextSeq

Taken(id) == IF id = nextSeq THEN nextSeq + 1 ELSE nextSeq

\* snapshot_episode: the current episode is copied to the disk under its own id, or
\* under a new number when it has none.
Snapshot ==
    LET id == IF current.id = Active THEN nextSeq ELSE current.id
    IN  IF current = None THEN UNCHANGED <<nextSeq, index, disk, archived>>
        ELSE /\ disk' = [e \in DOMAIN disk \union {id} |-> IF e = id THEN current.body ELSE disk[e]]
             /\ index' = index \union {id}
             /\ archived' = archived \union {id}
             /\ nextSeq' = Taken(id)

\* update_system_prompt_with_families: the first system message of the current
\* episode, else of the first episode that has one, becomes original_system_prompt_.
HasSystem(body)    == \E i \in DOMAIN body : IsSystem(body[i])
Prompted(body, p)  == LET sys == {i \in DOMAIN body : IsSystem(body[i])} IN [body EXCEPT ![Min(sys)] = p]
PromptIn(eps, cur, p) ==
    IF HasSystem(cur.body) THEN [eps |-> eps, cur |-> [cur EXCEPT !.body = Prompted(@, p)]]
    ELSE LET withSys == {i \in DOMAIN eps : HasSystem(eps[i].body)}
         IN  [eps |-> IF withSys = {} THEN eps ELSE [eps EXCEPT ![Min(withSys)].body = Prompted(@, p)], cur |-> cur]

-----------------------------------------------------------------------------
(* The run loop.  What it writes to a turn that a rebuild dropped is lost; an answer and
   a call take the place of the empty turn of the request. *)

Written(m) ==
    IF held THEN /\ current' = [current EXCEPT !.body = Append(RemoveFirst(@, Msg("partial", m.n)), m)]
                 /\ told' = told \union {m}
            ELSE UNCHANGED <<current, told>>

UnchangedByLoop == UNCHANGED <<shifts, episodes, original, index, disk, saved, range, hints, archived>>

\* submit_prompt to an idle agent, or the user message of inject_context
Ask ==
    /\ worker = "idle" /\ said < MaxSaid
    /\ said' = said + 1
    /\ LET m == Msg("user", said')
       IN  /\ current' = IF current = None THEN [id |-> -said', body |-> <<m>>]
                         ELSE [current EXCEPT !.body = Append(@, m)]
           /\ told' = told \union {m}
    /\ worker' = "ready"
    /\ UNCHANGED <<nextSeq, held>> /\ UnchangedByLoop

\* The top of the loop: the transaction the response goes to, and its empty turn.
AsksModel ==
    /\ worker = "ready" /\ said < MaxSaid /\ current # None
    /\ said' = said + 1 /\ held' = TRUE /\ worker' = "asking"
    /\ current' = [current EXCEPT !.body = Append(@, Msg("partial", said'))]
    /\ UNCHANGED <<nextSeq, told>> /\ UnchangedByLoop

\* A page-out left no current episode: add_transaction has nowhere to put it.
RequestAdrift ==
    /\ worker = "ready" /\ said < MaxSaid /\ current = None
    /\ said' = said + 1 /\ held' = FALSE /\ worker' = "asking"
    /\ UNCHANGED <<current, nextSeq, told>> /\ UnchangedByLoop

Answer ==
    /\ worker = "asking" /\ Written(Msg("answer", said)) /\ worker' = "idle"
    /\ UNCHANGED <<nextSeq, said, shifts, held>> /\ UnchangedByLoop

Call ==
    /\ worker = "asking" /\ Written(Msg("call", said)) /\ worker' = "tool"
    /\ UNCHANGED <<nextSeq, said, shifts, held>> /\ UnchangedByLoop

ToolEnds ==
    /\ worker = "tool" /\ Written(Msg("result", said)) /\ worker' = "ready"
    /\ UNCHANGED <<nextSeq, said, shifts, held>> /\ UnchangedByLoop

\* agent_mark_episode: the snapshot, then its result; two locked sections, one step here.
ToolMarks ==
    /\ worker = "tool" /\ nextSeq <= MaxEpisodes
    /\ Snapshot /\ Written(Msg("marked", said)) /\ worker' = "ready"
    /\ UNCHANGED <<episodes, original, saved, said, shifts, held, range, hints>>

\* agent_compress_history, in two steps: another thread may take the lock between them.
ToolChooses(target, all) ==
    /\ worker = "tool" /\ nextSeq <= MaxEpisodes
    /\ range' = Prior(target, all) /\ worker' = "compress"
    /\ UNCHANGED <<conv, index, disk, saved, held, said, shifts, hints, told, archived>>

ToolCompresses ==
    /\ worker = "compress" /\ nextSeq <= MaxEpisodes
    /\ IF range.s = range.e THEN UNCHANGED <<conv, index, disk, held, queue>>
       ELSE PageOut(range, FALSE)
    /\ worker' = "tool" /\ range' = [s |-> 0, e |-> 0]
    /\ UNCHANGED <<saved, said, shifts, hinted, failed, told, archived>>

\* agent_restore_context
ToolRestores(id, level) ==
    /\ worker = "tool" /\ SetState(id, level) /\ episodes' # episodes
    /\ UNCHANGED <<worker, held, range>>

\* activate_tool_family, and what else rewrites the system prompt
FamilyChanges ==
    /\ worker = "tool"
    /\ LET out == PromptIn(episodes, current, original)
       IN  episodes' = out.eps /\ current' = out.cur
    /\ <<episodes', current'>> # <<episodes, current>>
    /\ UNCHANGED <<nextSeq, original, index, disk, saved, worker, held, range, said, shifts, hints, told, archived>>

\* evaluate_compaction between two requests: one transition of its plan.
Compact(id) ==
    /\ worker \in {"ready", "idle"}
    /\ id \in index \cap ({e.id : e \in {episodes[i] : i \in {j \in DOMAIN episodes : episodes[j].level # PagedOut}}}
                          \union {current.id})
    /\ \E level \in (Levels \ {0}) \union {PagedOut} : SetState(id, level)
    /\ episodes' # episodes
    /\ UNCHANGED <<worker, held, range>>

-----------------------------------------------------------------------------
(* The commands of the window, next to the run loop *)

Up == worker # "closed"

\* /pageout <n> and /episode
UserPagesOut(s, e) ==
    /\ Up /\ nextSeq <= MaxEpisodes
    /\ PageOut([s |-> s, e |-> e], FALSE) /\ disk' # disk
    /\ UNCHANGED <<saved, worker, range, said, shifts, hinted, failed, told, archived>>

\* /pageout <id> and /pagein <id> <level>
UserSetsState(id, level) ==
    /\ Up /\ SetState(id, level) /\ episodes' # episodes
    /\ UNCHANGED <<worker, held, range>>

-----------------------------------------------------------------------------
(* summary_worker_loop *)

\* The oldest task: the archive is read, and the model or a fallback gives the hint,
\* or an error leaves the episode without one.
Summarize ==
    /\ Up /\ queue # <<>>
    /\ queue' = Tail(queue)
    /\ \/ hinted' = hinted \union {Head(queue)} /\ UNCHANGED failed
       \/ failed' = failed \union {Head(queue)} /\ UNCHANGED hinted
    /\ UNCHANGED <<conv, index, disk, saved, worker, held, range, said, shifts, told, archived>>

-----------------------------------------------------------------------------
(* The end of a session and the start of the next *)

\* close: what is not archived is paged out, and the conversation saved.  The sections
\* that page out, save and set is_closed_ are one step; Crash may come before it only.
Close ==
    /\ Up /\ nextSeq <= MaxEpisodes
    /\ LET r == Prior(NoEp, TRUE)
       IN  IF r.s = r.e THEN UNCHANGED <<conv, index, disk, held, queue>> ELSE PageOut(r, TRUE)
    /\ saved' = [episodes |-> episodes', current |-> current', nextSeq |-> nextSeq']
    /\ worker' = "closed"
    /\ UNCHANGED <<range, said, shifts, hinted, failed, told, archived>>

\* The program dies: what was not saved or archived is gone.
Crash ==
    /\ Up /\ worker' = "closed"
    /\ told' = told \intersect UNION {ToSet(disk[id]) : id \in DOMAIN disk}
    /\ UNCHANGED <<conv, index, disk, saved, held, range, said, shifts, hints, archived>>

\* load_active_state: each call is followed by its result, or by one that says that
\* it was aborted; a result without a call is dropped.
Normalized(flat) ==
    LET later(i, taken) == {j \in (i + 1)..Len(flat) : j \notin taken /\ IsResult(flat[j].m) /\ flat[j].m.n = flat[i].m.n}
        used[k \in 0..Len(flat)] ==
            IF k = 0 THEN {}
            ELSE used[k - 1] \union (IF IsCall(flat[k].m) /\ later(k, used[k - 1]) # {}
                                    THEN {Min(later(k, used[k - 1]))} ELSE {})
        answer(i) == IF later(i, used[i - 1]) = {} THEN [m |-> Msg("result", flat[i].m.n), ep |-> NoEp, level |-> 0]
                     ELSE flat[Min(later(i, used[i - 1]))]
    IN  FlattenSeq([i \in DOMAIN flat |-> CASE IsResult(flat[i].m) -> <<>>
                                            [] IsCall(flat[i].m)   -> <<flat[i], answer(i)>>
                                            [] OTHER               -> <<flat[i]>>])

\* page_in_history_auto: the newest archives that are not shown, as many as fit.
Absent(eps) == {id \in DOMAIN disk : \A i \in DOMAIN eps : eps[i].id = id => eps[i].level = PagedOut}
PagedIn(eps, count) ==
    LET newest == SetToSortSeq(Absent(eps), LAMBDA a, b : NumberOf(a) > NumberOf(b))
        loaded[k \in 0..count] == IF k = 0 THEN eps ELSE InState(loaded[k - 1], newest[k], 1)
    IN  loaded[count]

Restart(count) ==
    /\ worker = "closed" /\ said < MaxSaid
    /\ index' = DOMAIN disk
    /\ queue' = SetToSeq(DOMAIN disk \ hinted) /\ failed' = {}
    /\ worker' = "idle" /\ held' = FALSE /\ range' = [s |-> 0, e |-> 0]
    /\ IF saved = Unsaved
       THEN /\ episodes' = <<>> /\ current' = [id |-> 1, body |-> <<Prompt>>]
            /\ nextSeq' = Max({2} \union {NumberOf(id) + 1 : id \in DOMAIN disk})
            /\ original' = Prompt /\ count = 0
       ELSE LET flat == FlatOf(saved.episodes, saved.current)
                norm == Normalized(flat)
                same == norm = flat
                eps  == IF same THEN saved.episodes ELSE EpisodesOf(norm)
                cur  == IF same THEN saved.current ELSE CurrentOf(norm)
                sys  == {i \in DOMAIN norm : IsSystem(norm[i].m)}
                orig == IF same \/ sys = {} THEN Prompt ELSE norm[Min(sys)].m
                out  == PromptIn(PagedIn(eps, count), cur, orig)
            IN  /\ count <= Cardinality(Absent(eps))
                /\ episodes' = out.eps /\ current' = out.cur
                /\ nextSeq' = IF same THEN saved.nextSeq ELSE NextOf(norm, index', saved.nextSeq)
                /\ original' = orig
    /\ UNCHANGED <<disk, saved, said, shifts, hinted, told, archived>>

-----------------------------------------------------------------------------
PagingInit ==
    /\ episodes = <<>> /\ current = [id |-> 1, body |-> <<Prompt>>]
    /\ nextSeq = 2 /\ original = Prompt
    /\ index = {} /\ disk = <<>> /\ saved = Unsaved
    /\ worker = "idle" /\ held = FALSE /\ range = [s |-> 0, e |-> 0] /\ said = 0 /\ shifts = 0
    /\ queue = <<>> /\ hinted = {} /\ failed = {}
    /\ told = {} /\ archived = {}

PagingNext ==
    \/ Ask \/ AsksModel \/ RequestAdrift \/ Answer \/ Call \/ ToolEnds \/ ToolMarks
    \/ \E target \in Ids \union {NoEp}, all \in BOOLEAN : ToolChooses(target, all)
    \/ ToolCompresses \/ FamilyChanges
    \/ \E id \in index, level \in Levels : ToolRestores(id, level)
    \/ \E id \in index : Compact(id)
    \/ \E s \in 1..2, e \in 2..Len(Flat) : UserPagesOut(s, e)
    \/ \E id \in index, level \in Levels \union {PagedOut} : UserSetsState(id, level)
    \/ Summarize
    \/ Close
    \/ \E count \in 0..2 : Restart(count)

PagingSpec   == PagingInit /\ [][PagingNext]_pagingVars
CrashingSpec == PagingInit /\ [][PagingNext \/ Crash]_pagingVars
=============================================================================
