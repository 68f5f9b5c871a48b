# Turbostar: TLA+ models, checks and proofs

Turbostar is a terminal editor in C++ (`src/src/`) with LLM agents inside it.
This directory models the parts of it whose correctness depends on the order in
which things happen: threads of an agent and its submitters, agents that spawn
and wait for each other, a conversation that is paged out while it runs, workers
behind queues, subprocesses that die, files that other programs write, and long
series of editing commands over a text, its markers and its undo history. The
modules are translated from the code; where a document, a comment or a test says
something else, section 4 says so.

Contents: 1 the system, 2 the modules, 3 the runs, 4 disagreements,
5 proofs, 6 what is not modelled, 7 plan.

## 1. The system

### Threads and how parts interact

The UI thread owns `editor`: it takes events from one `event_queue` (keys,
mouse, timers, results other threads posted) and calls windows, dialogs and
`document`s. Other threads exist for: each agent's run loop, detached
asynchronous tools, the LLM summarizer, the LSP worker and reader, the MCP
coordinator and its subprocess readers, running commands, the git worker, the
read-ahead of mapped files, tasks for other agents and the highlighters. They
reach shared state by mutexes (one per agent conversation, one per document plus
one per line, one or two per manager), by atomics (`status_`, `is_closed_`,
`stop_thread_`, `hide_ui_`) and by posting to the event queue. Every tool call of
an agent saves all open documents first and looks for changed files afterwards,
on the agent's own thread.

### Inventory

| component | state it keeps | operations | what is hard | what makes it correct | module |
|---|---|---|---|---|---|
| agent run loop (`agentlib/ai_agent.cpp`) | `status_`, `is_closed_`, the `Conversation`, `run_thread_` | `submit_prompt`, `inject_context`, `start_processing`, `close`, `set_status`, `clear_conversation`, `wait_until_idle` | several submitters against one worker that is restarted by a compare-exchange; insertion and status are not one step | every message is answered; one worker; who waits is woken | AgentLoop |
| agent tree and waiting tools (`ai_agent.cpp`, `tools/invoke_subagent` and others, `cr_verifier`) | parent and child links, wait lists, timers | spawn, invoke, wait, kill, send, notify | cascades while children run; a completion before the wait | no child outlives its parent; each completion is heard | AgentTree |
| paging, compaction, summaries (`ai_agent.cpp`, `data/conversation.cpp`) | active and past episodes, their levels, archives, summary queue | page out, snapshot, compact, restore, close, load | the worker's transaction is moved under it; a crash between archive and close | nothing is lost; a tool result stays behind its call; an archive stays | ConversationPaging |
| document text, markers, undo (`document_edit.cpp`, ...) | lines, cursor, markers, undo and redo stacks | editing, block, formatting, cursor and history commands; edits of agents | long legal series of commands that coalesce and merge | undo is exact; markers stay with their characters and in the text | Document |
| multi-cursor (`document_multicursor.cpp`, `ui/window.cpp`) | carets with a selection each | choose occurrences, type, backspace, delete, move, clear | several edits on one line shift each other | a key has the same effect at every caret, once | MultiCursor |
| document files (`document.cpp`, `editor.cpp`, `tool_registry.cpp`) | modified flag, file time, reload prompt | save, check, reload, revert | saving gives up the lock while it writes; two threads save and check | no edit is dropped by a reload | DocumentFile |
| language server client (`standard_lsp_backend.cpp`) | document queue, versions, pending symbol requests, symbol cache | open, update, save, prefetch, query | two threads talk to a server that may die | the server has the text of the editor | LspDocs |
| model context protocol (`mcp/`) | process, pipes, pending calls, registered tools | start, handshake, call, toggle, exit | a subprocess that dies or is stopped under a call | an answer goes to its asker; exit ends and leaves nothing | McpServer |
| git manager (`git_manager.cpp`) | bounded request queue, status cache | request, work, stop | requests dropped at the limit, wake-ups | the status catches up | GitWorker |
| mapped files (`mapped_file.cpp`) | cache of contents, read-ahead queue | get, notify, prefetch, evict | a file that changes between stat and open, two inserters | a reader sees the file as new as when it asked | FileCache |
| hex editor (`binary_document.cpp`, `ui/hex_editor_window.cpp`) | bytes, half-typed byte, undo stacks | digits, characters, moves, undo, redo | an open group of changes between two keys | undo is exact | HexEdit |
| command runner (`command_runner.cpp`, `process_runner.cpp`) | child process, pipe, output lines | execute, stop, drain | hang-up against unread output, stop against exit | the output is whole; a stop is heeded | CommandRunner |
| agent to agent (`a2a/`) | tasks and their states | submit, poll, cancel, time out | lost requests, cancels and restarts against a detached thread | what a client was told stays true | RemoteTasks |
| code review (`codereview_manager.cpp`) | comments with line numbers | create, shift, check, save, load | comments follow lines others insert and delete | a comment is on its line or stale | CodeReview |
| editor event loop, dialogs, widgets, highlighters | windows, focus | dispatch, draw, parse | results for windows that are gone | sequential, tested directly | - |
| LLM protocols, tools, plugins, inspector, vfs, code maps, semcode, configuration, crash handling | none or their own caches | conversions and I/O | formats | functions of their input | - |

`PROJECT.json` lists every component with its files and whether it is modelled,
and every hazard with the line where it bites.

## 2. The modules

Every module heads its `VARIABLES` with the field of the code each stands for;
history variables, which only properties read, are marked so. One section under a
mutex, one access of an atomic or one blocking call is one action.

### AgentLoop (with MessageQueue, AgentLoopProps, MCAgentLoop, AgentLoopProofs)

One agent: the threads that submit messages to it, the worker threads those
start, the thread that closes or kills it, the user who clears the
conversation, and a thread in `wait_until_idle`.

| variable | code |
|---|---|
| `status`, `closed`, `hasFinal` | `status_`, `is_closed_`, `has_final_result()` |
| `txs` | the transactions of the active episode: id, kind, the messages in it (`body`), and whether it has no response yet (`open`) |
| `posted` | UI notices already added |
| `sub[p]` | where the submitter of message `p` is in `submit_prompt`/`start_processing` |
| `pc[w]` | where the worker started by submitter `w` is in its loop |
| `seen[w]` | the messages in the copy of the conversation the worker sends |
| `active[w]`, `last[w]` | `active_tx`, `last_processed_tx` |
| `ender`, `clearer`, `waiter` | progress of the closing, clearing and waiting threads |
| `shown`, `swallowed` | history: messages some request carried; messages that came between a worker's copy and its response turn |

Each section under `conversation_mutex_` and each access of an atomic is one
action, in the order of the code: `Insert` (the insertion or merge in
`inject_context` under the mutex), `Trigger` (the status read after it),
`StartCheck`, `ClaimIdle` and `ClaimWaiting` (the two compare-exchanges); the
worker's `Top`, `SetThinking`, `Claim`, `Create`, `Respond`, `StreamEnds`,
`CallTool`, `ToolBlocks`, `ToolUnblocks`, `ToolEnds`, `Answered`, `Finish`,
`DrainGuard`; `Notify`; `Close`, `MarkDead`; `ClearStatus`, `ClearHistory`,
`ClearNotice`; `WaitCall`, `WaitCheck`. `Create` drops the new transaction when there is no
episode to put it in (`conversation.cpp:119`). `Close` is the flag that `close()` sets; what
it pages out and saves before is in `ConversationPaging`. Abstracted: a prompt is a model value,
what the model answers is a choice between text and tool calls, a transaction id
is a value of its own.

`MessageQueue` is what the agent promises to whoever hands it a message: it
waits, and a response covers it in the end. `AgentLoopProps!Queue` maps the run
loop to it: waiting is `Backlog`, covered is what is visible and not in it.

### Document (with DocumentProps, MCDocument, TextProofs, DocumentProofs)

A text is a sequence of rows, a row a sequence of characters, each character
new. Every public command of `document` but one holds the document's mutex from its
first to its last statement, so one action is one command. The exception is
`format_range`, which gives the mutex up while clang-format runs
(`document_format.cpp:114`) and checks only the bounds of the rows when it has it again
(156): the commands of a run of `Document` are those of one thread, and both sections are
one action, `FormatRange`. A command works on a record
of text, cursor, markers and recorded actions, adjusts the markers, and `Commit`
closes the undo group the way `end_edit_group` does, with merging and dropping.
`undoStack`/`redoStack` hold groups of actions exactly as recorded; `was` in a
group is history, the text the group is to bring back, which only the properties
read. Undo, redo and `get_lines_at_undo` interpret the recorded actions by the
code's own loops. `crashed` is raised where the code indexes `lines_` out of
range: in undo and redo, in the clamping of an agent's edits, and in
`notify_cursor_changed`, which every command calls last and which looks up the
rows of the cursor and of both markers. The proposals of an agent
(`apply_external_edits_json`) are a constant set of edit lists.

### MultiCursor (with MultiCursorProps, MCMultiCursor)

Extends `Document` with `carets`, the caret list of the multi-cursor mode:
choosing all or the next occurrence of a word, typing, backspace and delete at
all carets (row by row, carets of a row by column, or by the start of the selection,
with a running shift),
moving and clearing, and the keys `ui/window.cpp` sends to the single cursor
while carets exist. The occurrences of the word are those the editor finds by its own
scan of the whole text (`Occs`: of the word chosen before, kept in `word`, or else of the
one under the cursor); the spans of a language server or an enclosing scope are not
modelled. Carets are chosen while at most `MaxChosen` edits have been made; `Marked` gives
the markers the keys start with.

### AgentTree (with AgentTreeProps, MCAgentTree, AgentsProofs)

A set of agents, the first of them the root the user talks to; the others are
unborn until a tool call of another one creates them. The inside of one agent is
`AgentLoop`; here its loop is `off`, at its `top` (`called` when it comes from a tool),
`going` to ask the model once it has seen that the agent is not closed, `asking`, `ending`
a turn, inside `invoke_subagent` (`invoked`, `marking`), `waiting` in a tool or `removing`
an agent it killed. The look at `is_closed_` and the status set after it are steps of their
own at the top and at the end of a turn, so that a close may come between them, and the
status written over one that a cascade set; before a tool, the status, and the tool, do not
ask either. Tools are `invoke_subagent` with and without a wait, `wait_for_subagent`,
`kill_subagent` (closing, then removing), `send_message`, `report_final_result`, timers and
`perform_code_review`, whose verifier is a thread of its own. `tools` are the tools each
agent has, and `Granted` the choices of it that a run starts from. A death is the cascade
of `set_status(dead)`: the subagents are collected under the lock, then closed and
set to dead one by one (`doomed`), while their loops and their tools go on. A turn
that ends is counted in `reports` until `Report` notifies the parent; `inbox`
holds what a loop has not read.

### ConversationPaging (with ConversationPagingProps, ConversationProofs)

`conversation_` as episodes of messages, the current one apart, next to its run
loop (`worker`), the tools that page (`page_out_context`, `page_out_prior_context`
with its two locked sections, restore), the window's command for a snapshot, the
compaction that changes levels, and the summary thread with its queue. `disk` are
the archives, `index` what the session knows of them, `saved` what `close` wrote;
`Close`, `Restart` and, under `CrashingSpec`, `Crash` end and start sessions. A message is a record of its kind and number: a call and the result that
belongs to it share the number. The model leaves open which episodes the
compaction engine picks. `held` says whether the turn the worker writes to is
still part of the conversation. `Close` with its page-out, save and flag, and `ToolMarks`
with its snapshot and its result are one step each, though the code gives the lock up in
between.

### The services: FileCache, GitWorker, LspDocs, McpServer, DocumentFile, HexEdit, CommandRunner, RemoteTasks, CodeReview (with MCServices, FilesProofs, ServersProofs, AgentsProofs, ConversationProofs)

* `FileCache`: `get_cached` by several readers (stat, look into the cache, wait for
  or claim the file, open, insert), `notify_changed`, `prefetch` and the read-ahead
  thread, eviction by count and bytes, shutdown, and other programs that write and
  delete the files. The read-ahead thread stats, looks and opens in three steps. Contents
  are versions, and the version stands for what the code compares to find an entry current
  (device, inode, size and time stamp): a write that changes none of these is not modelled.
* `GitWorker`: the editor's status and add requests in a bounded queue, the worker
  loop, and `stop()`. Waiting on the condition variable is two steps, the look and
  the sleep.
* `LspDocs`: one document: opens, updates, saves and prefetches through
  `doc_queue_` to the worker, `query_document_symbols` of other threads directly to
  the server, the symbol cache and its marks, a server that dies and is started
  again. Texts are versions.
* `McpServer`: the boot thread, the editor's thread that toggles the server and
  ends the program, agents that call, the process with its reader, the thread that
  writes activation prompts. `stateLock` and `mutex` are the server's and the
  manager's mutex; a request is registered, written, answered or failed. A start that
  passed its last look at `is_exiting()` may yet be refused by the scan of the script or fail
  to fork, and a handshake ends in `stop()` when its list of tools cannot be read.
* `DocumentFile`: edits, saves in their steps (text taken under the lock, backup by
  rename, create, write, flag), checks for a changed file and what follows (prompt,
  reload, ignore), and foreign writes. `Toolers` are agents' threads that save and
  check beside the editor's.
* `HexEdit`: every key of the hex window. A typed nibble leaves a group of changes
  open.
* `CommandRunner`: `execute()` step by step against the child it forked, a process
  the child leaves in the background, and whoever stops it; the pipe is bounded.
  `CallsFail` lets a poll or a read be interrupted, which is tried again, or fail for good,
  which ends the loop with output unread (`broken`).
* `RemoteTasks`: the server's record of each task, its detached thread (worktree,
  program, clean-up, result), cancels, restarts, and clients that submit and poll
  over a connection that loses requests and answers.
* `CodeReview`: comments on the rows of one document, the editing commands that
  tell the manager of inserted and deleted lines and those that do not, saving,
  loading, `review.json` and restarts. The text a comment is made with is that of the row in
  the file, or what the agent gives, which may match no row.

These components share no state with each other, nor with the modules above
but through the file system and queues modelled on either side. `MCServices`
takes them together: its variable `part` picks the one that runs, so that one
run checks each under all interleavings of its own threads, and never multiplies
their states.

## 3. The runs

All bounds are named constants of the modules. `CHECK_DEADLOCK FALSE`
everywhere: the sets of messages, edits and requests are finite and the program
then rests.

| run | instance | asks |
|---|---|---|
| loop_safe | 2 messages, one a system injection; tools that wait; clearing | types; an idle agent without a worker has no message behind its newest response; the only messages no request carried came in the window between copy and response |
| loop_single | 3 messages; exits when idle; a parent that kills it; no waiting tools, no clearing | one worker at a time, which goes round again only for a message |
| loop_live | 2 system injections, 1 notice, waiting tools, a waiter; `FairSpec` | each message reaches a request or came in the window; the loop implements `MessageQueue` with its liveness; `wait_until_idle` returns |
| doc_history | 2 rows, 3 edits, 2 groups at most; typing, line breaks, pasting, replacing, deleting, deleting lines, copying a block, the formatter and an agent (no cutting, no moving of the cursor or of a block) | k undos give the text before the last k groups, however keystrokes coalesce, groups merge and old ones are dropped; undo leaves the cursor in the text |
| doc_marks | 3 rows, one empty; every command at every cursor and marker position | markers keep their place among the characters; a block is moved and copied whole and stands where the cursor was; all positions stay in the text |
| doc_redo | 2 rows, 3 edits, 2 groups at most, undo and redo in any order | redo gives back what undo took, for commands with one line break at most; the cursor stays in the text (no markers are set in this run); no more groups than the limit |
| multi_edit | words that occur on two rows, twice on one; 3 keystrokes, 2 groups at most, carets chosen before and after the first, with single-cursor keys between | a key has the effect of all carets at once, with and without words selected; carets are chosen alike; keystrokes at several lines merge with each other and with those of the single cursor, and are undone as one |
| tree | a root and 3 agents, 5 tool calls, 1 message, six assignments of tools to agents; `FairTreeSpec` | subagents of the dead are closed unless spawned during the cascade; a run loop or a verifier thread waits for ever only for a subagent that `kill_subagent` closed without setting it to dead, or whose own loop wrote another status over the dead of a cascade; the end of a turn reaches the parent |
| services | see below; `ServicesSpec` | 17 properties of the ten components, named in their modules |
| paging_crash, save_lost, runner_hang | one component of the services with a crash, an agent's thread that saves and checks, a command that does not end | section 4 |

Bounds of `services`, by component:

| component | instance | properties |
|---|---|---|
| FileCache | 2 files, one of 2 bytes, 2 readers, 2 writes, 2 reads, 2 entries, 2 bytes | `FreshFiles`, `PrefetchNotLost` |
| GitWorker | 1 file, 2 requests in the queue, 3 changes, 3 requests | `StatusFollows` |
| LspDocs | 1 querying thread, 2 texts, 3 actions, 1 query, 1 crash | `ServerFollows`, `PrefetchUnblocks` |
| McpServer | 1 agent, 2 toggles, 4 requests, 1 death | `AnswersOwn`, `ExitLeavesNothing`, `ShutdownReturns` |
| DocumentFile | 4 texts, 4 saves and checks, the editor's thread alone | `ReloadKeepsEdits` |
| HexEdit | 2 values of a nibble, 2 keys, 2 bytes | `UndoesToLoaded` |
| ConversationPaging | 3 messages said, 3 episodes, 1 shift | `NothingSaidLost`, `ResultsKept`, `GroupsWhole`, `HintOwed`, `ArchivesKept` |
| CommandRunner | reads of 1 byte, a pipe of 3, 4 bytes of output, polls and reads that fail | `OutputWhole` |
| RemoteTasks | 2 tasks, 1 client that asks again | `AnswerHolds` |
| CodeReview | 2 rows of 1 and 2 words, 2 comments, 2 changes | `CommentFollows` |

Why the bounds are enough. Two submitters give a stale status read, an insertion
in each window of the worker and a second worker; the third of loop_single only
competes for the same exchange. In loop_live both messages are system
injections, so that each may merge into the other's transaction or stand alone;
a prompt of the user is one that never merges. `MaxUndo` is the code's 1000: with
2 groups and 3 edits the stack overflows, and overflows after a merge. Markers
are data of one command, so doc_marks needs one edit only, from every placement
of cursor and markers (`VIEW WithoutHistory` identifies states that differ in the
stacks only, which no property of that run reads). Two keystrokes are enough for
one to shift the carets of the next; three for a keystroke at several lines to be
merged with those before and after it, and the carets may be chosen again after the
first (`MaxChosen`; section 4 tells what is wrong with 2). Four agents give a chain of three under the
root, so that a cascade has a middle, and a sibling; five calls are a spawn of each, a wait of
the second for the third, and the result by which the first dies and takes both with it,
or a review and the result of who asked for it while its verifier thread waits. In the services: a file of two bytes beside one of one byte makes
both limits of the cache evict; a queue of 2 overflows at the third of 3
requests; 4 MCP requests are two handshakes; a pipe of 3 bytes with
reads of 1 leaves a rest to be drained after the hang-up, which a smaller one does
not; two of the three messages said may be a call and its result, which a page-out
can divide; two comments and two words to a row let a row
be split between them.

Fairness. `FairSpec` gives weak fairness to each step of a started thread (it
gets scheduled; mutexes are held for bounded sections) and strong fairness to
`LastToolEnds`: streams and tools have timeouts, and a response carries finitely
many tool calls. It does not force anybody to submit, close or clear.
`WaiterReturns` states its further assumption itself: the model again and again
answers without a tool call. `FairTreeSpec` is the same for the loops,
the notifications, the cascades and the verifier thread of a tree; no tool call is
forced. `GitFair` makes the worker and a `stop()` that began go on; `LspFair` the
LSP worker, the querying threads, and a server that is up answers; `McpFair` the
threads that start and stop the server, those in a request (which times out), the
exit and the prompt writer, while the server itself need not answer.
`RunFairness` makes the executing thread run and the child get to its `exec`; a
command need not write or end. In `ServicesSpec` each holds while its component is
the one that runs.

## 4. Disagreements

Runs that are expected to be violated; `PROJECT.json` quotes the line each
contradicts.

| run | the code |
|---|---|
| paging_crash | gives out the numbers of archived episodes again after a session that ended without `close`, and overwrites the archive |
| save_lost | reloads a document, unasked, over an edit that is in no file, when an agent's thread saves or checks beside the editor's |
| runner_hang | waits for the end of a command in `waitpid` without looking whether it is to stop |

Other places where the code does something else than a reader expects. The
models contain this behaviour; where a property would be false because of it,
the property says what it leaves out.

Agents.

* `ai_agent.cpp:1411`: the worker copies the conversation (1398-1402) and claims
  `active_tx` (1406-1413) in two sections: a prompt between the two is answered
  without having been sent, the comment at 1816-1821 says no prompt is left.
  `OnlyTheWindowStrands` and `EveryMessageShown` name the window.
* `ai_agent.cpp:1328`: a submitter that read idle may claim `waiting` and start a
  second worker (comment at 1300-1305); `AtMostOneWorker` is checked without tools
  that wait.
* `ai_agent.cpp:1387` and 1404, 1614, 1844: a worker writes its next status over the
  terminal `dead`, after which `wait_until_idle` hangs (comment at 600-602). `WaitersReturn`
  names such an agent (`Overwritten`), and one that was killed (`Killed`).
* A notice added while the worker runs makes it ask the model once more
  (`ai_agent.cpp:1781`, 1829), and if the notice is the newest transaction the
  response is recorded in it and rendered to nothing
  (`data/transaction.cpp:13`). `LoopsOnlyForMessages` is checked without notices.
* A subagent spawned after the cascade collected the subagents escapes it;
  `kill_subagent` closes without setting dead, so that who waits for the agent hangs;
  `invoke_subagent` with a wait turns the child's notifications off for ever
  (`invoke_subagent_entry.cpp:135`); a message to a dead subagent is never read; a
  timer that fires while its agent is busy is dropped.

Paging.

* A second `/pageout 1` archives the episode with the system prompt
  (`docs/tools.md:376`); after a snapshot a result may be restored without its call
  (`GroupsWhole` is stated while nothing is archived by one).
* A snapshot that is restored puts a call into the conversation twice. The next restart
  gives the result to the restored copy, the first loose call before it, and makes up an
  aborted one for the later copy (`load_active_state`, `ai_agent.cpp:390-480`). When the
  restored episode is paged out again, the restart after that discards the real result
  as one without a call, and it is in no archive. TLC finds this with larger bounds
  (`MaxSaid` 8, `MaxEpisodes` 9, `MaxShifts` 4) along two marks, the restoring of both
  snapshots, a restart, a page-out of the second and a restart. It was found by trying to
  prove that nothing is lost: what users and models said is never lost
  (`NothingSaidLost`, proved), results are not while nothing is archived by a snapshot
  (`ResultsKept`, proved too).
* Paging out during a tool call drops the turn the worker writes to: what it writes
  then is lost (it is not counted as told); `force_compaction` (3036-3045) adds an
  interaction while holding `conversation_mutex_`; the level limits of
  `docs/compaction.md:62` are not those of `plan_compaction`; with two anchors at
  the front `close` pages nothing out.

Documents.

* `document_undo.cpp:182` redoes the actions of a group in an order that is wrong
  for groups of several lines, `docs/keybindings.md:90` says redo reapplies: redo of a
  pasted text, a block, a reformatted paragraph or an agent's edits gives another text
  than the one undone. Redo of merged deletions gives the right text, but a group that
  undoes it wrongly: Delete at the end of a row, pressed twice, merges into one group with
  two joins, and undo, redo and undo of it brings the two joined rows back in the other
  order; two merged line deletions do the same. TLC finds each of these on the three rows
  `<<1>>, <<2>>, <<3>>`, as a violation of `RedoReapplies` or `UndoTakesBack`, with the
  command, `"move"`, `"undo"` and `"redo"` in `Ops`. `RedoReapplies` is checked on two
  rows, for commands whose group has one line break at most; the theorem `RedoReturns`
  says which commands are free of all this.
* `document_undo.cpp:54` folds a keystroke at several carets into the group before it
  and drops the saved text of a line that the group has saved already under the same
  number: backspace at the carets of two lines, Esc, a backspace that joins the second
  of them to the first, and backspace at carets chosen again on the first two lines merge
  into one group, and undo leaves the second line as the last backspace made it, for it
  is not the line the group saved (`docs/design.md:118`: 'compound atomic undo'). TLC
  finds this in three rows `<<1, 2>>, <<1, 2>>, <<2, 2>>` with the keys `"multi"`,
  `"move"`, `"backspace"` and `MaxChosen = 2`; with `MaxChosen = 1` `MultiUndo` holds there.
* Undo and redo do not restore markers, `docs/design-selection.md:91` says they do.
* `apply_external_edits_json` does not move a marker at the first line it adds
  before (`document.cpp:734`), and indexes `lines_[-1]` when it removed all lines
  (`document.cpp:840`); the proposals of doc_marks keep the first line.
* `format_range` replaces its rows after the mutex was released for clang-format, with
  their bounds checked only (`document_format.cpp:156`): what another thread changes
  meanwhile is overwritten, or other rows are replaced. `FormatRange` is one step.
* Deleting a line clears a marker whose partner is not set yet
  (`document_selection.cpp:467`); `MarkersFollow` names the case.
* The formatter moves no marker (`document_format.cpp:178`), and undo only where it takes
  a row out (`document_undo.cpp:157`): one may be left beyond its row or on a row that is
  gone, `notify_cursor_changed` may index that row, and deleting the block puts the cursor
  there. `StaysInText` leaves formatter, undo and redo out.
* Moving the last lines as whole lines, with the cursor inside or at the end of
  the block, puts them in front of the line before them
  (`document_selection.cpp:250`): the target row is clamped after the block was
  taken out. `BlockKeepsText` names the case.
* `document_multicursor.cpp:499`: the second of two carets at column 0 moves to
  column -1; `select_next_scope_highlight` takes the offset of the first caret from
  the first occurrence on its row, whichever the caret is in (209; `SelectsAlike`
  requires the first); carets that meet stay two (413), a caret on a line that is
  deleted stays on it (568), and carets of unequal kind moved left get out of
  order. `MultiAtOnce` requires carets in order and in the text.
* Files: an open that fails after the backup was renamed leaves no file under the
  name; two threads that save mix their steps; a change within the same time stamp
  is not seen; a reload keeps the undo stacks of the text it replaced; a save writes
  over the changes of others without asking.
* Hex: undo after a redo with a half-typed byte takes back the older edit
  (`binary_document.cpp:158`); undo of appended bytes leaves the cursor beyond the
  end.
* Review comments: undo, redo and block commands tell no listener, so comments
  drift until a save marks them stale (`src/src/document.md:24`, 29); Enter at
  column 0 leaves the comment on the emptied row; shifts are not written to
  `review.json`, so after a restart a good comment may go stale
  (`docs/code-review.md:107` describes a mapping by git diff the code has not);
  `clear_all` starts ids at 1 again (`docs/code-review.md:22`).

Services.

* Git: `stop()` sets its flag and notifies without the queue's mutex
  (`git_manager.cpp:47`, `docs/thread-lifecycle.md:60`), so its join may hang when
  the worker has looked and does not sleep yet; `StatusFollows` excepts stopping.
  `standard_lsp_backend::stop_worker` (176-186) is alike. The 1001st request is
  dropped.
* LSP: after a restart of the server `doc_versions_` stays, so a document is only
  "changed" in a server that never opened it; a symbol query overwrites the editor's
  text with the file's (1538-1548); a late answer fills the symbol cache after it was
  dropped (1446-1449); a mark stays when the server dies with the request; the
  answer to `initialize` is awaited without a time-out (89).
* MCP: a handshake that ends after its server was switched off registers the tools
  (`mcp_manager.cpp:135-146`); the `stop()` of a failed first handshake ends the
  process of a second start (`mcp_server.cpp:361`, 397); a server switched off before
  the boot thread comes to it is started; `toggle_server` holds `mutex_` on the
  editor's thread during the handshake.
* Commands: a child that closes its output and runs on is awaited in `waitpid`
  (`command_runner.cpp:601`); a stop right after the fork comes before the child's
  `setpgid`; a sandboxed command is a systemd unit outside the process group.
* Tasks: a cancel does not stop the thread, which then writes "completed" or
  "failed" over "cancelled"; with a worktree the directory is removed before
  `result.json` is looked for, so a task that succeeded is told as failed; an answer
  to a submission that is lost leaves a task nobody asks for.

## 5. Proofs

A theorem holds for every value of the constants: any set of prompts, agents, files,
readers, tasks, any text, any bounds. Assumptions are those of the constants
(`LoopAssumption`; `TxAssumption`: transaction ids are distinct; `DocumentAssumption`:
a text has a row, an edit of an agent is of one of three kinds and counts lines from 1
(`document.cpp:748` skips others), the undo stack has room for a group;
`RootAssumption`: the root is an agent; `AgentsAssumption`: the names of the manager's
threads are not agents'; `ReviewTextAssumption`, `HexAssumption`: a loaded text is a
sequence of rows of words, loaded bytes a sequence of pairs of nibbles;
`ChunkAssumption`, `WindowAssumption`: a chunk and the read-ahead window are not empty;
`PathsAssumption`: the value for no path is not a path) and, where it says so, an option
of the run.

| module of proofs | about | theorems |
|---|---|---|
| AgentLoopProofs | AgentLoop, MessageQueue | `TypeCorrect`, `OneWorker`, `DrainedWhenIdle`, `RoundsAreForMessages`, `QueueRefined`, `StrandedOnlyInWindow` |
| AgentsProofs | AgentTree, RemoteTasks | `EscapedOnlyLate`, `EndsAreFinal` |
| TextProofs | the operators of Document | lemmas only |
| DocumentProofs | Document | `HistoryLimit`, `UndoTakesAllBack`, `UndoStepsBack`, `HistoryStays`, `AlwaysInText`, `CommandsStayInText`, `RedoReturns`, `RedoneTakesBack`, `RowWiseHistory` |
| FilesProofs | DocumentFile, FileCache, HexEdit | `AloneKeepsEdits`, `PrefetchesStay`, `CachedIsFresh`, `AllCanBeUndone` |
| ServersProofs | McpServer, LspDocs, CommandRunner | `AnswersTheirOwn`, `NothingLeft`, `LspServerFollows`, `RunnerShowsAll` |
| ConversationProofs | ConversationPaging, CodeReview | `HintsOwed`, `HintsOwedUncrashed`, `ArchivesAreKept`, `NothingSaidIsLost`, `ResultsAreKept`, `GroupsStayWhole`, `CommentsFollow` |
| DataLemmas | sequences, recursive functions | lemmas only |

### The run loop

* `TypeCorrect`: `Spec => []TypeOK`.
* `OneWorker`: `Spec => []AtMostOneWorker`, assuming that no tool
  waits and the conversation is not cleared (each makes the property false; see
  section 4). The invariant `Alone` adds that a status other than idle is
  what a worker in its loop holds.
* `DrainedWhenIdle`: `Spec => []IdleMeansDrained`. The property is
  not inductive: `DrainInv` adds that the transaction of a message not yet inserted is not
  in use (`Unused`), that a worker starts once (`Started`) and alone knows a transaction
  that was dropped (`Owned`; together `Fresh`), that what a worker answered stays answered
  (`Answering`), that a busy open agent has a worker (`Working`), and that a
  message behind the newest response has a worker or a submitter still on its way
  to a compare-exchange (`NoneLost`). Lemmas about appending and merging a message
  and recording a response (`Appended`, `Merged`, `Responded`) carry each action.
* `RoundsAreForMessages`: `Spec => LoopsOnlyForMessages`, assuming that no tool waits,
  nobody clears and there are no notices. That the newest transaction is not the one a
  worker answered does not say that a message waits; `RoundInv` says that everything
  behind a worker's transaction is a message without a response, which `OneWorker` is
  needed for: a second worker would answer some of it.
* `QueueRefined`: `Spec => QueueSpec`, the refinement of
  `MessageQueue`, if the conversation is not cleared (clearing makes covered
  messages disappear, which the queue has no action for). `QueueInv` says that
  what is in the conversation was submitted and that notices carry no message;
  every step then hands over one message (`InsertHands`), covers some
  (`RespondCovers`) or leaves both sets alone.
* `StrandedOnlyInWindow`: `Spec => []OnlyTheWindowStrands`. `Carried`
  says that a worker in the window holds all visible messages but the marked ones,
  and that a visible message that is neither shown nor marked still waits; with
  `DrainedWhenIdle` an agent at rest has none of those.

### Agents of agents

* `EscapedOnlyLate`: `TreeSpec => []OnlyLateSpawnsEscape`, for any
  agents, tools and bounds. The property speaks of what is left when the cascade is
  over; `Reached` makes it inductive: at any time a subagent of a fallen agent is late,
  or still to be dealt with (`doomed`), or closed and fallen. `ClosedFirst` is the order
  within the cascade, closed and then dead.
* `EndsAreFinal`: `TaskSpec => []AnswerHolds`, without assumptions.
  `Recorded`: while the thread of a task is on its way, its record is not an end but
  "running" or "cancelled". `Informed`: a client asks for a task that was given out, and
  an end it heard of is the record's or the record is gone.

### Texts, bytes and files

* `HistoryLimit`: `Spec => []HistoryBounded`. Undo and redo do not
  look at `max_undo_steps_`; that the undo stack never exceeds it follows only
  because closing a group clears the redo stack, so that the sum of both is what
  is bounded. `StackSteps` reduces every command to one of five effects on the
  stacks, without looking at the text.
* `UndoTakesAllBack`: `Spec => []UndoTakesBack`, and `UndoStepsBack`: `Spec => UndoSteps`,
  for any text, proposals of agents, limit and series of commands, where `Ops` has no
  `"redo"`. With redo both are false, because redo puts the actions of a group of
  several lines in a wrong order and the group it leaves on the undo stack does not lead
  back (section 4); the theorems say that this is the only way to break the history,
  and `RedoneTakesBack` below for which commands redo does not.
  - The invariant is `HistoryKept`: the variables are typed; unless the program has
    stopped on a bad index, the cursor and the markers are on rows of the text; and the
    groups form a `Chain`: group k leads from the text it is to bring back (`was`) to
    the one that group k + 1 is to bring back, the newest to the text as it is.
  - "Leads" is `Trail`: there are texts, one for each action, such that taking back an
    action in the later text gives the earlier one and the row it names is there.
    `undo()` takes back rows without any check, so that the second half is what keeps it
    from a bad index.
  - `UndoTakesBack` alone is not inductive: what a merge does to a group depends on what
    is in it. `end_edit_group` merges by type and by the row of the first action and
    drops a saved row that the group has already, which is right only because a group
    that types is one replaced row, one that backspaces is a replaced row and joined
    rows behind it, and one that deletes lines only deletes at one row, or empties the
    last row there is (`Shaped`; `FoldedTrail`). That dropping is sound is `RowIsFree`:
    the row whose saved text is kept may have become any other without a change to what
    the joined rows bring back.
  - Each operation on a working copy (`PutOn`, `CutOn`, `SplitOn`, `JoinOn`, `ExcisedOn`,
    `InsertedOn`, `FormatOn`, `ApplyEditOn`, ...) keeps a trail back to the text the
    command found; some record the row first and replace it after other actions, which
    `LastIsFree`, `RowRecorded` and `RecordReplaces` carry. `CommitKeeps` closes the
    group, with merging and dropping; a lemma per command (`...Keeps`) puts both together.
  - `RevertedOn` follows a trail with `undo()`, `TextBeforeIs` with `get_lines_at_undo`;
    `ShownAtUndo` goes back group by group.
  The invariant quantifies over texts, which TLC cannot enumerate; what it implies is
  checked by doc_history.
* `AlwaysInText`: `Spec => []InText`, and `CommandsStayInText`: `Spec => StaysInText`, for
  any text and limit, without redo: the cursor and the markers are at places of the text,
  a gap of one of its rows.
  - `HistoryKept` knows rows only; `PlacesKept` adds that the program runs, that cursor
    and markers are at places (`Sound`), and that the cursor a group saves is a place of
    the text the group is to bring back (`Rooted`), since undo puts the cursor there
    without looking.
  - For each operation on a working copy there is a lemma that a place of the old text,
    adjusted, is one of the new text: what `adjust_selection_for_...` does to a marker,
    clamping and clearing included. An agent's edits may leave a marker beyond its row on
    the way; `Ahead` is what is known until the last one is applied and the rest clamped.
  - `RowsStay` assumes that no proposal removes the first row, after which the text may be
    empty and `lines_[-1]` is read (section 4). `MarksApart`, of `AlwaysInText` only:
    markers are not used together with undo or the formatter, which leave them behind
    (section 4). Both are limits of the code, not of the proof: TLC violates `InText`
    without either. `CommandsStayInText` needs no such separation: from any state in which
    cursor and markers are at places, every other command keeps them there.
* `RedoReturns`: `Spec => []RedoReapplies`, and `RedoneTakesBack`: `Spec => []UndoTakesBack`
  with redo, for any text and limit, if the commands are typing, line breaks, replacing a
  row, backspace, cutting a row or to the next word, moving and marking (`RowWise`).
  - `undo()` reverses the list of inverses and `redo()` walks it from its end like
    `undo()`, so that the actions of a group are put back in the order in which they were
    taken away, the last one first. That comes to the same when the actions turn: the group
    is one replaced row, or a replaced row and an insertion or a removal of the row below
    it. `OutBelow` and `InBelow` show that a row may be put in or taken out below another
    before or after that one is replaced, and `Turned` that the two orders revert alike.
  - The invariant `RedoKept` is `HistoryKept`, that the groups of both stacks are of that
    kind (`Twofold`), and that those of the redo stack form a chain on from the text.
  - That coalescing keeps groups of that kind is the part that is not obvious. Typing,
    replacing and backspacing on a row merge with a group on the same row only, whose saved
    row stays. A backspace that joins two rows could be merged behind another and make a
    group of two joins; but it saves the upper row with the cursor on the lower one, and
    merges only with a group that saved the same row and left the cursor where it is now,
    while every such group leaves the cursor on the row it saved (`Twofold`, `MergedTurns`).
  - With Delete, and with line deletions, `UndoTakesBack` is false (section 4): Delete saves
    the cursor's own row when it joins, and so merges with the join before it. With
    pasting, blocks, the formatter or agents, whose groups change more rows, both are.
* `AllCanBeUndone`: `HexSpec => []UndoesToLoaded`, for any bytes and any series of keys.
  The property speaks of the undo stack only and is not inductive: an undo moves a group
  to the redo stack, a redo brings it back over whatever a half-typed byte left open. It
  cannot be strengthened to "each group takes back exactly what it did" either, for
  section 4 tells how a redo behind a half-typed byte puts groups in another order than
  they were typed in. What stays true (`Undoing`): the groups of the undo stack and the
  open one account for the appended bytes, group by group (`Standing`, `Climbs`); and
  for each loaded byte, the first change of it - in the undo stack, or if there is none
  in the open group and among what may be redone - found what was loaded. `TakenBack`
  and `AppliedAgain` say what a whole group does to the bytes, `AllTakenBack` what
  undoing every group does; `KeyKeeps`, `UndoneOpen`, `UndoneLast`, `RedoneLast` carry
  the keys.
* `AloneKeepsEdits`: `Toolers = {}` implies
  `FileSpec => ReloadKeepsEdits`. `Saved` is that an unmodified text has been in a file
  and that a save under way has the text of the document; `Named` that the file of
  the document's name holds a text that was kept, unless it was just emptied. With a
  second thread `Saved` is false between the look and the reload, which is what
  save_lost shows.
* `PrefetchesStay`: `CacheSpec => []PrefetchNotLost`. The loop that picks a file for the
  read-ahead thread drops several entries of the queue before it settles on one;
  `Queues` is what every round of it keeps.
* `CachedIsFresh`: `CacheSpec => []FreshFiles`. What a caller gets is decided by steps
  that all read the file system anew; `FreshInv` ties them together: no entry is older
  than the file time it carries, no path has two entries (`Caches`, kept by insertion,
  touching and eviction), and what a reader has seen of its file is as new as the file
  was when it called (`FreshSoFar`). It needs nothing of `notify_changed` or of the
  read-ahead thread, which is why both may race.

### Servers and commands

* `AnswersTheirOwn`: `McpSpec => []AnswersOwn`. `Numbered` says that
  every id in use was given out before and that one id names one thread, among the
  registered requests, on the wire and at the callers; it survives time-outs, deaths
  and restarts only because the numbering does not start again with the process. `Own`
  adds the answer that arrives before its request is written.
* `NothingLeft`: `McpSpec => []ExitLeavesNothing`. `ExitInv` says that
  the starting threads have a request only in a handshake (`Calling`), that a process
  runs only while `pid_` is set and who ends it holds the lock (`Process`), and what each
  step of the exit has established (`Leaving`).
* `LspServerFollows`: `LspSpec => []ServerFollows`. `OnItsWay`: the text given last is
  the last one in the queue, or none is queued and the worker has it, or the server has
  it unless it opened the file's text since.
* `RunnerShowsAll`: `RunSpec => []OutputWhole`, for any output, unless a poll or a read failed. `Delivered`: what was
  written is what was taken from the pipe and what is still in it, and the lines shown
  and the rest in the buffer are what the taken part breaks into. `BrokenInTwo` is the lemma
  that makes chunks harmless: breaking a text gives the same as breaking its first part
  and then the rest of that with its second part.

### A conversation and its reviews

* `HintsOwed`: `CrashingSpec => []HintOwed`, also when sessions are killed, and
  `HintsOwedUncrashed` for `PagingSpec`. `HintInv` adds that what the index knows is on
  disk, which a new session takes its queue from.
* `ArchivesAreKept`: `PagingSpec => ArchivesKept`, an action property, for sessions that
  are closed and not killed (paging_crash shows it false otherwise). A page-out takes a
  new number (`Numbered`: every archive's is below the next one); a snapshot writes the
  current episode under its own id again, and `OwnKept` says why nothing is missing from
  it then: what that archive has the episode still has, and the one message that is
  taken off an episode, the empty turn of a request, is in no archive.
* `NothingSaidIsLost`, `ResultsAreKept` and `GroupsStayWhole`: `PagingSpec =>
  []NothingSaidLost`, `[]ResultsKept` and `[]GroupsWhole`, for any number of messages,
  episodes, levels and sessions, from one invariant. `SaidInv` is `ArchiveInv` with two
  unknowns, a number L and a truth value R, and `SaidAt(L, R)`:
  - `Conversed`: the conversation is typed, the index is what is on disk, no call or
    result has a number from L on, and what an episode says is in its archive;
  - `Told`: every word told is in the current episode or an archive;
  - if R, all of this is so of results too, and calls and results are in order: in an
    archive and in an episode each call has its result (`Complete`), in the current
    episode and in what is sent each result has its call, and a call without a result is
    the last event of its number (`Matched`). `Answers` is what "its" means: the same
    number and episode, and no event of that number between the two;
  - `Awaited`: the call that a tool runs for is still without its result, unless a rebuild
    dropped the turn.

  R holds until agent_mark_episode archives something: from then on results are not
  followed, and words still are. L is what makes a new call new: it is at most the number
  of the request that the model is asked.

  An episode may then be dropped, rebuilt from its archive or repaired without a look at
  the others, and only what moves messages out of the current episode has to write an
  archive first. `SettledClean` says that the passes of page_out_context end with a range
  that no group crosses (each pass that changes a range makes it shorter), `RangeOrdered`
  that such a range is complete and leaves the rest matched, `PageOutCuts` that nothing
  gets lost between the two. `BodyOrdered` and `FlatEntries` carry the order through
  set_conversation and get_conversation, `InStateBehind` and `PagedInBehind` through what
  is restored. `OwnResult` is the reason why the repair of a restart is harmless: the
  results it hands to the calls in turn are their own, so that it drops none
  (`NormalizedSaid`). With the second copy of a call that a restored snapshot brings, it is
  false.
* `CommentsFollow`: `ReviewSpec => []CommentFollows`. `Placed`: rows have line objects of
  their own, numbered as they were made, and the comments made on them follow.
  `DeletionFollowed`, `InsertionFollowed` and their like are one lemma for each way rows
  change, for any rows and comments, which the commands are composed of.

### Data

`DataLemmas` states once what the proofs need of sequences and recursive functions:
the elements of a concatenation, of a sequence with one taken out, a position for the
greatest of finitely many numbers, a sequence that puts a set in order. Theorems of the
library that take an operator as a parameter cannot be used, so induction is done on
sets: `LeastNumber` gives the least counterexample, `CountingUp` says that a set with 0
that is closed under counting holds all numbers up to n. `Recursion` shows that a
function defined along a sequence exists, which is what a recursive definition like
`Revoked` or `Picked` needs before anything can be said of its value. The model writes
these as recursive functions of a position for that reason. `Flattened` says what is in a
sequence of sequences joined into one, `Laid` and `Selected` at which places, `LeastIn` and
`GreatestIn` that `Min` and `Max` of a set of numbers are in it, `SliceSet` what a slice
holds.

### Only model-checked

Liveness under fairness, which the prover cannot treat: `EveryMessageShown`,
`WaiterReturns`, `WaitersReturn`, `CompletionsHeard`, `StatusFollows`,
`PrefetchUnblocks`, `ShutdownReturns`. Of the safety properties: `MarkersFollow` and
`BlockKeepsText` of `Document`, which speak of the characters around a marker and of a
block, where `PlacesKept` has only that markers are somewhere in the text; `InText` and
`RedoReapplies` of doc_redo outside the hypotheses of their theorems (with redo, and with
Delete, on two rows); those of `MultiCursor`, whose keys are folds over sorted carets:
`MultiUndo` is false in general (section 4), and what makes it true for `MaxChosen = 1` is
a fact about all carets of one key at once, of the value of a fold, which needs induction
over data.

## 6. Not modelled

Of components with a module:

* `Document`: what other threads do while `format_range` has given the mutex up, loading, lines appended by running commands, trimming of trailing
  blanks, search, and read-only documents (of which block deletion and copying do
  not ask).
* `AgentLoop`: persistence, switching of models, the Responses mode of the
  protocol. Paging and compaction are in `ConversationPaging`, which leaves out
  `clear_conversation`, `compact_ephemeral_errors`, notifications, and other threads between
  the locked sections of `close()` and of `agent_mark_episode`, which are one step each.
* `AgentTree`: profiles, the window's list of agents, the text of messages.
* `FileCache`: `clear_cache`, splitting into lines, writes that keep the time stamp. `DocumentFile`: `insert_file`,
  lines of a running command. `LspDocs`: hover, definitions, hierarchies,
  diagnostics. `McpServer`: the analysis of server scripts, configuration, the role
  as a server. `CommandRunner`: sandbox profiles, reports after a crash.
  `RemoteTasks`: agent cards, authentication. `CodeReview`: filters, summaries, the
  window.

Components without a module: LLM protocols, the tools that do not page, wait or
spawn, plugins, inspector, vfs, UTF-8, configuration (conversions and I/O: functions
of their input), widgets, dialogs and highlighters (drawing and parsing), code maps
and semcode (parsers with a cache of results, SQL), the editor's event loop (one
queue and one thread that dispatches), crash handling (signal handlers). They are
most of the lines of the repository, a vendored header of 11000 lines among them;
the modules cover the stateful and concurrent core, about one line in twenty.

## 7. Plan

Done: the modules of section 2 and the theorems of section 5. Left, in the order of
what they would add:

1. Proofs: `MultiUndo` for carets chosen in the loaded text, by trails as in
   `UndoTakesAllBack` with groups that replace several rows, once its folds are recursive
   functions of a position (with carets chosen after a join it is false, see section 4: the
   attempt to prove it found that); `MarkersFollow`, for which the lemmas of places need
   the characters on both sides; `InText` with redo for the commands of `RowWise`;
   `StatusFollows` and the liveness of the tree have safety parts that can be stated as
   invariants (a file whose status is behind has a request queued or running; a waiting
   loop is on somebody's list).
2. A reload in `Document` itself (`document.cpp:71`), with the history that survives
   it, and undo groups that carry markers if the code comes to have them.
3. `AgentTree` over two instances of `AgentLoop` in place of its own loop.
4. The semcode indexer's queue, and the event queue with windows that close while
   a result is on its way.
