------------------------------- MODULE LspDocs -------------------------------
(* One document and its language server (standard_lsp_backend.cpp): the editor's opens,
   updates and saves and the prefetches go through doc_queue_ to a worker thread, while
   query_document_symbols of other threads talks to the server itself.  A server that
   dies is started again by the next that needs it.  Texts are versions. *)
EXTENDS Naturals, Sequences, FiniteSets

CONSTANTS Queriers,    \* threads that query symbols
          MaxTexts,    \* bound: texts the editor makes
          MaxActions,  \* bound: actions queued
          MaxQueries,  \* bound: queries
          MaxCrashes   \* bound: servers that die

VARIABLES
  editorText,     \* the editor's text
  onDisk,         \* the file's
  docQueue,       \* doc_queue_
  actions, queries, crashes,
  pushed,         \* history: the text queued last, 0 for none
  syncer,         \* the worker: idle, serve, send, ask, with its action
  version,        \* doc_versions_; 0 when absent
  server,         \* up, whether it has the document open, and its text
  querier,        \* each thread: out, check, read, open, ask, wait, with the text it read
  symbolRequests, \* symbol requests the server has not answered: who asked, its text
  symbols,        \* symbol_cache_: the text the symbols are of, 0 for none
  marked,         \* in_flight_symbol_queries_
  fromFile        \* history: the text sent last is the file's, read for a symbol request

\* The texts outside the client and its server, and the bounds.
lspTexts  == <<editorText, onDisk, pushed>>
lspBounds == <<actions, queries, crashes>>
lspVars == <<editorText, onDisk, docQueue, actions, queries, crashes, pushed, syncer, version, server, querier,
             symbolRequests, symbols, marked, fromFile>>

Waiting == [at |-> "idle", kind |-> "none", text |-> 0]
Out     == [at |-> "out", text |-> 0]
Down    == [up |-> FALSE, opened |-> FALSE, text |-> 0]

\* An editor call: the caches of the document are dropped, then the action is queued.
Queues(kind, t) ==
    /\ actions < MaxActions /\ actions' = actions + 1
    /\ docQueue' = Append(docQueue, [kind |-> kind, text |-> t])
    /\ UNCHANGED <<queries, crashes, syncer, version, server, querier, symbolRequests, fromFile>>

LspOpens ==
    /\ Queues("open", editorText) /\ pushed' = editorText /\ symbols' = 0 /\ marked' = FALSE
    /\ UNCHANGED <<editorText, onDisk>>

LspUpdates ==
    /\ editorText < MaxTexts /\ editorText' = editorText + 1
    /\ Queues("update", editorText') /\ pushed' = editorText' /\ symbols' = 0 /\ marked' = FALSE
    /\ UNCHANGED onDisk

LspSaves ==
    /\ onDisk' = editorText
    /\ Queues("save", editorText) /\ pushed' = editorText /\ symbols' = 0 /\ marked' = FALSE
    /\ UNCHANGED editorText

Prefetches == Queues("prefetch", 0) /\ UNCHANGED <<lspTexts, symbols, marked>>

-----------------------------------------------------------------------------
(* Talking to the server *)

\* get_server_for_file: up already, or started, which may fail.
Started(s, ok) == IF s.up THEN s ELSE IF ok THEN [up |-> TRUE, opened |-> FALSE, text |-> 0] ELSE Down

\* didOpen of an unknown document, didChange of a known one: a server that is down loses
\* it, one that has not opened the document drops a change of it.
Received(s, opening, t) ==
    IF ~s.up THEN s
    ELSE IF opening THEN [s EXCEPT !.opened = TRUE, !.text = t]
    ELSE IF s.opened THEN [s EXCEPT !.text = t] ELSE s

\* Mutant: an open of a document the server has is not an update.
SendOpenOnce(kind, t) ==
    /\ version' = version + 1
    /\ server' = IF kind = "open" /\ version # 0 THEN server ELSE Received(server, version = 0, t)

Send(kind, t) ==
    /\ version' = version + 1
    /\ server' = Received(server, version = 0, t)

\* A symbol request: the answer will be of the text the server has by then.
Request(who) ==
    symbolRequests' = IF server.up THEN symbolRequests \union {[by |-> who, text |-> server.text]} ELSE symbolRequests

-----------------------------------------------------------------------------
(* The worker *)

SyncerTakes ==
    /\ syncer.at = "idle" /\ docQueue # <<>>
    /\ docQueue' = Tail(docQueue)
    /\ LET a == Head(docQueue) IN
       IF a.kind # "prefetch"
       THEN syncer' = [at |-> "serve", kind |-> a.kind, text |-> a.text] /\ UNCHANGED marked
       ELSE IF symbols # 0 \/ marked THEN UNCHANGED <<syncer, marked>>
       ELSE syncer' = [at |-> "serve", kind |-> "prefetch", text |-> 0] /\ marked' = TRUE
    /\ UNCHANGED <<lspTexts, lspBounds, version, server, querier, symbolRequests, symbols, fromFile>>

\* Mutant: a prefetch without a server leaves its mark.
UnmarkedNot == marked

\* No server: the action is dropped, the prefetch's mark too.
Unmarked == IF syncer.kind = "prefetch" THEN FALSE ELSE marked

Serves(ok) ==
    /\ syncer.at = "serve"
    /\ server' = Started(server, ok)
    /\ IF server'.up
       THEN /\ syncer' = IF syncer.kind # "prefetch" THEN [syncer EXCEPT !.at = "send"]
                         ELSE IF version # 0 THEN [syncer EXCEPT !.at = "ask"]
                         ELSE [syncer EXCEPT !.at = "send", !.text = onDisk]
            /\ UNCHANGED marked
       ELSE syncer' = Waiting /\ marked' = Unmarked
    /\ UNCHANGED <<lspTexts, lspBounds, docQueue, version, querier, symbolRequests, symbols, fromFile>>

SyncerSends ==
    /\ syncer.at = "send"
    /\ Send(syncer.kind, syncer.text)
    /\ fromFile' = (syncer.kind = "prefetch")
    /\ syncer' = IF syncer.kind = "prefetch" THEN [syncer EXCEPT !.at = "ask"] ELSE Waiting
    /\ UNCHANGED <<lspTexts, lspBounds, docQueue, querier, symbolRequests, symbols, marked>>

\* The request of a prefetch; sending to a dead server fails.
AsksAhead ==
    /\ syncer.at = "ask"
    /\ Request("syncer")
    /\ marked' = IF server.up THEN marked ELSE FALSE
    /\ syncer' = Waiting
    /\ UNCHANGED <<lspTexts, lspBounds, docQueue, version, server, querier, symbols, fromFile>>

-----------------------------------------------------------------------------
(* query_document_symbols *)

Queries(q) ==
    /\ querier[q].at = "out" /\ symbols = 0 /\ queries < MaxQueries /\ queries' = queries + 1
    /\ \E ok \in BOOLEAN :
         /\ server' = Started(server, ok)
         /\ querier' = [querier EXCEPT ![q].at = IF server'.up THEN "check" ELSE "out"]
    /\ UNCHANGED <<lspTexts, docQueue, actions, crashes, syncer, version, symbolRequests, symbols,
                   marked, fromFile>>

\* Cached symbols older than five seconds are returned, and asked for again.
Refreshes ==
    /\ symbols # 0 /\ queries < MaxQueries /\ queries' = queries + 1
    /\ \E ok \in BOOLEAN :
         /\ server' = Started(server, ok)
         /\ symbolRequests' = IF server'.up THEN symbolRequests \union {[by |-> "refresh", text |-> server'.text]} ELSE symbolRequests
    /\ UNCHANGED <<lspTexts, docQueue, actions, crashes, syncer, version, querier, symbols, marked,
                   fromFile>>

\* The document must be open: else the file's text is read, without a lock.
QuerierReads(q) ==
    /\ querier[q].at = "check"
    /\ querier' = [querier EXCEPT ![q] = IF version # 0 THEN [Out EXCEPT !.at = "ask"]
                                         ELSE [at |-> "open", text |-> onDisk]]
    /\ UNCHANGED <<lspTexts, lspBounds, docQueue, syncer, version, server, symbolRequests, symbols,
                   marked, fromFile>>

QuerierOpens(q) ==
    /\ querier[q].at = "open"
    /\ Send("open", querier[q].text)
    /\ fromFile' = TRUE
    /\ querier' = [querier EXCEPT ![q].at = "ask"]
    /\ UNCHANGED <<lspTexts, lspBounds, docQueue, syncer, symbolRequests, symbols, marked>>

QuerierAsks(q) ==
    /\ querier[q].at = "ask"
    /\ Request(q)
    /\ querier' = [querier EXCEPT ![q].at = "wait"]
    /\ UNCHANGED <<lspTexts, lspBounds, docQueue, syncer, version, server, symbols, marked, fromFile>>

\* The second it waits is over; the request stays.
GivesUp(q) ==
    /\ querier[q].at = "wait" /\ querier' = [querier EXCEPT ![q] = Out]
    /\ UNCHANGED <<lspTexts, lspBounds, docQueue, syncer, version, server, symbolRequests, symbols,
                   marked, fromFile>>

\* The server's answer: the callback keeps the symbols, whatever was invalidated since,
\* and a thread that still waits goes on.
ServerAnswers(r) ==
    /\ server.up /\ r \in symbolRequests /\ symbolRequests' = symbolRequests \ {r}
    /\ symbols' = IF r.text # 0 THEN r.text ELSE symbols
    /\ marked' = FALSE
    /\ querier' = IF r.by \in Queriers /\ querier[r.by].at = "wait" THEN [querier EXCEPT ![r.by] = Out] ELSE querier
    /\ UNCHANGED <<lspTexts, lspBounds, docQueue, syncer, version, server, fromFile>>

\* The server dies: doc_versions_ and the marks stay.
ServerCrashes ==
    /\ server.up /\ crashes < MaxCrashes /\ crashes' = crashes + 1
    /\ server' = Down /\ symbolRequests' = {}
    /\ UNCHANGED <<lspTexts, docQueue, actions, queries, syncer, version, querier, symbols, marked,
                   fromFile>>

-----------------------------------------------------------------------------
LspInit ==
    /\ editorText = 1 /\ onDisk = 1 /\ docQueue = <<>> /\ actions = 0 /\ queries = 0 /\ crashes = 0 /\ pushed = 0
    /\ syncer = Waiting /\ version = 0 /\ server = Down /\ querier = [q \in Queriers |-> Out]
    /\ symbolRequests = {} /\ symbols = 0 /\ marked = FALSE /\ fromFile = FALSE

Syncs == SyncerTakes \/ SyncerSends \/ AsksAhead \/ \E ok \in BOOLEAN : Serves(ok)
Replies == \E r \in symbolRequests : ServerAnswers(r)
Asking(q) == QuerierReads(q) \/ QuerierOpens(q) \/ QuerierAsks(q) \/ GivesUp(q)

LspNext ==
    \/ LspOpens \/ LspUpdates \/ LspSaves \/ Prefetches \/ ServerCrashes \/ Refreshes
    \/ Syncs \/ Replies
    \/ \E q \in Queriers : Queries(q) \/ Asking(q)

\* The worker and the querying threads run on, and a server that is up answers.
LspFairness == WF_lspVars(Syncs) /\ WF_lspVars(Replies) /\ \A q \in Queriers : WF_lspVars(Asking(q))
LspSpec == LspInit /\ [][LspNext]_lspVars /\ LspFairness

-----------------------------------------------------------------------------
\* ServerFollows: once the queue is worked off, a server that has the document open has
\* the text the editor gave last, unless a symbol request opened it with the file's text
\* after that.
ServerFollows ==
    docQueue = <<>> /\ syncer = Waiting /\ pushed # 0 /\ server.opened /\ ~fromFile => server.text = pushed

\* PrefetchUnblocks: a mark that keeps prefetches of the document away goes, unless a
\* server died with the request.
PrefetchUnblocks == marked ~> ~marked \/ crashes > 0
=============================================================================
