----------------------------- MODULE MCServices -----------------------------
(* The components that keep to themselves, one of them a behaviour: the file cache, the
   git worker, the language server's document, an MCP server, a document's file, the hex
   editor, a conversation and its archives, a command, the tasks for other agents and
   the review comments. *)
EXTENDS FileCache, GitWorker, LspDocs, McpServer, DocumentFile, HexEdit,
        ConversationPagingProps, CommandRunner, RemoteTasks, CodeReview

VARIABLE part

SizeOf   == [p \in Paths |-> IF p = "a" THEN 1 ELSE 2]
OneByte  == << <<0, 1>> >>
TwoLines == << <<1>>, <<2, 3>> >>

Init ==
    /\ part \in {"cache", "git", "lsp", "mcp", "file", "hex", "paging", "run", "task", "review"}
    /\ CacheInit /\ GitInit /\ LspInit /\ McpInit /\ FileInit /\ HexInit
    /\ PagingInit /\ RunInit /\ TaskInit /\ ReviewInit

\* What the first six and the last four keep.
older == <<cacheVars, gitVars, lspVars, mcpVars, fileVars, hexVars>>
newer == <<pagingVars, runVars, taskVars, reviewVars>>

OnlyOf(p) == part = p /\ UNCHANGED part
CacheStep  == OnlyOf("cache")  /\ CacheNext  /\ UNCHANGED <<newer, gitVars, lspVars, mcpVars, fileVars, hexVars>>
GitStep    == OnlyOf("git")    /\ GitNext    /\ UNCHANGED <<newer, cacheVars, lspVars, mcpVars, fileVars, hexVars>>
LspStep    == OnlyOf("lsp")    /\ LspNext    /\ UNCHANGED <<newer, cacheVars, gitVars, mcpVars, fileVars, hexVars>>
McpStep    == OnlyOf("mcp")    /\ McpNext    /\ UNCHANGED <<newer, cacheVars, gitVars, lspVars, fileVars, hexVars>>
FileStep   == OnlyOf("file")   /\ FileNext   /\ UNCHANGED <<newer, cacheVars, gitVars, lspVars, mcpVars, hexVars>>
HexStep    == OnlyOf("hex")    /\ HexNext    /\ UNCHANGED <<newer, cacheVars, gitVars, lspVars, mcpVars, fileVars>>
PagingStep == OnlyOf("paging") /\ PagingNext /\ UNCHANGED <<older, runVars, taskVars, reviewVars>>
RunStep    == OnlyOf("run")    /\ RunNext    /\ UNCHANGED <<older, pagingVars, taskVars, reviewVars>>
TaskStep   == OnlyOf("task")   /\ TaskNext   /\ UNCHANGED <<older, pagingVars, runVars, reviewVars>>
ReviewStep == OnlyOf("review") /\ ReviewNext /\ UNCHANGED <<older, pagingVars, runVars, taskVars>>

Next ==
    \/ CacheStep \/ GitStep \/ LspStep \/ McpStep \/ FileStep \/ HexStep
    \/ PagingStep \/ RunStep \/ TaskStep \/ ReviewStep

\* The fairness of each component while it is the one that runs.
GitFair == WF_gitVars(part = "git" /\ Works) /\ WF_gitVars(part = "git" /\ StopSteps)
LspFair ==
    /\ WF_lspVars(part = "lsp" /\ Syncs) /\ WF_lspVars(part = "lsp" /\ Replies)
    /\ \A q \in Queriers : WF_lspVars(part = "lsp" /\ Asking(q))
McpFair ==
    /\ \A t \in Starters : WF_mcpVars(part = "mcp" /\ StarterSteps(t))
    /\ \A t \in Threads : WF_mcpVars(part = "mcp" /\ RequestSteps(t))
    /\ WF_mcpVars(part = "mcp" /\ ExitSteps) /\ WF_mcpVars(part = "mcp" /\ Prompts)

ServicesSpec ==
    /\ Init /\ [][Next]_<<part, older, newer>>
    /\ GitFair /\ LspFair /\ McpFair
=============================================================================
