---------------------------- MODULE CommandRunner ----------------------------
(* A command under the editor (command_runner.cpp, process_runner.cpp): the thread
   that forks it polls its pipe and delivers the output in chunks, which are put
   together to lines; the user, a time-out or the end of the program stops it.  The
   command writes, closes its output, leaves processes in the background, and ends
   when it likes. *)
EXTENDS Naturals, Sequences

CONSTANTS Chunk,     \* what one read takes: 4096 bytes in the code
          PipeSize,  \* what the pipe holds
          MaxOutput, \* bound: what the command writes
          CallsFail  \* poll and read may fail

ASSUME ChunkAssumption == Chunk \in Nat \ {0} /\ CallsFail \in BOOLEAN

NL == "nl"   \* the end of a line; every other byte is "x"

VARIABLES
  step,    \* execute(): check, poll, read, hup, kill, wait, done
  revents, \* what poll returned: a hang-up
  stop,    \* should_continue() is false: stop_requested_, the time-out, the exit
  canceled,
  broken,  \* history: a failed poll or read ended the loop
  child,   \* forked, running (in a group of its own), zombie, reaped
  writing, \* the child's output is open
  behind,  \* a process in the background: none, writing, quiet, gone
  wrote,   \* history: the bytes written
  pipe,    \* the bytes not read yet
  buffer,  \* line_buffer_
  shown    \* the lines of the document

runVars == <<step, revents, stop, canceled, broken, child, writing, behind, wrote, pipe, buffer, shown>>
runner  == <<step, revents, canceled, broken, buffer, shown>>
program == <<child, writing, behind, wrote>>

\* No process has the pipe open for writing.
HungUp == ~(child \in {"forked", "running"} /\ writing) /\ behind # "writing"

-----------------------------------------------------------------------------
(* The command *)

\* setpgid and exec.
JoinsGroup ==
    /\ child = "forked" /\ child' = "running"
    /\ UNCHANGED <<runner, stop, writing, behind, wrote, pipe>>

Outputs(b) ==
    /\ (child = "running" /\ writing) \/ behind = "writing"
    /\ step \notin {"wait", "done"} /\ Len(pipe) < PipeSize /\ Len(wrote) < MaxOutput
    /\ wrote' = Append(wrote, b) /\ pipe' = Append(pipe, b)
    /\ UNCHANGED <<runner, stop, child, writing, behind>>

ClosesOutput ==
    /\ child = "running" /\ writing /\ writing' = FALSE
    /\ UNCHANGED <<runner, stop, child, behind, wrote, pipe>>

Backgrounds ==
    /\ child = "running" /\ behind = "none"
    /\ behind' \in {"quiet"} \union (IF writing THEN {"writing"} ELSE {})
    /\ UNCHANGED <<runner, stop, child, writing, wrote, pipe>>

ChildExits ==
    /\ child = "running" /\ child' = "zombie"
    /\ UNCHANGED <<runner, stop, writing, behind, wrote, pipe>>

BehindExits ==
    /\ behind \in {"writing", "quiet"} /\ behind' = "gone"
    /\ UNCHANGED <<runner, stop, child, writing, wrote, pipe>>

-----------------------------------------------------------------------------
(* Delivering: on_output_chunk and on_output_line *)

\* What a text is broken into: the lines that are complete, and what is left.
Nothing == [lines |-> <<>>, rest |-> <<>>]
OneMore(b, c) ==
    IF c = NL THEN [lines |-> Append(b.lines, b.rest), rest |-> <<>>]
    ELSE [lines |-> b.lines, rest |-> Append(b.rest, c)]
Broken(text) ==
    LET upTo[k \in 0..Len(text)] ==
          IF k = 0 THEN Nothing ELSE OneMore(upTo[k - 1], text[k])
    IN  upTo[Len(text)]
LinesIn(text) == Broken(text).lines
RestOf(text)  == Broken(text).rest

Deliver(text) ==
    /\ shown' = shown \o LinesIn(buffer \o text)
    /\ buffer' = RestOf(buffer \o text)

-----------------------------------------------------------------------------
(* execute *)

\* stop() by the user, the time-out, or the program's exit.
Interrupted ==
    /\ ~stop /\ step # "done" /\ stop' = TRUE
    /\ UNCHANGED <<runner, program, pipe>>

LooksAtStop ==
    /\ step = "check"
    /\ step' = IF stop THEN "kill" ELSE "poll"
    /\ canceled' = stop
    /\ UNCHANGED <<revents, broken, buffer, shown, stop, program, pipe>>

\* After 100 ms without an event it looks at should_continue() again.
PollsPipe ==
    /\ step = "poll"
    /\ revents' = HungUp
    /\ step' = IF pipe # <<>> THEN "read" ELSE IF HungUp THEN "hup" ELSE "check"
    /\ UNCHANGED <<canceled, broken, buffer, shown, stop, program, pipe>>

NextChunk == SubSeq(pipe, 1, IF Len(pipe) < Chunk THEN Len(pipe) ELSE Chunk)

ReadsPipe ==
    /\ step = "read"
    /\ Deliver(NextChunk) /\ pipe' = SubSeq(pipe, Len(NextChunk) + 1, Len(pipe))
    /\ step' = IF revents THEN "hup" ELSE "check"
    /\ UNCHANGED <<revents, canceled, broken, stop, program>>

\* A poll or a read that is interrupted is done again after the check ...
Retries ==
    /\ step \in {"poll", "read"} /\ CallsFail /\ step' = "check"
    /\ UNCHANGED <<revents, canceled, broken, buffer, shown, stop, program, pipe>>

\* ... and one that fails ends the loop.
PipeFails ==
    /\ step \in {"poll", "read"} /\ CallsFail /\ step' = "wait" /\ broken' = TRUE /\ pipe' = <<>>
    /\ UNCHANGED <<revents, canceled, buffer, shown, stop, program>>

\* Nobody writes any more: the rest is read and the loop ends.
\* Mutant: one more read.
DrainedOnce == NextChunk
Drained == pipe

HangsUp ==
    /\ step = "hup" /\ step' = "wait"
    /\ Deliver(Drained) /\ pipe' = <<>>
    /\ UNCHANGED <<revents, canceled, broken, stop, program>>

\* kill(-pid): without a process group yet it reaches nobody, and a command in the
\* sandbox is a unit of systemd and not in the group.
KillsGroup ==
    /\ step = "kill" /\ step' = "wait" /\ pipe' = <<>>
    /\ IF child = "forked" THEN UNCHANGED <<child, behind>>
       ELSE child' = "zombie" /\ behind' \in {behind, IF behind = "none" THEN "none" ELSE "gone"}
    /\ UNCHANGED <<revents, canceled, broken, buffer, shown, stop, writing, wrote>>

\* waitpid, then flush() shows the last line.
ReapsChild ==
    /\ step = "wait" /\ child = "zombie"
    /\ step' = "done" /\ child' = "reaped"
    /\ shown' = IF buffer = <<>> THEN shown ELSE Append(shown, buffer)
    /\ buffer' = <<>>
    /\ UNCHANGED <<revents, canceled, broken, stop, writing, behind, wrote, pipe>>

-----------------------------------------------------------------------------
RunInit ==
    /\ step = "check" /\ revents = FALSE /\ stop = FALSE /\ canceled = FALSE /\ broken = FALSE
    /\ child = "forked" /\ writing = TRUE /\ behind = "none"
    /\ wrote = <<>> /\ pipe = <<>> /\ buffer = <<>> /\ shown = <<>>

Executes == \/ LooksAtStop \/ PollsPipe \/ ReadsPipe \/ Retries \/ PipeFails
            \/ HangsUp \/ KillsGroup \/ ReapsChild
Program  == \/ JoinsGroup \/ (\E b \in {"x", NL} : Outputs(b)) \/ ClosesOutput
            \/ Backgrounds \/ ChildExits \/ BehindExits
RunNext  == Interrupted \/ Executes \/ Program

\* The thread that executes is scheduled, and so is a child up to its exec; a command
\* need not write or end.
RunFairness == WF_runVars(Executes) /\ WF_runVars(JoinsGroup)
RunSpec     == RunInit /\ [][RunNext]_runVars /\ RunFairness

-----------------------------------------------------------------------------
\* OutputWhole: a command that was not stopped has all its output shown, line by line,
\* wherever a chunk ended and whoever of its processes closed the output last, unless a
\* poll or a read failed.
WholeLines(text) == LinesIn(text) \o (IF RestOf(text) = <<>> THEN <<>> ELSE <<RestOf(text)>>)
OutputWhole == step = "done" /\ ~canceled /\ ~broken => shown = WholeLines(wrote)

\* StopHeeded: once it is to stop, execute() returns (command_runner.h:54-56: "Uses
\* poll() to ensure we don't block indefinitely without checking should_continue()",
\* "Blocks until the process finishes or should_continue() returns false").
StopHeeded == stop ~> step = "done"
=============================================================================
