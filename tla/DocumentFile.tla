---------------------------- MODULE DocumentFile ----------------------------
(* An open document and its file (document.cpp): saves, checks for changes on the disk
   and reloads.  The editor's thread edits, saves and checks; every tool call of an agent
   first saves all documents and afterwards checks them, on the agent's own thread
   (tool_registry.cpp).  save_to_file gives up the document's lock while it writes.
   Texts are versions. *)
EXTENDS Naturals, Sequences, FiniteSets

CONSTANTS Toolers,  \* agents' threads that call tools
          MaxText,  \* bound: texts made by edits and by other programs
          MaxSaves  \* bound: saves and checks begun

Workers == Toolers \union {"editor"}

VARIABLES
  text,     \* lines_
  modified, \* modified_
  seen,     \* last_disk_mtime_; 0 when has_last_disk_mtime_ is false
  ignoring, \* ignore_disk_changes_
  active,   \* it is the active document; prompt: the reload prompt is open
  prompt,
  files,    \* every file written so far: its text (0 while empty) and its time
  name,     \* which of them the document's name is, and its name with "~"; 0 for none
  backup,
  clock,    \* the time of the last write; texts: versions so far; begun: saves and checks
  texts, begun,
  work,     \* each thread: where it is in a save or a check, what it writes and where
  kept      \* history: texts that have been in a file

fileVars == <<text, modified, seen, ignoring, active, prompt, files, name, backup, clock, texts, begun, work, kept>>
flags == <<seen, ignoring>>
window == <<active, prompt>>
storage == <<files, name, backup, clock, kept>>
counters == <<texts, begun>>

AtRest == [at |-> "out", text |-> 0, file |-> 0]
MTime == IF name = 0 THEN 0 ELSE files[name].time
EditorFree == work["editor"].at = "out"
Moves(t, where) == work' = [work EXCEPT ![t].at = where]

\* What a file holds once t has written it; one that somebody else wrote since it was
\* opened may hold a mixture.
Mixed == 0
Outcomes(file, new) == IF files[file].text = 0 THEN {new} ELSE {new, Mixed}

-----------------------------------------------------------------------------
(* The user and other programs *)

\* An edit, by keys or by an agent's apply_edits event, on the editor's thread.
Edits ==
    /\ EditorFree /\ ~prompt /\ texts < MaxText /\ texts' = texts + 1
    /\ text' = texts' /\ modified' = TRUE
    /\ UNCHANGED begun /\ UNCHANGED work /\ UNCHANGED flags /\ UNCHANGED window /\ UNCHANGED storage

\* Another program, or an agent's tool, writes the file.
Foreign ==
    /\ name # 0 /\ texts < MaxText /\ texts' = texts + 1
    /\ files' = [files EXCEPT ![name] = [text |-> texts', time |-> clock + 1]]
    /\ clock' = clock + 1 /\ kept' = kept \union {texts'}
    /\ UNCHANGED <<name, backup, text, modified, begun, work>> /\ UNCHANGED flags /\ UNCHANGED window

Switches ==
    /\ EditorFree /\ ~prompt /\ active' = ~active
    /\ UNCHANGED prompt /\ UNCHANGED <<text, modified, work>> /\ UNCHANGED flags /\ UNCHANGED storage /\ UNCHANGED counters

-----------------------------------------------------------------------------
(* save and save_to_file *)

\* A save event, or a tool call's save_all_documents: a document that is not modified is
\* not saved.
Saves(t) ==
    /\ work[t].at = "out" /\ modified /\ begun < MaxSaves /\ begun' = begun + 1
    /\ t = "editor" => ~prompt
    /\ Moves(t, "snapshot")
    /\ UNCHANGED <<texts, text, modified>> /\ UNCHANGED flags /\ UNCHANGED window /\ UNCHANGED storage

Snapshots(t) ==
    /\ work[t].at = "snapshot"
    /\ work' = [work EXCEPT ![t].at = "backup", ![t].text = text]
    /\ UNCHANGED <<text, modified>> /\ UNCHANGED flags /\ UNCHANGED window /\ UNCHANGED storage /\ UNCHANGED counters

BacksUp(t) ==
    /\ work[t].at = "backup" /\ Moves(t, "create")
    /\ IF name = 0 THEN UNCHANGED backup ELSE backup' = name
    /\ name' = 0
    /\ UNCHANGED <<files, clock, kept, text, modified>> /\ UNCHANGED flags /\ UNCHANGED window /\ UNCHANGED counters

\* The open for writing, which empties a file that another thread made meanwhile, or fails.
Creates(t, ok) ==
    /\ work[t].at = "create"
    /\ LET file == IF name # 0 THEN name ELSE Len(files) + 1 IN
       IF ok
       THEN /\ files' = IF name # 0 THEN [files EXCEPT ![name] = [text |-> 0, time |-> clock + 1]]
                        ELSE Append(files, [text |-> 0, time |-> clock + 1])
            /\ name' = file /\ clock' = clock + 1
            /\ work' = [work EXCEPT ![t].at = "write", ![t].file = file]
       ELSE UNCHANGED <<files, name, clock>> /\ work' = [work EXCEPT ![t] = AtRest]
    /\ UNCHANGED <<backup, kept, text, modified>> /\ UNCHANGED flags /\ UNCHANGED window /\ UNCHANGED counters

Stores(t) ==
    /\ work[t].at = "write" /\ Moves(t, "finish")
    /\ \E new \in Outcomes(work[t].file, work[t].text) :
         /\ files' = [files EXCEPT ![work[t].file] = [text |-> new, time |-> clock + 1]]
         /\ kept' = kept \union {work[t].text, new}
    /\ clock' = clock + 1
    /\ UNCHANGED <<name, backup, text, modified>> /\ UNCHANGED flags /\ UNCHANGED window /\ UNCHANGED counters

\* The lock again: the file's time, and the document counts as saved.
Finishes(t) ==
    /\ work[t].at = "finish" /\ work' = [work EXCEPT ![t] = AtRest]
    /\ seen' = MTime /\ modified' = FALSE
    /\ UNCHANGED <<ignoring, text>> /\ UNCHANGED window /\ UNCHANGED storage /\ UNCHANGED counters

-----------------------------------------------------------------------------
(* check_files_changed and load_from_file *)

Changed == ~ignoring /\ name # 0 /\ seen # 0 /\ MTime # seen

\* Mutant: a document in the background is reloaded, modified or not.
ReloadsAny == ~active

\* It is reloaded without asking.
Reloadable == ~active /\ ~modified

Checks(t) ==
    /\ work[t].at = "out" /\ ~prompt /\ Changed /\ begun < MaxSaves /\ begun' = begun + 1
    /\ IF Reloadable THEN Moves(t, "reload") /\ UNCHANGED prompt
       ELSE active /\ prompt' = TRUE /\ UNCHANGED work
    /\ UNCHANGED <<texts, active, text, modified>> /\ UNCHANGED flags /\ UNCHANGED storage

\* A load that fails to open the file changes nothing.
Loads ==
    IF name = 0 THEN UNCHANGED <<text, modified, seen, ignoring>>
    ELSE text' = files[name].text /\ modified' = FALSE /\ seen' = MTime /\ ignoring' = FALSE

Reloads(t) ==
    /\ work[t].at = "reload" /\ work' = [work EXCEPT ![t] = AtRest]
    /\ Loads
    /\ UNCHANGED window /\ UNCHANGED storage /\ UNCHANGED counters

\* The prompt is answered: yes, no, never, or escape, which takes the file's time as seen.
Answers ==
    /\ prompt /\ EditorFree /\ prompt' = FALSE
    /\ \/ Loads
       \/ UNCHANGED <<text, modified, seen, ignoring>>
       \/ ignoring' = TRUE /\ UNCHANGED <<text, modified, seen>>
       \/ seen' = MTime /\ UNCHANGED <<text, modified, ignoring>>
    /\ UNCHANGED <<active, work>> /\ UNCHANGED storage /\ UNCHANGED counters

\* The user reverts to the file.
Reverts ==
    /\ EditorFree /\ ~prompt /\ active /\ modified /\ Loads
    /\ UNCHANGED work /\ UNCHANGED window /\ UNCHANGED storage /\ UNCHANGED counters

-----------------------------------------------------------------------------
FileInit ==
    /\ text = 1 /\ modified = FALSE /\ seen = 1 /\ ignoring = FALSE /\ active = TRUE /\ prompt = FALSE
    /\ files = <<[text |-> 1, time |-> 1]>> /\ name = 1 /\ backup = 0 /\ clock = 1 /\ texts = 1 /\ begun = 0
    /\ work = [t \in Workers |-> AtRest] /\ kept = {1}

FileNext ==
    \/ Edits \/ Foreign \/ Switches \/ Answers \/ Reverts
    \/ \E t \in Workers : \/ Saves(t) \/ Snapshots(t) \/ BacksUp(t) \/ Stores(t) \/ Finishes(t) \/ Checks(t) \/ Reloads(t)
                          \/ \E ok \in BOOLEAN : Creates(t, ok)

FileSpec == FileInit /\ [][FileNext]_fileVars

-----------------------------------------------------------------------------
\* ReloadKeepsEdits: a document that is reloaded without asking had nothing that was not
\* in a file ("reloads clean open documents", document_provider.h:86).
ReloadKeepsEdits == [][\A t \in Workers : Reloads(t) /\ name # 0 => text \in kept]_fileVars
=============================================================================
