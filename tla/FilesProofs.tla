---------------------------- MODULE FilesProofs -----------------------------
(* What is read from files and written to them: documents, the cache of lines,
   and binary documents. *)
EXTENDS DocumentFile, FileCache, HexEdit, DataLemmas

-----------------------------------------------------------------------------
(* With the editor's thread alone, whatever it edits, saves and reloads and whatever
   other programs write, no edit is lost to a reload.  With a second thread that is false. *)

Places == {"out", "snapshot", "backup", "create", "write", "finish", "reload"}
WorkRec == [at : Places, text : Nat, file : Nat]

\* What the editor's thread is at.
mine == work["editor"]

FileTyped ==
    /\ work \in [Workers -> WorkRec]
    /\ files \in Seq([text : Nat, time : Nat])
    /\ name \in Nat /\ clock \in Nat /\ texts \in Nat /\ text \in Nat /\ modified \in BOOLEAN

\* A document that counts as saved is in a file, and is not edited while it is saved or
\* about to be reloaded.
Saved ==
    /\ ~modified => text \in kept
    /\ mine.at = "reload" => ~modified
    /\ mine.at \in {"backup", "create", "write", "finish"} => text = mine.text
    /\ mine.at = "finish" => mine.text \in kept

\* The file of the document's name is a file, and holds a text unless it was just emptied.
Named ==
    /\ name # 0 => name \in 1..Len(files)
    /\ mine.at = "create" => name = 0
    /\ mine.at = "write" => name # 0 /\ mine.file = name
    /\ name # 0 /\ mine.at # "write" => files[name].text \in kept

FileInv == FileTyped /\ Saved /\ Named

\* A thread at another place, with the text it writes or the file it writes to.
LEMMA Moved ==
  ASSUME NEW r \in WorkRec, NEW x
  PROVE  [r EXCEPT !.at = x] = [at |-> x, text |-> r.text, file |-> r.file]
  BY DEF WorkRec

LEMMA TakesText ==
  ASSUME NEW r \in WorkRec, NEW x, NEW y
  PROVE  [r EXCEPT !.at = x, !.text = y] = [at |-> x, text |-> y, file |-> r.file]
<1> DEFINE s == [r EXCEPT !.at = x]
<1>1. r = [at |-> r.at, text |-> r.text, file |-> r.file]
  BY DEF WorkRec
<1>2. s = [at |-> x, text |-> r.text, file |-> r.file]
  BY <1>1
<1>3. [r EXCEPT !.at = x, !.text = y] = [s EXCEPT !.text = y]
  OBVIOUS
<1>4. [s EXCEPT !.text = y] = [at |-> x, text |-> y, file |-> r.file]
  <2> HIDE DEF s
  <2> QED
    BY <1>2
<1> QED
  BY <1>3, <1>4, Zenon

LEMMA TakesFile ==
  ASSUME NEW r \in WorkRec, NEW x, NEW y
  PROVE  [r EXCEPT !.at = x, !.file = y] = [at |-> x, text |-> r.text, file |-> y]
<1> DEFINE s == [r EXCEPT !.at = x]
<1>1. r = [at |-> r.at, text |-> r.text, file |-> r.file]
  BY DEF WorkRec
<1>2. s = [at |-> x, text |-> r.text, file |-> r.file]
  BY <1>1
<1>3. [r EXCEPT !.at = x, !.file = y] = [s EXCEPT !.file = y]
  OBVIOUS
<1>4. [s EXCEPT !.file = y] = [at |-> x, text |-> r.text, file |-> y]
  <2> HIDE DEF s
  <2> QED
    BY <1>2
<1> QED
  BY <1>3, <1>4, Zenon

-----------------------------------------------------------------------------
LEMMA InitFile == FileInit => FileInv
<1> SUFFICES ASSUME FileInit PROVE FileInv
  OBVIOUS
<1>1. mine = AtRest /\ work \in [Workers -> WorkRec]
  BY DEF FileInit, mine, Workers, AtRest, WorkRec, Places
<1>2. files = <<[text |-> 1, time |-> 1]>> /\ name = 1 /\ text = 1 /\ kept = {1}
  BY DEF FileInit
<1>3. FileTyped
  <2>1. files \in Seq([text : Nat, time : Nat])
    BY <1>2
  <2>2. clock = 1 /\ texts = 1
    BY DEF FileInit
  <2>3. modified \in BOOLEAN
    BY DEF FileInit
  <2> QED
    BY <1>1, <1>2, <2>1, <2>2, <2>3 DEF FileTyped
<1>4. Saved /\ Named
  BY <1>1, <1>2 DEF Saved, Named, AtRest
<1> QED
  BY <1>3, <1>4 DEF FileInv

\* What the steps do to the work of the editor's thread.
LEMMA EditorMoves ==
  ASSUME FileTyped, NEW where \in Places
  PROVE  /\ Moves("editor", where) => mine' = [at |-> where, text |-> mine.text, file |-> mine.file]
         /\ Moves("editor", where) => work' \in [Workers -> WorkRec]
<1>1. mine \in WorkRec /\ "editor" \in Workers
  BY DEF FileTyped, mine, Workers
<1>2. [mine EXCEPT !.at = where] = [at |-> where, text |-> mine.text, file |-> mine.file]
  BY <1>1, Moved
<1> SUFFICES ASSUME Moves("editor", where)
             PROVE  /\ mine' = [at |-> where, text |-> mine.text, file |-> mine.file]
                    /\ work' \in [Workers -> WorkRec]
  OBVIOUS
<1>3. work' = [work EXCEPT !["editor"] = [mine EXCEPT !.at = where]]
  BY DEF Moves, mine
<1>4. [at |-> where, text |-> mine.text, file |-> mine.file] \in WorkRec
  BY <1>1 DEF WorkRec
<1> QED
  BY <1>1, <1>2, <1>3, <1>4 DEF FileTyped, mine

LEMMA EditorRests ==
  ASSUME FileTyped, work' = [work EXCEPT !["editor"] = AtRest]
  PROVE  mine' = AtRest /\ work' \in [Workers -> WorkRec]
  BY DEF FileTyped, mine, Workers, AtRest, WorkRec, Places

\* A load when nothing is being saved.
LEMMA LoadsFile ==
  ASSUME FileInv, Loads, UNCHANGED <<files, name, clock, texts, kept>>, work' \in [Workers -> WorkRec],
         mine.at \in {"out", "reload"}, mine'.at = "out"
  PROVE  FileInv'
<1>1. /\ name # 0 => name \in DOMAIN files /\ files[name].text \in kept \cap Nat
      /\ name = 0 => UNCHANGED <<text, modified>>
      /\ name # 0 => text' = files[name].text /\ modified' = FALSE
  <2>1. name # 0 => name \in DOMAIN files /\ files[name].text \in kept
    <3>1. files \in Seq([text : Nat, time : Nat])
      BY DEF FileInv, FileTyped
    <3>2. DOMAIN files = 1..Len(files)
      BY <3>1
    <3>3. name # 0 => name \in 1..Len(files) /\ files[name].text \in kept
      BY DEF FileInv, Named
    <3> QED
      BY <3>2, <3>3
  <2>2. name # 0 => files[name].text \in Nat
    <3>1. files \in Seq([text : Nat, time : Nat])
      BY DEF FileInv, FileTyped
    <3>2. name # 0 => files[name] \in [text : Nat, time : Nat]
      <4>1. name # 0 => name \in 1..Len(files)
        BY DEF FileInv, Named
      <4> QED
        BY <3>1, <4>1, ElementOfSeq
    <3> QED
      BY <3>2
  <2>3. /\ name = 0 => UNCHANGED <<text, modified>>
        /\ name # 0 => text' = files[name].text /\ modified' = FALSE
    BY DEF Loads
  <2> QED
    BY <2>1, <2>2, <2>3
<1>2. FileTyped'
  BY <1>1 DEF FileInv, FileTyped
<1>3. Saved' /\ Named'
  BY <1>1 DEF FileInv, Saved, Named
<1> QED
  BY <1>2, <1>3 DEF FileInv

-----------------------------------------------------------------------------
\* Steps of the user and of other programs.
LEMMA UsersStep ==
  ASSUME FileInv, Edits \/ Foreign \/ Switches \/ Answers \/ Reverts PROVE FileInv'
<1>1. CASE Edits
  BY <1>1 DEF FileInv, FileTyped, Saved, Named, Edits, EditorFree, mine, storage
<1>2. CASE Foreign
  <2>1. /\ name # 0 /\ UNCHANGED <<name, text, modified, work>> /\ texts' = texts + 1 /\ clock' = clock + 1
        /\ kept' = kept \union {texts'}
        /\ files' = [files EXCEPT ![name] = [text |-> texts', time |-> clock + 1]]
    BY <1>2 DEF Foreign
  <2>2. /\ files' \in Seq([text : Nat, time : Nat]) /\ Len(files') = Len(files)
        /\ files'[name] = [text |-> texts', time |-> clock + 1]
    BY <2>1 DEF FileInv, FileTyped, Named
  <2>3. FileTyped'
    BY <2>1, <2>2 DEF FileInv, FileTyped
  <2>4. Saved'
    BY <2>1 DEF FileInv, Saved, mine
  <2>5. Named'
    BY <2>1, <2>2 DEF FileInv, Named, mine
  <2> QED
    BY <2>3, <2>4, <2>5 DEF FileInv
<1>3. CASE Switches
  BY <1>3 DEF FileInv, FileTyped, Saved, Named, Switches, mine, storage, counters
<1>4. CASE Answers \/ Reverts
  <2>1. /\ mine.at = "out" /\ UNCHANGED work /\ UNCHANGED <<files, name, clock, texts, kept>>
        /\ Loads \/ UNCHANGED <<text, modified>>
    BY <1>4 DEF Answers, Reverts, EditorFree, mine, storage, counters
  <2>2. CASE Loads
    BY <2>1, <2>2, LoadsFile DEF FileInv, FileTyped, mine
  <2>3. CASE UNCHANGED <<text, modified>>
    BY <2>1, <2>3 DEF FileInv, FileTyped, Saved, Named, mine
  <2> QED
    BY <2>1, <2>2, <2>3
<1> QED
  BY <1>1, <1>2, <1>3, <1>4

\* Steps of a save.
LEMMA SavesStep ==
  ASSUME FileInv, Saves("editor") \/ Snapshots("editor") \/ BacksUp("editor") \/ Finishes("editor")
  PROVE  FileInv'
<1>1. CASE Saves("editor")
  <2>1. mine' = [at |-> "snapshot", text |-> mine.text, file |-> mine.file] /\ work' \in [Workers -> WorkRec]
    BY <1>1, EditorMoves DEF Saves, FileInv, Places
  <2>2. mine.at = "out"
    BY <1>1 DEF Saves, mine
  <2> QED
    BY <1>1, <2>1, <2>2 DEF FileInv, FileTyped, Saved, Named, Saves, storage
<1>2. CASE Snapshots("editor")
  <2>1. mine \in WorkRec /\ "editor" \in Workers /\ mine.at = "snapshot"
    BY <1>2 DEF FileInv, FileTyped, mine, Workers, Snapshots
  <2> DEFINE x == "backup"
  <2>2. [mine EXCEPT !.at = x, !.text = text] = [at |-> x, text |-> text, file |-> mine.file]
    <3> HIDE DEF x
    <3> QED
      BY <2>1, TakesText
  <2>3. work' = [work EXCEPT !["editor"] = [mine EXCEPT !.at = x, !.text = text]]
    BY <1>2 DEF Snapshots, mine
  <2>4. [at |-> x, text |-> text, file |-> mine.file] \in WorkRec
    BY <2>1 DEF FileInv, FileTyped, WorkRec, Places
  <2>5. mine' = [at |-> x, text |-> text, file |-> mine.file] /\ work' \in [Workers -> WorkRec]
    BY <2>1, <2>2, <2>3, <2>4 DEF FileInv, FileTyped, mine
  <2> QED
    BY <1>2, <2>1, <2>5 DEF FileInv, FileTyped, Saved, Named, Snapshots, storage, counters
<1>3. CASE BacksUp("editor")
  <2>1. mine' = [at |-> "create", text |-> mine.text, file |-> mine.file] /\ work' \in [Workers -> WorkRec]
    BY <1>3, EditorMoves DEF BacksUp, FileInv, Places
  <2>2. mine.at = "backup"
    BY <1>3 DEF BacksUp, mine
  <2> QED
    BY <1>3, <2>1, <2>2 DEF FileInv, FileTyped, Saved, Named, BacksUp, counters
<1>4. CASE Finishes("editor")
  <2>1. mine' = AtRest /\ work' \in [Workers -> WorkRec] /\ mine.at = "finish"
    BY <1>4, EditorRests DEF Finishes, FileInv, mine
  <2> QED
    BY <1>4, <2>1 DEF FileInv, FileTyped, Saved, Named, Finishes, AtRest, storage, counters
<1> QED
  BY <1>1, <1>2, <1>3, <1>4

\* The new file: the name was free since the backup.
LEMMA CreatesStep ==
  ASSUME FileInv, NEW ok \in BOOLEAN, Creates("editor", ok) PROVE FileInv'
<1>1. mine.at = "create" /\ name = 0 /\ files \in Seq([text : Nat, time : Nat]) /\ clock \in Nat
  BY DEF FileInv, FileTyped, Named, Creates, mine
<1>2. UNCHANGED <<kept, text, modified, texts>>
  BY DEF Creates, counters
<1>3. CASE ~ok
  <2>1. UNCHANGED <<files, name, clock>> /\ work' = [work EXCEPT !["editor"] = AtRest]
    BY <1>3 DEF Creates
  <2>2. mine' = AtRest /\ work' \in [Workers -> WorkRec]
    BY <2>1, EditorRests DEF FileInv
  <2> QED
    BY <1>1, <1>2, <2>1, <2>2 DEF FileInv, FileTyped, Saved, Named, AtRest
<1>4. CASE ok
  <2> DEFINE new == Len(files) + 1
             x == "write"
  <2>1. /\ files' = Append(files, [text |-> 0, time |-> clock + 1]) /\ name' = new /\ clock' = clock + 1
        /\ work' = [work EXCEPT !["editor"] = [mine EXCEPT !.at = x, !.file = new]]
    BY <1>1, <1>4 DEF Creates, mine
  <2>2. /\ new \in Nat \ {0} /\ files' \in Seq([text : Nat, time : Nat]) /\ Len(files') = new
        /\ mine \in WorkRec /\ "editor" \in Workers
    BY <1>1, <2>1 DEF FileInv, FileTyped, mine, Workers
  <2>3. [mine EXCEPT !.at = x, !.file = new] = [at |-> x, text |-> mine.text, file |-> new]
    <3> HIDE DEF x, new
    <3> QED
      BY <2>2, TakesFile
  <2>4. [at |-> x, text |-> mine.text, file |-> new] \in WorkRec
    BY <2>2 DEF WorkRec, Places
  <2>5. mine' = [at |-> x, text |-> mine.text, file |-> new] /\ work' \in [Workers -> WorkRec]
    BY <2>1, <2>2, <2>3, <2>4 DEF FileInv, FileTyped, mine
  <2>6. FileTyped'
    BY <1>1, <1>2, <2>1, <2>2, <2>5 DEF FileInv, FileTyped
  <2>7. Saved'
    BY <1>1, <1>2, <2>5 DEF FileInv, Saved
  <2>8. Named'
    BY <2>1, <2>2, <2>5 DEF Named
  <2> QED
    BY <2>6, <2>7, <2>8 DEF FileInv
<1> QED
  BY <1>3, <1>4

\* The file is whole again, with the text or a mixture.
LEMMA StoresStep ==
  ASSUME FileInv, Stores("editor") PROVE FileInv'
<1>1. /\ mine.at = "write" /\ name # 0 /\ mine.file = name /\ name \in 1..Len(files)
      /\ files \in Seq([text : Nat, time : Nat]) /\ clock \in Nat /\ mine \in WorkRec
  BY DEF FileInv, FileTyped, Named, Stores, mine, Workers
<1>2. UNCHANGED <<name, text, modified, texts>> /\ clock' = clock + 1
  BY DEF Stores, counters
<1>3. PICK new \in Outcomes(mine.file, mine.text) :
        /\ files' = [files EXCEPT ![mine.file] = [text |-> new, time |-> clock + 1]]
        /\ kept' = kept \union {mine.text, new}
  BY DEF Stores, mine
<1>4. new \in Nat
  BY <1>1 DEF Outcomes, Mixed, WorkRec
<1>5. mine' = [at |-> "finish", text |-> mine.text, file |-> mine.file] /\ work' \in [Workers -> WorkRec]
  BY EditorMoves DEF Stores, FileInv, Places
<1>6. /\ files' \in Seq([text : Nat, time : Nat]) /\ Len(files') = Len(files)
      /\ files'[name] = [text |-> new, time |-> clock + 1]
  BY <1>1, <1>3, <1>4
<1>7. FileTyped'
  BY <1>1, <1>2, <1>5, <1>6 DEF FileInv, FileTyped
<1>8. Saved'
  BY <1>1, <1>2, <1>3, <1>5 DEF FileInv, Saved
<1>9. Named'
  BY <1>1, <1>2, <1>3, <1>5, <1>6 DEF Named
<1> QED
  BY <1>7, <1>8, <1>9 DEF FileInv

\* A check and a reload.
LEMMA ReloadsStep ==
  ASSUME FileInv, Checks("editor") \/ Reloads("editor") PROVE FileInv'
<1>1. CASE Checks("editor") /\ Reloadable
  <2>1. mine' = [at |-> "reload", text |-> mine.text, file |-> mine.file] /\ work' \in [Workers -> WorkRec]
    BY <1>1, EditorMoves DEF Checks, FileInv, Places
  <2>2. ~modified /\ mine.at = "out"
    BY <1>1 DEF Checks, Reloadable, mine
  <2> QED
    BY <1>1, <2>1, <2>2 DEF FileInv, FileTyped, Saved, Named, Checks, storage
<1>2. CASE Checks("editor") /\ ~Reloadable
  BY <1>2 DEF FileInv, FileTyped, Saved, Named, Checks, mine, storage
<1>3. CASE Reloads("editor")
  <2>1. /\ mine' = AtRest /\ work' \in [Workers -> WorkRec] /\ mine.at = "reload"
        /\ Loads /\ UNCHANGED <<files, name, clock, texts, kept>>
    BY <1>3, EditorRests DEF Reloads, FileInv, mine, storage, counters
  <2> QED
    BY <2>1, LoadsFile DEF AtRest
<1> QED
  BY <1>1, <1>2, <1>3

LEMMA FileStep ==
  ASSUME Toolers = {}, FileInv, [FileNext]_fileVars PROVE FileInv'
<1>1. CASE UNCHANGED fileVars
  BY <1>1 DEF FileInv, FileTyped, Saved, Named, fileVars, mine
<1>2. CASE FileNext
  <2>1. \A t \in Workers : t = "editor"
    BY DEF Workers
  <2> QED
    BY <1>2, <2>1, UsersStep, SavesStep, CreatesStep, StoresStep, ReloadsStep DEF FileNext
<1> QED
  BY <1>1, <1>2

\* Whatever the bounds: while only the editor's thread saves and reloads, a reload that
\* asks nobody discards nothing that is not in a file.
THEOREM AloneKeepsEdits == ASSUME Toolers = {} PROVE FileSpec => ReloadKeepsEdits
<1>1. FileInv /\ [FileNext]_fileVars => FileInv'
  BY FileStep
<1>2. FileInv => [\A t \in Workers : Reloads(t) /\ name # 0 => text \in kept]_fileVars
  BY DEF FileInv, Saved, Reloads, Workers, mine
<1> QED
  BY <1>1, <1>2, InitFile, PTL DEF FileSpec, ReloadKeepsEdits

(* The read-ahead queue and what get_cached returns, for any files, readers and limits. *)

-----------------------------------------------------------------------------
(* The queue of the readahead thread.                                        *)

Queues(n) == {t \in [path : Paths \union {NoPath}, q : Seq(Paths), s : SUBSET Paths] :
                 t.s \subseteq Range(t.q) /\ Len(t.q) <= n}

\* Taking element k off a queue, and its path off the marked ones, loses no other.
LEMMA OneOff ==
  ASSUME NEW q \in Seq(Paths), NEW s \in SUBSET Range(q), NEW k \in 1..Len(q)
  PROVE  /\ RemoveAt(q, k) \in Seq(Paths) /\ Len(RemoveAt(q, k)) = Len(q) - 1
         /\ q[k] \in Paths /\ s \ {q[k]} \subseteq Range(RemoveAt(q, k))
<1>1. /\ RemoveAt(q, k) \in Seq(Paths) /\ Len(RemoveAt(q, k)) = Len(q) - 1
      /\ \A j \in 1..Len(q) - 1 : RemoveAt(q, k)[j] = IF j < k THEN q[j] ELSE q[j + 1]
  BY TakenOut
<1>2. Len(q) \in Nat /\ DOMAIN q = 1..Len(q) /\ q[k] \in Paths
  OBVIOUS
<1> DEFINE r == RemoveAt(q, k)
<1>3. DOMAIN r = 1..Len(q) - 1
  BY <1>1, <1>2
<1> HIDE DEF r
<1>4. ASSUME NEW x \in s \ {q[k]} PROVE x \in Range(r)
  <2>1. PICK i \in DOMAIN q : q[i] = x
    BY <1>4 DEF Range
  <2>2. i # k /\ i \in 1..Len(q)
    BY <1>2, <1>4, <2>1
  <2>3. CASE i < k
    <3>1. i \in DOMAIN r /\ r[i] = x
      BY <1>1, <1>2, <1>3, <2>1, <2>2, <2>3 DEF r
    <3> QED
      BY <3>1 DEF Range
  <2>4. CASE i > k
    <3>1. i - 1 \in 1..Len(q) - 1 /\ ~(i - 1 < k) /\ (i - 1) + 1 = i
      BY <1>2, <2>2, <2>4
    <3>2. i - 1 \in DOMAIN r /\ r[i - 1] = x
      BY <1>1, <1>3, <2>1, <3>1 DEF r
    <3> QED
      BY <3>2 DEF Range
  <2> QED
    BY <1>2, <2>2, <2>3, <2>4
<1> QED
  BY <1>1, <1>2, <1>4 DEF r

LEMMA TriedKeeps ==
  ASSUME NEW n \in Nat, NEW t \in Queues(n), t.q # <<>>
  PROVE  Tried(t) \in Queues(n)
<1> DEFINE k == IF Dud(Head(t.q), t.s) THEN 1 ELSE Len(t.q) \div 2 + 1
<1>1. /\ t.q \in Seq(Paths) /\ t.s \in SUBSET Range(t.q) /\ t.s \subseteq Paths /\ Len(t.q) <= n
      /\ Len(t.q) \in Nat /\ Len(t.q) > 0
  BY DEF Queues
<1>2. k \in 1..Len(t.q)
  <2> DEFINE l == Len(t.q)
  <2>1. l \in Nat /\ l > 0
    BY <1>1
  <2> HIDE DEF l
  <2>2. l \div 2 + 1 \in 1..l /\ 1 \in 1..l
    BY <2>1
  <2> QED
    BY <2>2 DEF l
<1> HIDE DEF k
<1>3. /\ RemoveAt(t.q, k) \in Seq(Paths) /\ Len(RemoveAt(t.q, k)) = Len(t.q) - 1
      /\ t.q[k] \in Paths /\ t.s \ {t.q[k]} \subseteq Range(RemoveAt(t.q, k))
  BY <1>1, <1>2, OneOff
<1>4. Tried(t) = [path |-> IF Dud(t.q[k], t.s) THEN NoPath ELSE t.q[k],
                  q |-> RemoveAt(t.q, k), s |-> t.s \ {t.q[k]}]
  BY DEF Tried, k
<1> QED
  BY <1>1, <1>3, <1>4 DEF Queues

\* A turn of the readahead thread leaves every marked path in the queue, and takes
\* a path or none.
LEMMA PickedKeeps ==
  ASSUME NEW n \in Nat, [path |-> NoPath, q |-> ahead, s |-> queued] \in Queues(n)
  PROVE  Picked \in Queues(n)
<1> DEFINE t0 == [path |-> NoPath, q |-> ahead, s |-> queued]
           Turn(t) == IF t.path # NoPath \/ t.q = <<>> THEN t ELSE Tried(t)
           m == Len(ahead)
           Turns(g) == g = [k \in 0..m |-> IF k = 0 THEN t0 ELSE LET t == g[k - 1] IN Turn(t)]
           F == [k \in 1..m |-> [t \in Queues(n) |-> Turn(t)]]
<1>1. m \in Nat
  BY DEF Queues
<1>2. \A t \in Queues(n) : Turn(t) \in Queues(n)
  BY TriedKeeps
<1> HIDE DEF Turn, m
<1>3. F \in [1..m -> [Queues(n) -> Queues(n)]]
  BY <1>2
<1> HIDE DEF F
<1>4. PICK f : Along(f, Queues(n), m, t0, F)
  BY <1>1, <1>3, Recursion
<1>5. \A k \in 1..m : f[k] = Turn(f[k - 1])
  <2>1. \A k \in 1..m : k - 1 \in 0..m
    BY <1>1
  <2> QED
    BY <1>4, <2>1 DEF Along, F
<1>6. Turns(f)
  BY <1>1, <1>4, <1>5 DEF Along
<1> DEFINE c == CHOOSE g : Turns(g)
<1>7. Turns(c)
  BY <1>6
<1>8. Picked = c[m]
  BY DEF Picked, Turn, m
<1> HIDE DEF c
<1>9. c[0] \in Queues(n) /\ \A k \in 1..m : c[k - 1] \in Queues(n) => c[k] \in Queues(n)
  BY <1>1, <1>2, <1>7
<1>10. c[m] \in Queues(n)
  BY <1>1, <1>9, StaysIn
<1> QED
  BY <1>8, <1>10

QueueInv ==
    /\ ahead \in Seq(Paths) /\ queued \subseteq Paths
    /\ PrefetchNotLost

LEMMA PushedFront ==
  ASSUME QueueInv, NEW p \in Paths, PushFront(p)
  PROVE  QueueInv'
<1> DEFINE full == Len(ahead) >= Window /\ ahead # <<>>
           rest == IF full THEN Front(ahead) ELSE ahead
<1>1. /\ ahead \in Seq(Paths) /\ Len(ahead) \in Nat /\ Window \in Nat \ {0}
      /\ queued \subseteq Range(ahead) /\ Len(ahead) <= Window
  BY WindowAssumption DEF QueueInv, PrefetchNotLost
<1>2. /\ rest \in Seq(Paths) /\ Len(rest) + 1 <= Window
      /\ (IF full THEN queued \ {Last(ahead)} ELSE queued) \subseteq Range(rest)
  <2>1. CASE full
    <3>1. Len(ahead) \in 1..Len(ahead) /\ Len(ahead) - 1 \in Nat
      BY <1>1, <2>1
    <3>2. rest \in Seq(Paths) /\ Len(rest) = Len(ahead) - 1 /\ \A i \in 1..Len(ahead) - 1 : rest[i] = ahead[i]
      <4>1. rest = SubSeq(ahead, 1, Len(ahead) - 1)
        BY <2>1 DEF Front
      <4>2. 1 \in 1..Len(ahead) + 1 /\ Len(ahead) - 1 \in 1 - 1..Len(ahead)
        BY <1>1, <3>1
      <4> QED
        BY <1>1, <3>1, <4>1, <4>2, SubSeqProperties
    <3> HIDE DEF rest
    <3>3. DOMAIN rest = 1..Len(ahead) - 1 /\ DOMAIN ahead = 1..Len(ahead)
      BY <1>1, <3>2
    <3>4. ASSUME NEW x \in queued \ {Last(ahead)} PROVE x \in Range(rest)
      <4>1. PICK i \in DOMAIN ahead : ahead[i] = x
        BY <1>1, <3>4 DEF Range
      <4>2. i # Len(ahead)
        BY <3>4, <4>1 DEF Last
      <4>3. i \in DOMAIN rest /\ rest[i] = x
        BY <1>1, <3>2, <3>3, <4>1, <4>2
      <4> QED
        BY <4>3 DEF Range
    <3> QED
      BY <1>1, <2>1, <3>2, <3>4
  <2>2. CASE ~full
    BY <1>1, <2>2
  <2> QED
    BY <2>1, <2>2
<1>3. ahead' = <<p>> \o rest /\ queued' = (IF full THEN queued \ {Last(ahead)} ELSE queued) \union {p}
  BY DEF PushFront
<1> HIDE DEF rest
<1>4. /\ ahead' \in Seq(Paths) /\ Len(ahead') = 1 + Len(rest)
      /\ ahead'[1] = p /\ \A i \in 1..Len(rest) : ahead'[1 + i] = rest[i]
  BY <1>2, <1>3, Concatenated
<1>5. DOMAIN ahead' = 1..1 + Len(rest) /\ Len(rest) \in Nat /\ DOMAIN rest = 1..Len(rest)
  BY <1>2, <1>4
<1>6. Range(rest) \union {p} \subseteq Range(ahead')
  <2>1. ASSUME NEW x \in Range(rest) PROVE x \in Range(ahead')
    <3>1. PICK i \in DOMAIN rest : rest[i] = x
      BY <2>1 DEF Range
    <3>2. 1 + i \in DOMAIN ahead' /\ ahead'[1 + i] = x
      BY <1>4, <1>5, <3>1
    <3> QED
      BY <3>2 DEF Range
  <2>2. p \in Range(ahead')
    <3>1. 1 \in DOMAIN ahead'
      BY <1>5
    <3> QED
      BY <1>4, <3>1 DEF Range
  <2> QED
    BY <2>1, <2>2
<1>7. queued' \subseteq Paths
  BY <1>3 DEF QueueInv
<1>8. Len(ahead') <= Window
  BY <1>1, <1>2, <1>4, <1>5
<1> HIDE DEF full
<1> QED
  BY <1>2, <1>3, <1>4, <1>6, <1>7, <1>8 DEF QueueInv, PrefetchNotLost

LEMMA QueueStep == QueueInv /\ [CacheNext]_cacheVars => QueueInv'
<1> SUFFICES ASSUME QueueInv, [CacheNext]_cacheVars PROVE QueueInv'
  OBVIOUS
<1>1. ASSUME UNCHANGED ahead, queued' \subseteq queued PROVE QueueInv'
  BY <1>1 DEF QueueInv, PrefetchNotLost
<1>2. ASSUME NEW p \in Paths, FileWritten(p) \/ FileDeleted(p) PROVE QueueInv'
  BY <1>1, <1>2 DEF FileWritten, FileDeleted
<1>3. ASSUME NEW p \in Paths, NotifyChanged(p) PROVE QueueInv'
  BY <1>1, <1>3, PushedFront DEF NotifyChanged
<1>4. ASSUME NEW p \in Paths, Prefetch(p) PROVE QueueInv'
  <2>1. ahead' = Append(ahead, p) /\ queued' = queued \union {p} /\ Len(ahead) < Window
    BY <1>4 DEF Prefetch
  <2>2. ahead \in Seq(Paths) /\ Len(ahead) \in Nat /\ Window \in Nat
    BY WindowAssumption DEF QueueInv
  <2>3. /\ ahead' \in Seq(Paths) /\ ToSet(ahead') = ToSet(ahead) \union {p}
        /\ Len(ahead') = Len(ahead) + 1
    BY <2>1, <2>2, Appended
  <2>4. Range(ahead) = ToSet(ahead) /\ Range(ahead)' = ToSet(ahead')
    BY DEF Range, ToSet
  <2> QED
    BY <2>1, <2>2, <2>3, <2>4 DEF QueueInv, PrefetchNotLost
<1>5. ASSUME NEW r \in Readers,
             \/ ReaderFindsNone(r) \/ ReaderTakes(r) \/ ReaderMisses(r) \/ ReaderClaims(r)
             \/ ReaderOpens(r) \/ ReaderKeeps(r) \/ ReaderDone(r) \/ \E p \in Paths : ReaderAsks(r, p)
      PROVE  QueueInv'
  <2>1. UNCHANGED ahead /\ queued' \subseteq queued
    BY <1>5 DEF ReaderFindsNone, ReaderTakes, ReaderMisses, ReaderClaims, ReaderOpens, ReaderKeeps,
                ReaderDone, ReaderAsks
  <2> QED
    BY <1>1, <2>1
<1>6. CASE Picks
  <2>1. Window \in Nat /\ [path |-> NoPath, q |-> ahead, s |-> queued] \in Queues(Window)
    BY WindowAssumption DEF QueueInv, PrefetchNotLost, Queues
  <2>2. Picked \in Queues(Window)
    BY <2>1, PickedKeeps
  <2>3. ahead' = Picked.q /\ queued' = Picked.s
    BY <1>6 DEF Picks
  <2> HIDE DEF Picked
  <2> QED
    BY <2>2, <2>3 DEF Queues, QueueInv, PrefetchNotLost
<1>7. CASE FetcherStats \/ FetcherLooks \/ FetcherOpens \/ FetcherKeeps \/ FetcherExits \/ UNCHANGED cacheVars
  BY <1>1, <1>7 DEF FetcherStats, FetcherLooks, FetcherOpens, FetcherKeeps, FetcherExits, cacheVars
<1>8. CASE Shutdown
  <2>1. ahead' = <<>> /\ queued' = {}
    BY <1>8 DEF Shutdown
  <2>2. Len(<<>>) <= Window
    BY WindowAssumption
  <2> QED
    BY <2>1, <2>2 DEF QueueInv, PrefetchNotLost
<1> QED
  BY <1>2, <1>3, <1>4, <1>5, <1>6, <1>7, <1>8 DEF CacheNext

\* A path marked as queued is in the queue, which stays in its window, for any files
\* and any window: claims, cancels, notifications and the middle-first pick included.
THEOREM PrefetchesStay == CacheSpec => []PrefetchNotLost
<1>1. CacheInit => QueueInv
  <2> SUFFICES ASSUME CacheInit PROVE QueueInv
    OBVIOUS
  <2>1. Len(<<>>) <= Window
    BY WindowAssumption
  <2> QED
    BY <2>1 DEF CacheInit, QueueInv, PrefetchNotLost
<1>2. QueueInv => PrefetchNotLost
  BY DEF QueueInv
<1> QED
  BY <1>1, <1>2, QueueStep, PTL DEF CacheSpec

-----------------------------------------------------------------------------
(* What get_cached returns.                                                  *)

Entries == [path : Paths, meta : Nat, text : Nat, pre : BOOLEAN, used : BOOLEAN]
Kept(c) == {c[i].path : i \in DOMAIN c}

\* No entry is older than the stat it carries, and none has a second one.
Caches ==
    {c \in Seq(Entries) :
        /\ \A i \in DOMAIN c : c[i].meta <= c[i].text
        /\ \A i, j \in DOMAIN c : c[i].path = c[j].path => i = j}

LEMMA OneOut ==
  ASSUME NEW c \in Caches, NEW k \in 1..Len(c)
  PROVE  /\ RemoveAt(c, k) \in Caches /\ Kept(RemoveAt(c, k)) \subseteq Kept(c)
         /\ c[k].path \notin Kept(RemoveAt(c, k))
<1> DEFINE r == RemoveAt(c, k)
<1>1. c \in Seq(Entries) /\ Len(c) \in Nat /\ DOMAIN c = 1..Len(c)
  BY DEF Caches
<1>2. /\ r \in Seq(Entries) /\ Len(r) = Len(c) - 1
      /\ \A j \in 1..Len(c) - 1 : r[j] = IF j < k THEN c[j] ELSE c[j + 1]
  BY <1>1, TakenOut
<1> HIDE DEF r
<1>3. DOMAIN r = 1..Len(c) - 1
  BY <1>1, <1>2
<1> DEFINE was(j) == IF j < k THEN j ELSE j + 1
<1>4. \A j \in DOMAIN r : was(j) \in DOMAIN c /\ was(j) # k /\ r[j] = c[was(j)]
  BY <1>1, <1>2, <1>3
<1>5. \A i, j \in DOMAIN r : was(i) = was(j) => i = j
  BY <1>1, <1>3
<1> HIDE DEF was
<1>6. \A i \in DOMAIN r : r[i].meta <= r[i].text
  BY <1>4 DEF Caches
<1>7. ASSUME NEW i \in DOMAIN r, NEW j \in DOMAIN r, r[i].path = r[j].path PROVE i = j
  <2>1. was(i) = was(j)
    BY <1>4, <1>7 DEF Caches
  <2> QED
    BY <1>5, <2>1
<1>8. Kept(r) \subseteq Kept(c)
  BY <1>4 DEF Kept
<1>9. c[k].path \notin Kept(r)
  <2>1. \A j \in DOMAIN r : r[j].path # c[k].path
    BY <1>1, <1>4 DEF Caches
  <2> QED
    BY <2>1 DEF Kept
<1> QED
  BY <1>2, <1>6, <1>7, <1>8, <1>9 DEF Caches, r

LEMMA Removed ==
  ASSUME NEW c \in Caches, NEW p
  PROVE  Without(c, p) \in Caches /\ Kept(Without(c, p)) \subseteq Kept(c) /\ p \notin Kept(Without(c, p))
<1> DEFINE at == {i \in DOMAIN c : c[i].path = p}
           k == CHOOSE i \in at : TRUE
<1>1. DOMAIN c = 1..Len(c)
  BY DEF Caches
<1>2. CASE at = {}
  <2>1. Without(c, p) = c
    BY <1>2 DEF Without
  <2> QED
    BY <1>2, <2>1 DEF Kept
<1>3. CASE at # {}
  <2>1. k \in at
    BY <1>3
  <2>2. Without(c, p) = RemoveAt(c, k)
    BY <1>3 DEF Without
  <2>3. k \in 1..Len(c) /\ c[k].path = p
    BY <1>1, <2>1
  <2> HIDE DEF k
  <2> QED
    BY <2>2, <2>3, OneOut
<1> QED
  BY <1>2, <1>3

LEMMA VictimThere ==
  ASSUME NEW c \in Caches, c # <<>>
  PROVE  Victim(c) \in 1..Len(c)
<1> DEFINE had == {i \in DOMAIN c : c[i].used \/ ~c[i].pre}
<1>1. DOMAIN c = 1..Len(c) /\ Len(c) \in Nat /\ Len(c) > 0
  BY DEF Caches
<1>2. CASE had = {}
  BY <1>1, <1>2 DEF Victim
<1>3. CASE had # {}
  <2>1. had \in SUBSET Nat
    BY <1>1
  <2>2. \E n \in had : \A m \in had : n <= m
    BY <1>3, <2>1, LeastNumber
  <2>3. Min(had) \in had
    BY <2>2 DEF Min
  <2> QED
    BY <1>1, <1>3, <2>3 DEF Victim
<1> QED
  BY <1>2, <1>3

\* Evicting takes entries out, and only that.
LEMMA Evicted ==
  ASSUME NEW s \in Caches, NEW part
  PROVE  Evict(s, part) \in Caches /\ Kept(Evict(s, part)) \subseteq Kept(s)
<1> DEFINE Fits(t) == Len(t) < MaxEntries /\ BytesOf(t) + part <= MaxBytes
           Less(t) == IF t = <<>> \/ Fits(t) THEN t ELSE RemoveAt(t, Victim(t))
           n == Len(s)
           Rest == {t \in Caches : Kept(t) \subseteq Kept(s)}
           Leaves(g) == g = [k \in 0..n |-> IF k = 0 THEN s ELSE LET t == g[k - 1] IN Less(t)]
           F == [k \in 1..n |-> [t \in Rest |-> Less(t)]]
<1>1. n \in Nat
  BY DEF Caches
<1>2. \A t \in Rest : Less(t) \in Rest
  <2> SUFFICES ASSUME NEW t \in Rest, ~(t = <<>> \/ Fits(t)) PROVE Less(t) \in Rest
    OBVIOUS
  <2>1. Less(t) = RemoveAt(t, Victim(t)) /\ Victim(t) \in 1..Len(t)
    BY VictimThere
  <2> HIDE DEF Less
  <2> QED
    BY <2>1, OneOut
<1>3. s \in Rest
  OBVIOUS
<1> HIDE DEF Less, n, Rest
<1>4. F \in [1..n -> [Rest -> Rest]]
  BY <1>2
<1> HIDE DEF F
<1>5. PICK f : Along(f, Rest, n, s, F)
  BY <1>1, <1>3, <1>4, Recursion
<1>6. \A k \in 1..n : f[k] = Less(f[k - 1])
  <2>1. \A k \in 1..n : k - 1 \in 0..n
    BY <1>1
  <2> QED
    BY <1>5, <2>1 DEF Along, F
<1>7. Leaves(f)
  BY <1>1, <1>5, <1>6 DEF Along
<1> DEFINE c == CHOOSE g : Leaves(g)
<1>8. Leaves(c)
  BY <1>7
<1>9. Evict(s, part) = c[n]
  BY DEF Evict, Less, n
<1> HIDE DEF c
<1>10. c[0] \in Rest /\ \A k \in 1..n : c[k - 1] \in Rest => c[k] \in Rest
  BY <1>1, <1>2, <1>3, <1>8
<1>11. c[n] \in Rest
  BY <1>1, <1>10, StaysIn
<1> QED
  BY <1>9, <1>11 DEF Rest

LEMMA OneIn ==
  ASSUME NEW c \in Caches, NEW e \in Entries, e.meta <= e.text, e.path \notin Kept(c)
  PROVE  Append(c, e) \in Caches
<1> DEFINE r == Append(c, e)
<1>1. c \in Seq(Entries) /\ Len(c) \in Nat /\ DOMAIN c = 1..Len(c)
  BY DEF Caches
<1>2. /\ r \in Seq(Entries) /\ DOMAIN r = 1..Len(c) + 1
      /\ r[Len(c) + 1] = e /\ \A i \in 1..Len(c) : r[i] = c[i]
  BY <1>1, Appended
<1> HIDE DEF r
<1>3. \A i \in 1..Len(c) : r[i].path # e.path
  BY <1>1, <1>2 DEF Kept
<1>4. ASSUME NEW i \in DOMAIN r, NEW j \in DOMAIN r, r[i].path = r[j].path PROVE i = j
  <2>1. CASE i \in 1..Len(c) /\ j \in 1..Len(c)
    BY <1>1, <1>2, <1>4, <2>1 DEF Caches
  <2>2. CASE i = Len(c) + 1 /\ j = Len(c) + 1
    BY <2>2
  <2>3. CASE i \in 1..Len(c) /\ j = Len(c) + 1
    BY <1>2, <1>3, <1>4, <2>3
  <2>4. CASE i = Len(c) + 1 /\ j \in 1..Len(c)
    BY <1>2, <1>3, <1>4, <2>4
  <2> QED
    BY <1>1, <1>2, <2>1, <2>2, <2>3, <2>4
<1>5. ASSUME NEW i \in DOMAIN r PROVE r[i].meta <= r[i].text
  <2>1. CASE i \in 1..Len(c)
    BY <1>1, <1>2, <2>1 DEF Caches
  <2>2. CASE i = Len(c) + 1
    BY <1>2, <2>2
  <2> QED
    BY <1>1, <1>2, <2>1, <2>2
<1> QED
  BY <1>2, <1>4, <1>5 DEF Caches, r

LEMMA InsertedGood ==
  ASSUME cache \in Caches, NEW e \in Entries, e.meta <= e.text
  PROVE  Inserted(e) \in Caches
<1> DEFINE w == Without(cache, e.path)
<1>1. w \in Caches /\ e.path \notin Kept(w)
  BY Removed
<1> HIDE DEF w
<1>2. Evict(w, FileSize[e.path]) \in Caches /\ e.path \notin Kept(Evict(w, FileSize[e.path]))
  BY <1>1, Evicted
<1>3. Append(Evict(w, FileSize[e.path]), e) \in Caches
  BY <1>2, OneIn
<1> QED
  BY <1>3 DEF Inserted, w

\* A hit is on the one entry of the path, which stays as it is.
LEMMA TouchedGood ==
  ASSUME cache \in Caches, NEW i \in DOMAIN cache
  PROVE  /\ Touched(cache[i].path) \in Caches
         /\ Last(Touched(cache[i].path)).text = cache[i].text
<1> DEFINE p == cache[i].path
           e == CHOOSE x \in Range(cache) : x.path = p
           d == [e EXCEPT !.used = TRUE]
           w == Without(cache, p)
<1>1. /\ cache \in Seq(Entries) /\ DOMAIN cache = 1..Len(cache) /\ cache[i] \in Entries
      /\ cache[i].meta <= cache[i].text
  BY DEF Caches
<1>2. e \in Range(cache) /\ e.path = p
  BY DEF Range
<1>3. e = cache[i]
  BY <1>2 DEF Range, Caches
<1> HIDE DEF e
<1>4. d \in Entries /\ d.path = p /\ d.meta = cache[i].meta /\ d.text = cache[i].text
  BY <1>1, <1>3 DEF Entries
<1> HIDE DEF d
<1>5. w \in Caches /\ p \notin Kept(w)
  BY Removed
<1> HIDE DEF w
<1>6. Touched(p) = Append(w, d)
  BY DEF Touched, w, d, e
<1>7. Append(w, d) \in Caches
  BY <1>1, <1>4, <1>5, OneIn
<1>8. Last(Append(w, d)) = d
  BY <1>4, <1>5, AppendProperties DEF Last, Caches
<1> QED
  BY <1>4, <1>6, <1>7, <1>8

\* Reader q of a call: what it saw and got is not older than the file was before it,
\* and neither is the file, if it is there.
FreshSoFar(q) ==
    q.at # "out" =>
        /\ q.path \in Paths /\ q.before <= writes
        /\ stored[q.path] = 0 \/ stored[q.path] >= q.before
        /\ q.at \in {"lookup", "miss", "read"} => q.seen >= q.before
        /\ q.at = "done" => q.got >= q.before

Readings == [at : {"out", "absent", "lookup", "miss", "open", "read", "done"},
             path : Paths \union {NoPath}, before : Nat, seen : Nat, got : Nat]

FreshInv ==
    /\ stored \in [Paths -> Nat] /\ writes \in Nat /\ \A p \in Paths : stored[p] <= writes
    /\ cache \in Caches
    /\ reader \in [Readers -> Readings] /\ \A r \in Readers : FreshSoFar(reader[r])
    /\ fetcher \in [at : {"wait", "stat", "look", "open", "read", "off"}, path : Paths \union {NoPath}, seen : Nat]
    /\ fetcher.at \in {"stat", "look", "open", "read"} => fetcher.path \in Paths

\* A step of one reader that changes no file.
LEMMA OneReads ==
  ASSUME FreshInv, NEW r \in Readers, NEW q \in Readings, FreshSoFar(q),
         reader' = [reader EXCEPT ![r] = q], UNCHANGED <<stored, writes, fetcher>>, cache' \in Caches
  PROVE  FreshInv'
<1>1. reader' \in [Readers -> Readings]
  BY DEF FreshInv
<1>2. ASSUME NEW s \in Readers PROVE FreshSoFar(reader[s])'
  <2>1. reader'[s] = IF s = r THEN q ELSE reader[s]
    BY DEF FreshInv
  <2>2. FreshSoFar(reader[s]) /\ FreshSoFar(q)
    BY DEF FreshInv
  <2> QED
    BY <2>1, <2>2 DEF FreshSoFar
<1> QED
  BY <1>1, <1>2 DEF FreshInv

LEMMA FileChanged ==
  ASSUME FreshInv, NEW p \in Paths, NEW v \in {0, writes + 1}, writes' = writes + 1,
         stored' = [stored EXCEPT ![p] = v], UNCHANGED <<reader, cache, fetcher>>
  PROVE  FreshInv'
<1>1. /\ stored' \in [Paths -> Nat] /\ writes' \in Nat /\ writes \in Nat
      /\ \A x \in Paths : stored'[x] = (IF x = p THEN v ELSE stored[x]) /\ stored'[x] <= writes'
  BY DEF FreshInv
<1>2. ASSUME NEW r \in Readers PROVE FreshSoFar(reader[r])'
  <2>1. FreshSoFar(reader[r]) /\ reader[r].before \in Nat
    BY DEF FreshInv, Readings
  <2> QED
    BY <1>1, <2>1 DEF FreshSoFar
<1> QED
  BY <1>1, <1>2 DEF FreshInv

LEMMA CacheChanged ==
  ASSUME FreshInv, cache' \in Caches, UNCHANGED <<stored, writes, reader, fetcher>>
  PROVE  FreshInv'
BY DEF FreshInv, FreshSoFar

LEMMA Fetched ==
  ASSUME FreshInv, UNCHANGED <<stored, writes, reader>>, cache' \in Caches,
         fetcher' \in [at : {"wait", "stat", "look", "open", "read", "off"}, path : Paths \union {NoPath}, seen : Nat],
         fetcher'.at \in {"stat", "look", "open", "read"} => fetcher'.path \in Paths
  PROVE  FreshInv'
BY DEF FreshInv, FreshSoFar

\* What is read of a file is at least as new as what it was opened at.
LEMMA ReadsNewer ==
  ASSUME FreshInv, NEW p \in Paths, NEW found \in Nat, NEW pre \in BOOLEAN, NEW used \in BOOLEAN
  PROVE  /\ Contents(p, found) \in Nat /\ Contents(p, found) >= found
         /\ Inserted(Entry(p, found, Contents(p, found), pre, used)) \in Caches
<1>1. Contents(p, found) \in Nat /\ Contents(p, found) >= found
  BY DEF Contents, FreshInv
<1> DEFINE e == Entry(p, found, Contents(p, found), pre, used)
<1>2. e \in Entries /\ e.meta = found /\ e.text = Contents(p, found)
  BY <1>1 DEF Entry, Entries
<1> HIDE DEF e
<1>3. Inserted(e) \in Caches
  BY <1>1, <1>2, InsertedGood DEF FreshInv
<1> QED
  BY <1>1, <1>3 DEF e

LEMMA FreshStep == QueueInv /\ FreshInv /\ [CacheNext]_cacheVars => FreshInv'
<1> SUFFICES ASSUME QueueInv, FreshInv, [CacheNext]_cacheVars PROVE FreshInv'
  OBVIOUS
<1>0. cache \in Caches
  BY DEF FreshInv
<1>1. ASSUME NEW p \in Paths, FileWritten(p) \/ FileDeleted(p) PROVE FreshInv'
  BY <1>1, FileChanged DEF FileWritten, FileDeleted
<1>2. ASSUME NEW p \in Paths, NotifyChanged(p) \/ Prefetch(p) PROVE FreshInv'
  <2>1. cache' \in Caches
    BY <1>0, <1>2, Removed DEF NotifyChanged, Prefetch
  <2> QED
    BY <1>2, <2>1, CacheChanged DEF NotifyChanged, Prefetch
<1>3. ASSUME NEW r \in Readers, NEW p \in Paths, ReaderAsks(r, p) PROVE FreshInv'
  <2> DEFINE q == [at |-> IF stored[p] = 0 THEN "absent" ELSE "lookup", path |-> p,
                   before |-> stored[p], seen |-> stored[p], got |-> 0]
  <2>1. q \in Readings /\ FreshSoFar(q)
    BY DEF Readings, FreshInv, FreshSoFar
  <2>2. /\ reader' = [reader EXCEPT ![r] = q] /\ UNCHANGED <<stored, writes, fetcher>>
        /\ cache' \in Caches
    BY <1>0, <1>3 DEF ReaderAsks
  <2> HIDE DEF q
  <2> QED
    BY <2>1, <2>2, OneReads
<1> DEFINE Back == NotReading
<1>4. Back \in Readings /\ FreshSoFar(Back)
  BY DEF NotReading, Readings, FreshSoFar
<1>5. ASSUME NEW r \in Readers, ReaderFindsNone(r) \/ ReaderDone(r) PROVE FreshInv'
  <2>1. /\ reader' = [reader EXCEPT ![r] = Back] /\ UNCHANGED <<stored, writes, fetcher>>
        /\ cache' \in Caches
    BY <1>0, <1>5, Removed DEF ReaderFindsNone, ReaderDone
  <2> HIDE DEF Back
  <2> QED
    BY <1>4, <2>1, OneReads
<1>6. ASSUME NEW r \in Readers, ReaderTakes(r) PROVE FreshInv'
  <2> DEFINE p == reader[r].path
             got == Last(Touched(p)).text
             q == [reader[r] EXCEPT !.at = "done", !.got = got]
  <2>1. /\ reader[r] \in Readings /\ FreshSoFar(reader[r]) /\ reader[r].at \in {"lookup", "miss"}
    BY <1>6 DEF FreshInv, ReaderTakes
  <2>2. PICK i \in DOMAIN cache : cache[i].path = p /\ cache[i].meta = reader[r].seen
    BY <1>6 DEF ReaderTakes, Hit, Matches
  <2>3. Touched(p) \in Caches /\ got = cache[i].text
    BY <1>0, <2>2, TouchedGood
  <2>4. got \in Nat /\ got >= reader[r].before
    <3>1. cache[i] \in Entries /\ cache[i].meta <= cache[i].text
      BY <1>0 DEF Caches
    <3>2. cache[i].text \in Nat /\ reader[r].seen \in Nat /\ reader[r].before \in Nat
      BY <2>1, <3>1 DEF Entries, Readings
    <3>3. reader[r].seen >= reader[r].before
      BY <2>1 DEF FreshSoFar
    <3> QED
      BY <2>2, <2>3, <3>1, <3>2, <3>3
  <2>5. /\ reader' = [reader EXCEPT ![r].at = "done", ![r].got = got] /\ cache' = Touched(p)
        /\ UNCHANGED <<stored, writes, fetcher>>
    BY <1>6 DEF ReaderTakes
  <2> HIDE DEF got
  <2>6. q \in Readings /\ q.at = "done" /\ q.got = got /\ q.path = p /\ q.before = reader[r].before
    BY <2>1, <2>4 DEF Readings
  <2>7. reader' = [reader EXCEPT ![r] = q]
    BY <2>5 DEF FreshInv
  <2>8. FreshSoFar(q)
    BY <2>1, <2>4, <2>6 DEF FreshSoFar
  <2> HIDE DEF q
  <2> QED
    BY <2>3, <2>5, <2>6, <2>7, <2>8, OneReads
<1>7. ASSUME NEW r \in Readers, ReaderMisses(r) \/ ReaderClaims(r) PROVE FreshInv'
  <2> DEFINE at == IF ReaderMisses(r) THEN "miss" ELSE "open"
             q == [reader[r] EXCEPT !.at = at]
  <2>1. reader[r] \in Readings /\ FreshSoFar(reader[r]) /\ reader[r].at \in {"lookup", "miss"}
    BY <1>7 DEF FreshInv, ReaderMisses, ReaderClaims
  <2>2. /\ reader' = [reader EXCEPT ![r].at = at] /\ UNCHANGED <<stored, writes, fetcher>>
        /\ cache' \in Caches
    BY <1>0, <1>7, Removed DEF ReaderMisses, ReaderClaims
  <2>3. at \in {"miss", "open"}
    OBVIOUS
  <2> HIDE DEF at
  <2>4. /\ q \in Readings /\ q.at = at /\ q.path = reader[r].path /\ q.before = reader[r].before
        /\ q.seen = reader[r].seen
    BY <2>1, <2>3 DEF Readings
  <2>5. FreshSoFar(q)
    BY <2>1, <2>3, <2>4 DEF FreshSoFar
  <2>6. reader' = [reader EXCEPT ![r] = q]
    BY <2>2 DEF FreshInv
  <2> HIDE DEF q
  <2> QED
    BY <2>2, <2>4, <2>5, <2>6, OneReads
<1>8. ASSUME NEW r \in Readers, ReaderOpens(r) PROVE FreshInv'
  <2>1. reader[r] \in Readings /\ FreshSoFar(reader[r]) /\ reader[r].at = "open"
    BY <1>8 DEF FreshInv, ReaderOpens
  <2>2. UNCHANGED <<stored, writes, fetcher>> /\ cache' \in Caches
    BY <1>0, <1>8 DEF ReaderOpens
  <2>3. CASE stored[reader[r].path] = 0
    <3>1. reader' = [reader EXCEPT ![r] = Back]
      BY <1>8, <2>3 DEF ReaderOpens
    <3> HIDE DEF Back
    <3> QED
      BY <1>4, <2>2, <3>1, OneReads
  <2>4. CASE stored[reader[r].path] # 0
    <3> DEFINE v == stored[reader[r].path]
               q == [reader[r] EXCEPT !.at = "read", !.seen = v]
    <3>1. reader' = [reader EXCEPT ![r].at = "read", ![r].seen = v]
      BY <1>8, <2>4 DEF ReaderOpens
    <3>2. v \in Nat /\ v >= reader[r].before
      BY <2>1, <2>4 DEF FreshInv, FreshSoFar
    <3> HIDE DEF v
    <3>3. /\ q \in Readings /\ q.at = "read" /\ q.path = reader[r].path /\ q.before = reader[r].before
          /\ q.seen = v
      BY <2>1, <3>2 DEF Readings
    <3>4. FreshSoFar(q)
      BY <2>1, <3>2, <3>3 DEF FreshSoFar
    <3>5. reader' = [reader EXCEPT ![r] = q]
      BY <3>1 DEF FreshInv
    <3> HIDE DEF q
    <3> QED
      BY <2>2, <3>3, <3>4, <3>5, OneReads
  <2> QED
    BY <2>3, <2>4
<1>9. ASSUME NEW r \in Readers, ReaderKeeps(r) PROVE FreshInv'
  <2> DEFINE p == reader[r].path
             lines == Contents(p, reader[r].seen)
             q == [reader[r] EXCEPT !.at = "done", !.got = lines]
  <2>1. reader[r] \in Readings /\ FreshSoFar(reader[r]) /\ reader[r].at = "read"
    BY <1>9 DEF FreshInv, ReaderKeeps
  <2>2. p \in Paths /\ reader[r].seen \in Nat /\ reader[r].before \in Nat
    BY <2>1 DEF FreshSoFar, Readings
  <2>3. lines \in Nat /\ lines >= reader[r].seen /\ Inserted(Entry(p, reader[r].seen, lines, FALSE, TRUE)) \in Caches
    BY <2>2, ReadsNewer
  <2>4. lines >= reader[r].before
    BY <2>1, <2>2, <2>3 DEF FreshSoFar
  <2>5. /\ reader' = [reader EXCEPT ![r].at = "done", ![r].got = lines]
        /\ cache' = Inserted(Entry(p, reader[r].seen, lines, FALSE, TRUE))
        /\ UNCHANGED <<stored, writes, fetcher>>
    BY <1>9 DEF ReaderKeeps
  <2> HIDE DEF lines
  <2>6. q \in Readings /\ q.at = "done" /\ q.got = lines /\ q.path = p /\ q.before = reader[r].before
    BY <2>1, <2>3 DEF Readings
  <2>7. reader' = [reader EXCEPT ![r] = q]
    BY <2>5 DEF FreshInv
  <2>8. FreshSoFar(q)
    BY <2>1, <2>4, <2>6 DEF FreshSoFar
  <2> HIDE DEF q
  <2> QED
    BY <2>3, <2>5, <2>6, <2>7, <2>8, OneReads
<1>10. CASE Picks
  <2>1. [path |-> NoPath, q |-> ahead, s |-> queued] \in Queues(Window) /\ Window \in Nat
    BY WindowAssumption DEF QueueInv, PrefetchNotLost, Queues
  <2>2. Picked.path \in Paths \union {NoPath}
    BY <2>1, PickedKeeps DEF Queues
  <2>3. /\ fetcher' = IF Picked.path = NoPath THEN FetcherIdle
                      ELSE [at |-> "stat", path |-> Picked.path, seen |-> 0]
        /\ UNCHANGED <<stored, writes, reader, cache>>
    BY <1>10 DEF Picks
  <2> HIDE DEF Picked
  <2> QED
    BY <1>0, <2>2, <2>3, Fetched DEF FetcherIdle
<1>11. CASE FetcherStats \/ FetcherOpens
  <2>1. /\ fetcher.at \in {"stat", "open"} /\ fetcher.path \in Paths
        /\ UNCHANGED <<stored, writes, reader, cache>>
    BY <1>11 DEF FetcherStats, FetcherOpens, FreshInv
  <2>2. CASE fetcher' = FetcherIdle
    BY <1>0, <2>1, <2>2, Fetched DEF FetcherIdle
  <2>3. ASSUME NEW at \in {"look", "read"},
               fetcher' = [fetcher EXCEPT !.at = at, !.seen = stored[fetcher.path]]
        PROVE  FreshInv'
    <3> DEFINE v == stored[fetcher.path]
    <3>1. v \in Nat
      BY <2>1 DEF FreshInv
    <3>2. fetcher' = [at |-> at, path |-> fetcher.path, seen |-> v]
      BY <2>3 DEF FreshInv
    <3> HIDE DEF v
    <3> QED
      BY <1>0, <2>1, <3>1, <3>2, Fetched
  <2> QED
    BY <1>11, <2>2, <2>3 DEF FetcherStats, FetcherOpens
<1>15. CASE FetcherLooks
  <2>1. fetcher.at = "look" /\ fetcher.path \in Paths /\ UNCHANGED <<stored, writes, reader, cache>>
    BY <1>15 DEF FetcherLooks, FreshInv
  <2>2. CASE fetcher' = FetcherIdle
    BY <1>0, <2>1, <2>2, Fetched DEF FetcherIdle
  <2>3. CASE fetcher' = [fetcher EXCEPT !.at = "open"]
    <3>1. fetcher' = [at |-> "open", path |-> fetcher.path, seen |-> fetcher.seen] /\ fetcher.seen \in Nat
      BY <2>3 DEF FreshInv
    <3> QED
      BY <1>0, <2>1, <3>1, Fetched
  <2> QED
    BY <1>15, <2>2, <2>3 DEF FetcherLooks
<1>14. CASE FetcherExits
  <2>1. fetcher' = [at |-> "off", path |-> NoPath, seen |-> 0]
    BY <1>14 DEF FetcherExits, FetcherIdle
  <2>2. cache' \in Caches /\ UNCHANGED <<stored, writes, reader>>
    BY <1>0, <1>14 DEF FetcherExits
  <2> QED
    BY <2>1, <2>2, Fetched
<1>12. CASE FetcherKeeps
  <2>1. fetcher.path \in Paths /\ fetcher.seen \in Nat /\ fetcher' = FetcherIdle
    BY <1>12 DEF FetcherKeeps, FreshInv
  <2>2. Inserted(Entry(fetcher.path, fetcher.seen, Contents(fetcher.path, fetcher.seen), TRUE, FALSE)) \in Caches
    BY <2>1, ReadsNewer
  <2>3. cache' \in Caches /\ UNCHANGED <<stored, writes, reader>>
    BY <1>12, <2>2 DEF FetcherKeeps
  <2> QED
    BY <2>1, <2>3, Fetched DEF FetcherIdle
<1>13. CASE Shutdown \/ UNCHANGED cacheVars
  BY <1>0, <1>13, CacheChanged DEF Shutdown, cacheVars
<1> QED
  BY <1>1, <1>2, <1>3, <1>5, <1>6, <1>7, <1>8, <1>9, <1>10, <1>11, <1>12, <1>13, <1>14, <1>15 DEF CacheNext

\* What get_cached returns is at least as new as the file was when it was called, for
\* any files, readers and limits of the cache.
THEOREM CachedIsFresh == CacheSpec => []FreshFiles
<1>1. CacheInit => QueueInv /\ FreshInv
  <2> SUFFICES ASSUME CacheInit PROVE QueueInv /\ FreshInv
    OBVIOUS
  <2>1. Len(<<>>) <= Window
    BY WindowAssumption
  <2>2. QueueInv
    BY <2>1 DEF CacheInit, QueueInv, PrefetchNotLost
  <2>3. cache \in Caches
    BY DEF CacheInit, Caches
  <2> QED
    BY <2>2, <2>3 DEF CacheInit, FreshInv, FreshSoFar, Readings, NotReading, FetcherIdle
<1>2. FreshInv => FreshFiles
  BY DEF FreshInv, FreshFiles, FreshSoFar
<1>3. QueueInv /\ FreshInv /\ [CacheNext]_cacheVars => QueueInv' /\ FreshInv'
  BY QueueStep, FreshStep
<1> QED
  BY <1>1, <1>2, <1>3, PTL DEF CacheSpec

-----------------------------------------------------------------------------
(* Undoing everything gives the bytes that were loaded. *)

Bytes   == Nibbles \X Nibbles
Changes == [at : Nat \ {0}, old : Bytes, new : Bytes, grows : BOOLEAN]
Groups  == Seq(Changes)

Sets(c, i) == ~c.grows /\ c.at = i

\* No change of a group sets byte i; the first one that does found v there.
Untouched(g, i) == \A k \in 1..Len(g) : ~Sets(g[k], i)
Origin(g, i, v) ==
    \E k \in 1..Len(g) : /\ Sets(g[k], i) /\ g[k].old = v
                         /\ \A j \in 1..Len(g) : j < k => ~Sets(g[j], i)

\* h: the number of bytes after each change of g.
Rungs(g, h) ==
    /\ h \in [0..Len(g) -> Nat]
    /\ \A k \in 1..Len(g) : h[k] = h[k - 1] + (IF g[k].grows THEN 1 ELSE 0)
Climbs(g, a, b) == \E h : Rungs(g, h) /\ h[0] = a /\ h[Len(g)] = b

-----------------------------------------------------------------------------
(* One group of changes *)

LEMMA RungsGoUp ==
  ASSUME NEW g \in Groups, NEW h, Rungs(g, h)
  PROVE  \A k \in 0..Len(g) : h[0] <= h[k]
<1>1. Len(g) \in Nat
  BY DEF Groups
<1> DEFINE T == {k \in 0..Len(g) : h[0] <= h[k]}
<1>2. 0 \in T
  BY <1>1 DEF Rungs
<1>3. ASSUME NEW k \in 1..Len(g), k - 1 \in T PROVE k \in T
  <2>1. k \in 0..Len(g) /\ k - 1 \in 0..Len(g)
    BY <1>1
  <2>2. h[0] \in Nat /\ h[k - 1] \in Nat /\ h[k] \in Nat /\ h[0] <= h[k - 1]
    BY <1>1, <1>3, <2>1 DEF Rungs
  <2>3. h[k] = h[k - 1] \/ h[k] = h[k - 1] + 1
    BY <2>2 DEF Rungs
  <2> QED
    BY <2>1, <2>2, <2>3
<1> HIDE DEF T
<1>4. \A k \in 0..Len(g) : k \in T
  BY <1>1, <1>2, <1>3, CountingUp
<1> QED
  BY <1>4 DEF T

LEMMA ClimbsUp ==
  ASSUME NEW g \in Groups, NEW a, NEW b, Climbs(g, a, b)
  PROVE  a \in Nat /\ b \in Nat /\ a <= b
<1>1. PICK h : Rungs(g, h) /\ h[0] = a /\ h[Len(g)] = b
  BY DEF Climbs
<1>2. Len(g) \in Nat
  BY DEF Groups
<1>3. 0 \in 0..Len(g) /\ Len(g) \in 0..Len(g)
  BY <1>2
<1> QED
  BY <1>1, <1>3, RungsGoUp DEF Rungs

\* From wherever a group starts, it adds as many bytes.
LEMMA ClimbsFrom ==
  ASSUME NEW g \in Groups, NEW a \in Nat, NEW b \in Nat, NEW c \in Nat, Climbs(g, a, b)
  PROVE  Climbs(g, c, c + (b - a))
<1>1. PICK h : Rungs(g, h) /\ h[0] = a /\ h[Len(g)] = b
  BY DEF Climbs
<1> DEFINE r == [k \in 0..Len(g) |-> c + (h[k] - a)]
<1>2. Len(g) \in Nat
  BY DEF Groups
<1>3. \A k \in 0..Len(g) : h[k] \in Nat /\ a <= h[k]
  BY <1>1, RungsGoUp DEF Rungs
<1>4. \A k \in 0..Len(g) : r[k] = c + (h[k] - a) /\ r[k] \in Nat
  BY <1>3
<1>5. r \in [0..Len(g) -> Nat]
  BY <1>4
<1>6. ASSUME NEW k \in 1..Len(g) PROVE r[k] = r[k - 1] + (IF g[k].grows THEN 1 ELSE 0)
  <2>1. k \in 0..Len(g) /\ k - 1 \in 0..Len(g)
    BY <1>2
  <2>2. h[k] = h[k - 1] + (IF g[k].grows THEN 1 ELSE 0)
    BY <1>1 DEF Rungs
  <2>3. h[k] \in Nat /\ h[k - 1] \in Nat
    BY <1>3, <2>1
  <2>4. r[k] = c + (h[k] - a) /\ r[k - 1] = c + (h[k - 1] - a)
    BY <1>4, <2>1
  <2> HIDE DEF r
  <2>5. CASE g[k].grows
    BY <2>2, <2>3, <2>4, <2>5
  <2>6. CASE ~g[k].grows
    BY <2>2, <2>3, <2>4, <2>6
  <2> QED
    BY <2>5, <2>6
<1>7. 0 \in 0..Len(g) /\ Len(g) \in 0..Len(g)
  BY <1>2
<1>8. r[0] = c /\ r[Len(g)] = c + (b - a)
  BY <1>1, <1>4, <1>7
<1> HIDE DEF r
<1> QED
  BY <1>5, <1>6, <1>8 DEF Climbs, Rungs

LEMMA SomeClimb ==
  ASSUME NEW g \in Groups, NEW a \in Nat
  PROVE  \E b \in Nat : Climbs(g, a, b)
<1>1. Len(g) \in Nat
  BY DEF Groups
<1> DEFINE F == [k \in 1..Len(g) |-> [x \in Nat |-> x + (IF g[k].grows THEN 1 ELSE 0)]]
<1>2. F \in [1..Len(g) -> [Nat -> Nat]]
  OBVIOUS
<1> HIDE DEF F
<1>3. PICK h : Along(h, Nat, Len(g), a, F)
  BY <1>1, <1>2, Recursion
<1>4. h \in [0..Len(g) -> Nat] /\ h[0] = a
  BY <1>3 DEF Along
<1>5. ASSUME NEW k \in 1..Len(g) PROVE h[k] = h[k - 1] + (IF g[k].grows THEN 1 ELSE 0)
  <2>1. k - 1 \in 0..Len(g)
    BY <1>1
  <2>2. h[k - 1] \in Nat
    BY <1>4, <2>1
  <2>3. h[k] = F[k][h[k - 1]]
    BY <1>3 DEF Along
  <2> QED
    BY <2>2, <2>3 DEF F
<1>6. Len(g) \in 0..Len(g)
  BY <1>1
<1> QED
  BY <1>4, <1>5, <1>6 DEF Climbs, Rungs

\* One more change: it adds a byte, or sets one.
LEMMA OneMoreRung ==
  ASSUME NEW g \in Groups, NEW c \in Changes, NEW a \in Nat, NEW b \in Nat, Climbs(g, a, b)
  PROVE  Climbs(Append(g, c), a, b + (IF c.grows THEN 1 ELSE 0))
<1>1. PICK h : Rungs(g, h) /\ h[0] = a /\ h[Len(g)] = b
  BY DEF Climbs
<1> DEFINE s == Append(g, c)
           n == Len(g)
           d == b + (IF c.grows THEN 1 ELSE 0)
           r == [k \in 0..n + 1 |-> IF k = n + 1 THEN d ELSE h[k]]
<1>2. /\ n \in Nat /\ Len(s) = n + 1 /\ s[n + 1] = c /\ \A k \in 1..n : s[k] = g[k]
  BY Appended DEF Groups
<1>3. d \in Nat
  OBVIOUS
<1> HIDE DEF s, d, n
<1>4. h \in [0..n -> Nat] /\ \A k \in 1..n : h[k] = h[k - 1] + (IF g[k].grows THEN 1 ELSE 0)
  BY <1>1 DEF Rungs, n
<1>5. \A k \in 0..n : r[k] = h[k] /\ r[k] \in Nat
  BY <1>2, <1>4
<1>6. r[n + 1] = d /\ r[0] = a
  BY <1>1, <1>2
<1>7. r \in [0..n + 1 -> Nat]
  BY <1>2, <1>3, <1>4
<1>8. ASSUME NEW k \in 1..n + 1 PROVE r[k] = r[k - 1] + (IF s[k].grows THEN 1 ELSE 0)
  <2>1. CASE k = n + 1
    <3>1. n \in 0..n /\ k - 1 = n
      BY <1>2, <2>1
    <3>2. r[k - 1] = b
      BY <1>1, <1>5, <3>1 DEF n
    <3> HIDE DEF r
    <3> QED
      BY <1>2, <1>6, <2>1, <3>2 DEF d
  <2>2. CASE k # n + 1
    <3>1. k \in 1..n /\ k \in 0..n /\ k - 1 \in 0..n
      BY <1>2, <2>2
    <3> QED
      BY <1>2, <1>4, <1>5, <3>1
  <2> QED
    BY <2>1, <2>2
<1> HIDE DEF r
<1>9. Rungs(s, r)
  BY <1>2, <1>7, <1>8 DEF Rungs
<1> QED
  BY <1>2, <1>6, <1>9 DEF Climbs, s, d

-----------------------------------------------------------------------------
(* Taking a group back, and applying it again *)

GoesBack(d, data, g) ==
    d = [k \in 0..Len(g) |-> IF k = 0 THEN data ELSE Revoke(g[Len(g) + 1 - k], d[k - 1])]

LEMMA RevokeTyped ==
  ASSUME NEW c \in Changes, NEW data \in Seq(Bytes)
  PROVE  Revoke(c, data) \in Seq(Bytes)
BY DEF Revoke, Changes, Front

LEMMA WentBack ==
  ASSUME NEW g \in Groups, NEW data \in Seq(Bytes)
  PROVE  \E d : GoesBack(d, data, g) /\ Revoked(data, g) = d[Len(g)]
<1>1. Len(g) \in Nat /\ \A k \in 1..Len(g) : g[k] \in Changes
  BY DEF Groups
<1> DEFINE F == [k \in 1..Len(g) |-> [x \in Seq(Bytes) |-> Revoke(g[Len(g) + 1 - k], x)]]
<1>2. F \in [1..Len(g) -> [Seq(Bytes) -> Seq(Bytes)]]
  <2>1. \A k \in 1..Len(g) : g[Len(g) + 1 - k] \in Changes
    BY <1>1
  <2> QED
    BY <2>1, RevokeTyped
<1> HIDE DEF F
<1>3. PICK f : Along(f, Seq(Bytes), Len(g), data, F)
  BY <1>1, <1>2, Recursion
<1>4. \A k \in 1..Len(g) : f[k] = Revoke(g[Len(g) + 1 - k], f[k - 1])
  <2>1. \A k \in 1..Len(g) : k - 1 \in 0..Len(g)
    BY <1>1
  <2> QED
    BY <1>3, <2>1 DEF F, Along
<1>5. GoesBack(f, data, g)
  BY <1>1, <1>3, <1>4 DEF GoesBack, Along
<1> DEFINE c == CHOOSE d : GoesBack(d, data, g)
<1>6. GoesBack(c, data, g)
  BY <1>5
<1>7. Revoked(data, g) = c[Len(g)]
  BY DEF Revoked, GoesBack
<1> QED
  BY <1>6, <1>7

\* One change taken back: it gives up the byte it added, or puts back what it found.
LEMMA OneRevoked ==
  ASSUME NEW c \in Changes, NEW data \in Seq(Bytes), NEW a \in Nat,
         Len(data) = a + (IF c.grows THEN 1 ELSE 0)
  PROVE  /\ Len(Revoke(c, data)) = a
         /\ \A i \in 1..a : Revoke(c, data)[i] = IF Sets(c, i) THEN c.old ELSE data[i]
<1>1. Len(data) \in Nat /\ c.at \in Nat \ {0} /\ c.grows \in BOOLEAN
  BY DEF Changes
<1>2. CASE c.grows
  <2>1. data # <<>> /\ Len(data) = a + 1
    BY <1>2
  <2>2. Revoke(c, data) = SubSeq(data, 1, a)
    BY <1>2, <2>1 DEF Revoke, Front
  <2>3. Len(SubSeq(data, 1, a)) = a /\ \A i \in 1..a : SubSeq(data, 1, a)[i] = data[i]
    BY <2>1
  <2> QED
    BY <1>2, <2>2, <2>3 DEF Sets
<1>3. CASE ~c.grows
  <2>1. Len(data) = a
    BY <1>1, <1>3
  <2>2. CASE c.at <= a
    <3>1. Revoke(c, data) = [data EXCEPT ![c.at] = c.old]
      BY <1>3, <2>1, <2>2 DEF Revoke
    <3>2. c.at \in 1..Len(data) /\ c.old \in Bytes
      BY <1>1, <2>1, <2>2 DEF Changes
    <3>3. Len([data EXCEPT ![c.at] = c.old]) = Len(data)
      BY <3>2
    <3>4. \A i \in 1..a : [data EXCEPT ![c.at] = c.old][i] = IF i = c.at THEN c.old ELSE data[i]
      BY <2>1, <3>2
    <3> QED
      BY <1>3, <2>1, <3>1, <3>3, <3>4 DEF Sets
  <2>3. CASE ~(c.at <= a)
    <3>1. Revoke(c, data) = data
      BY <1>3, <2>1, <2>3 DEF Revoke
    <3>2. \A i \in 1..a : ~Sets(c, i)
      BY <1>1, <2>3 DEF Sets
    <3> QED
      BY <2>1, <3>1, <3>2
  <2> QED
    BY <2>2, <2>3
<1> QED
  BY <1>1, <1>2, <1>3

\* A group taken back: the bytes are as many as before it; one that no change of it set
\* is as it is, and another one is what the first of these changes found there.
LEMMA TakenBack ==
  ASSUME NEW g \in Groups, NEW data \in Seq(Bytes), NEW a, Climbs(g, a, Len(data))
  PROVE  /\ Revoked(data, g) \in Seq(Bytes) /\ Len(Revoked(data, g)) = a
         /\ \A i \in 1..a : Untouched(g, i) => Revoked(data, g)[i] = data[i]
         /\ \A i \in 1..a : \A v : Origin(g, i, v) => Revoked(data, g)[i] = v
<1> DEFINE n == Len(g)
<1>1. PICK h : Rungs(g, h) /\ h[0] = a /\ h[n] = Len(data)
  BY DEF Climbs
<1>2. PICK d : GoesBack(d, data, g) /\ Revoked(data, g) = d[n]
  BY WentBack
<1>3. n \in Nat /\ \A k \in 1..n : g[k] \in Changes
  BY DEF Groups
<1>4. d[0] = data /\ \A k \in 1..n : d[k] = Revoke(g[n + 1 - k], d[k - 1])
  <2>1. d = [k \in 0..n |-> IF k = 0 THEN data ELSE Revoke(g[n + 1 - k], d[k - 1])]
    BY <1>2 DEF GoesBack
  <2> HIDE DEF n
  <2>2. 0 \in 0..n /\ \A k \in 1..n : k \in 0..n /\ k # 0
    BY <1>3
  <2>3. d[0] = data
    BY <2>1, <2>2
  <2>4. ASSUME NEW k \in 1..n PROVE d[k] = Revoke(g[n + 1 - k], d[k - 1])
    BY <2>1, <2>2
  <2> QED
    BY <2>3, <2>4
<1>5. /\ \A k \in 0..n : h[k] \in Nat /\ a <= h[k]
      /\ \A k \in 1..n : h[k] = h[k - 1] + (IF g[k].grows THEN 1 ELSE 0)
  BY <1>1, RungsGoUp DEF Rungs
<1>6. a \in Nat
  BY <1>1, <1>3, <1>5
<1> HIDE DEF n
\* The first of the changes from the one numbered m that sets byte i.
<1> DEFINE First(m, j, i) == Sets(g[j], i) /\ \A l \in m..n : l < j => ~Sets(g[l], i)
           T == {k \in 0..n :
                  /\ d[k] \in Seq(Bytes) /\ Len(d[k]) = h[n - k]
                  /\ \A i \in 1..a : /\ (\A l \in n + 1 - k..n : ~Sets(g[l], i)) => d[k][i] = data[i]
                                     /\ \A j \in n + 1 - k..n : First(n + 1 - k, j, i) => d[k][i] = g[j].old}
<1>7. 0 \in T
  <2>1. n + 1 - 0 = n + 1 /\ n - 0 = n /\ 0 \in 0..n /\ n + 1..n = {}
    BY <1>3
  <2> QED
    BY <1>1, <1>4, <2>1
<1>8. ASSUME NEW k \in 1..n, k - 1 \in T PROVE k \in T
  <2> DEFINE m == n + 1 - k
             x == d[k - 1]
  <2>1. /\ m \in 1..n /\ m - 1 \in 0..n /\ n - k = m - 1 /\ n - (k - 1) = m /\ n + 1 - (k - 1) = m + 1
        /\ k \in 0..n /\ m \in 0..n /\ m..n = {m} \union m + 1..n /\ m + 1..n \subseteq 1..n
    BY <1>3
  <2>2. /\ x \in Seq(Bytes) /\ Len(x) = h[m]
        /\ \A i \in 1..a : /\ (\A l \in m + 1..n : ~Sets(g[l], i)) => x[i] = data[i]
                           /\ \A j \in m + 1..n : First(m + 1, j, i) => x[i] = g[j].old
    BY <1>8, <2>1
  <2>3. d[k] = Revoke(g[m], x)
    BY <1>4
  <2> HIDE DEF m, x
  <2>4. g[m] \in Changes /\ h[m - 1] \in Nat /\ a <= h[m - 1] /\ Len(x) = h[m - 1] + (IF g[m].grows THEN 1 ELSE 0)
    BY <1>3, <1>5, <2>1, <2>2
  <2>5. d[k] \in Seq(Bytes)
    BY <2>2, <2>3, <2>4, RevokeTyped
  <2>6. Len(d[k]) = h[m - 1] /\ \A i \in 1..h[m - 1] : d[k][i] = IF Sets(g[m], i) THEN g[m].old ELSE x[i]
    BY <2>2, <2>3, <2>4, OneRevoked
  <2>7. ASSUME NEW i \in 1..a, \A l \in m..n : ~Sets(g[l], i) PROVE d[k][i] = data[i]
    <3>1. i \in 1..h[m - 1]
      BY <1>6, <2>4
    <3> QED
      BY <2>1, <2>2, <2>6, <2>7, <3>1
  <2>8. ASSUME NEW i \in 1..a, NEW j \in m..n, First(m, j, i) PROVE d[k][i] = g[j].old
    <3>1. i \in 1..h[m - 1]
      BY <1>6, <2>4
    <3>2. CASE j = m
      BY <2>6, <2>8, <3>1, <3>2
    <3>3. CASE j # m
      <4>1. j \in m + 1..n /\ m < j
        BY <2>1, <3>3
      <4>2. First(m + 1, j, i) /\ ~Sets(g[m], i)
        BY <2>1, <2>8, <4>1
      <4> HIDE DEF First
      <4>3. x[i] = g[j].old
        BY <2>2, <4>1, <4>2
      <4> QED
        BY <2>6, <3>1, <4>2, <4>3
    <3> QED
      BY <3>2, <3>3
  <2> HIDE DEF First
  <2> QED
    BY <2>1, <2>5, <2>6, <2>7, <2>8 DEF m
<1> HIDE DEF T
<1>9. n \in T
  <2>1. n \in 0..n
    BY <1>3
  <2>2. \A k \in 0..n : k \in T
    BY <1>3, <1>7, <1>8, CountingUp
  <2> QED
    BY <2>1, <2>2
<1>10. /\ d[n] \in Seq(Bytes) /\ Len(d[n]) = h[0]
       /\ \A i \in 1..a : /\ (\A l \in 1..n : ~Sets(g[l], i)) => d[n][i] = data[i]
                          /\ \A j \in 1..n : First(1, j, i) => d[n][i] = g[j].old
  <2>1. n + 1 - n = 1 /\ n - n = 0
    BY <1>3
  <2> HIDE DEF First
  <2> QED
    BY <1>9, <2>1 DEF T
<1>11. ASSUME NEW i \in 1..a, NEW v, Origin(g, i, v) PROVE Revoked(data, g)[i] = v
  BY <1>2, <1>10, <1>11 DEF Origin, n
<1>12. ASSUME NEW i \in 1..a, Untouched(g, i) PROVE Revoked(data, g)[i] = data[i]
  BY <1>2, <1>10, <1>12 DEF Untouched, n
<1> QED
  BY <1>1, <1>2, <1>10, <1>11, <1>12

GoesOn(d, data, g) == d = [k \in 0..Len(g) |-> IF k = 0 THEN data ELSE Reapply(d[k - 1], g[k])]

LEMMA OneReapplied ==
  ASSUME NEW c \in Changes, NEW data \in Seq(Bytes)
  PROVE  /\ Reapply(data, c) \in Seq(Bytes)
         /\ Len(Reapply(data, c)) = Len(data) + (IF c.grows THEN 1 ELSE 0)
         /\ \A i \in 1..Len(data) : ~Sets(c, i) => Reapply(data, c)[i] = data[i]
<1>1. c.at \in Nat \ {0} /\ c.new \in Bytes /\ Len(data) \in Nat
  BY DEF Changes
<1>2. CASE c.grows
  <2>1. Reapply(data, c) = Append(data, c.new)
    BY <1>2 DEF Reapply
  <2> QED
    BY <1>1, <1>2, <2>1, Appended
<1>3. CASE ~c.grows
  BY <1>1, <1>3 DEF Reapply, Sets
<1> QED
  BY <1>2, <1>3

\* A group applied again: it adds its bytes, and leaves alone what it does not set.
LEMMA AppliedAgain ==
  ASSUME NEW g \in Groups, NEW data \in Seq(Bytes), NEW b, Climbs(g, Len(data), b)
  PROVE  /\ Reapplied(data, g) \in Seq(Bytes) /\ Len(Reapplied(data, g)) = b
         /\ \A i \in 1..Len(data) : Untouched(g, i) => Reapplied(data, g)[i] = data[i]
<1> DEFINE n == Len(g)
<1>1. PICK h : Rungs(g, h) /\ h[0] = Len(data) /\ h[n] = b
  BY DEF Climbs
<1>2. n \in Nat /\ Len(data) \in Nat /\ \A k \in 1..n : g[k] \in Changes
  BY DEF Groups
<1>3. /\ \A k \in 0..n : h[k] \in Nat /\ Len(data) <= h[k]
      /\ \A k \in 1..n : h[k] = h[k - 1] + (IF g[k].grows THEN 1 ELSE 0)
  BY <1>1, RungsGoUp DEF Rungs
<1>4. PICK d : GoesOn(d, data, g) /\ Reapplied(data, g) = d[n]
  <2> DEFINE F == [k \in 1..n |-> [x \in Seq(Bytes) |-> Reapply(x, g[k])]]
  <2>1. F \in [1..n -> [Seq(Bytes) -> Seq(Bytes)]]
    BY <1>2, OneReapplied
  <2> HIDE DEF F
  <2>2. PICK f : Along(f, Seq(Bytes), n, data, F)
    BY <1>2, <2>1, Recursion
  <2>3. \A k \in 1..n : f[k] = Reapply(f[k - 1], g[k])
    <3>1. \A k \in 1..n : k - 1 \in 0..n
      BY <1>2
    <3> QED
      BY <2>2, <3>1 DEF F, Along
  <2>4. GoesOn(f, data, g)
    BY <1>2, <2>2, <2>3 DEF GoesOn, Along
  <2> DEFINE c == CHOOSE d : GoesOn(d, data, g)
  <2>5. GoesOn(c, data, g)
    BY <2>4
  <2>6. Reapplied(data, g) = c[n]
    BY DEF Reapplied, GoesOn
  <2> QED
    BY <2>5, <2>6
<1>5. d[0] = data /\ \A k \in 1..n : d[k] = Reapply(d[k - 1], g[k])
  BY <1>2, <1>4 DEF GoesOn
<1> HIDE DEF n
<1> DEFINE T == {k \in 0..n :
                  /\ d[k] \in Seq(Bytes) /\ Len(d[k]) = h[k]
                  /\ \A i \in 1..Len(data) : (\A l \in 1..n : ~Sets(g[l], i)) => d[k][i] = data[i]}
<1>6. 0 \in T
  BY <1>1, <1>2, <1>5
<1>7. ASSUME NEW k \in 1..n, k - 1 \in T PROVE k \in T
  <2> DEFINE x == d[k - 1]
  <2>1. /\ x \in Seq(Bytes) /\ Len(x) = h[k - 1]
        /\ \A i \in 1..Len(data) : (\A l \in 1..n : ~Sets(g[l], i)) => x[i] = data[i]
    BY <1>7
  <2>2. d[k] = Reapply(x, g[k]) /\ g[k] \in Changes /\ k \in 0..n /\ k - 1 \in 0..n
    BY <1>2, <1>5
  <2> HIDE DEF x
  <2>3. /\ d[k] \in Seq(Bytes) /\ Len(d[k]) = Len(x) + (IF g[k].grows THEN 1 ELSE 0)
        /\ \A i \in 1..Len(x) : ~Sets(g[k], i) => d[k][i] = x[i]
    BY <2>1, <2>2, OneReapplied
  <2>4. Len(d[k]) = h[k]
    BY <1>3, <2>1, <2>3
  <2>5. ASSUME NEW i \in 1..Len(data), \A l \in 1..n : ~Sets(g[l], i) PROVE d[k][i] = data[i]
    <3>1. i \in 1..Len(x)
      BY <1>2, <1>3, <2>1, <2>2
    <3> QED
      BY <2>1, <2>3, <2>5, <3>1
  <2> QED
    BY <2>2, <2>3, <2>4, <2>5
<1>8. n \in T
  <2> HIDE DEF T
  <2>1. n \in 0..n
    BY <1>2
  <2>2. \A k \in 0..n : k \in T
    BY <1>2, <1>6, <1>7, CountingUp
  <2> QED
    BY <2>1, <2>2
<1> QED
  BY <1>1, <1>4, <1>8 DEF Untouched, n

-----------------------------------------------------------------------------
(* The groups of the undo stack *)

\* H: the number of bytes after each group.
Stairs(gs, H) ==
    /\ H \in [0..Len(gs) -> Nat]
    /\ \A m \in 1..Len(gs) : Climbs(gs[m], H[m - 1], H[m])

\* No group sets byte i; the first one that does found v there.
Quiet(gs, i) == \A m \in 1..Len(gs) : Untouched(gs[m], i)
Restores(gs, i, v) ==
    \E m \in 1..Len(gs) : /\ Origin(gs[m], i, v)
                          /\ \A l \in 1..Len(gs) : l < m => Untouched(gs[l], i)

\* Among groups that will be redone, the last one first.
RestoresBack(gs, i, v) ==
    \E m \in 1..Len(gs) : /\ Origin(gs[m], i, v)
                          /\ \A l \in 1..Len(gs) : m < l => Untouched(gs[l], i)

LEMMA StairsGoUp ==
  ASSUME NEW gs \in Seq(Groups), NEW H, Stairs(gs, H)
  PROVE  \A m \in 0..Len(gs) : H[0] <= H[m]
<1> DEFINE T == {m \in 0..Len(gs) : H[0] <= H[m]}
<1>1. Len(gs) \in Nat
  OBVIOUS
<1>2. 0 \in T
  BY <1>1 DEF Stairs
<1>3. ASSUME NEW m \in 1..Len(gs), m - 1 \in T PROVE m \in T
  <2>1. m \in 0..Len(gs) /\ m - 1 \in 0..Len(gs) /\ gs[m] \in Groups
    BY <1>1
  <2>2. H[0] \in Nat /\ H[m - 1] \in Nat /\ H[m] \in Nat /\ H[0] <= H[m - 1] /\ Climbs(gs[m], H[m - 1], H[m])
    BY <1>1, <1>3, <2>1 DEF Stairs
  <2>3. H[m - 1] <= H[m]
    BY <2>1, <2>2, ClimbsUp
  <2> QED
    BY <2>1, <2>2, <2>3
<1> HIDE DEF T
<1>4. \A m \in 0..Len(gs) : m \in T
  BY <1>1, <1>2, <1>3, CountingUp
<1> QED
  BY <1>4 DEF T

UndoesAll(d) ==
    d = [k \in 0..Len(undoable) |->
           IF k = 0 THEN Revoked(bytes, open) ELSE Revoked(d[k - 1], undoable[Len(undoable) + 1 - k])]

\* What is needed of the bytes once the open group is taken back, for the groups under
\* it to give what was loaded.
LEMMA AllTakenBack ==
  ASSUME undoable \in Seq(Groups), NEW H, Stairs(undoable, H), base \in Seq(Bytes), H[0] = Len(base),
         Revoked(bytes, open) \in Seq(Bytes), Len(Revoked(bytes, open)) = H[Len(undoable)],
         \A i \in 1..Len(base) : \/ Restores(undoable, i, base[i])
                                 \/ Quiet(undoable, i) /\ Revoked(bytes, open)[i] = base[i]
  PROVE  AllUndone = base
<1> DEFINE n == Len(undoable)
           L == Len(base)
<1>1. n \in Nat /\ L \in Nat /\ \A m \in 1..n : undoable[m] \in Groups
  OBVIOUS
<1>2. /\ \A m \in 0..n : H[m] \in Nat /\ L <= H[m]
      /\ \A m \in 1..n : Climbs(undoable[m], H[m - 1], H[m])
  BY StairsGoUp DEF Stairs
<1> DEFINE c == CHOOSE d : UndoesAll(d)
<1>3. UndoesAll(c) /\ AllUndone = c[n]
  <2>1. \E d : UndoesAll(d)
    <3> DEFINE R(m) == {x \in Seq(Bytes) : Len(x) = H[m]}
               F == [k \in 1..n |-> [x \in Seq(Bytes) |->
                       IF x \in R(n + 1 - k) THEN Revoked(x, undoable[n + 1 - k]) ELSE <<>>]]
    <3>1. F \in [1..n -> [Seq(Bytes) -> Seq(Bytes)]]
      <4>1. ASSUME NEW k \in 1..n, NEW x \in R(n + 1 - k) PROVE Revoked(x, undoable[n + 1 - k]) \in Seq(Bytes)
        <5> DEFINE m == n + 1 - k
        <5>1. m \in 1..n /\ x \in Seq(Bytes) /\ Len(x) = H[m]
          BY <1>1
        <5> HIDE DEF m
        <5>2. undoable[m] \in Groups /\ Climbs(undoable[m], H[m - 1], Len(x))
          BY <1>1, <1>2, <5>1
        <5>3. Revoked(x, undoable[m]) \in Seq(Bytes)
          BY <5>1, <5>2, TakenBack
        <5> QED
          BY <5>3 DEF m
      <4>2. <<>> \in Seq(Bytes)
        OBVIOUS
      <4> QED
        BY <4>1, <4>2
    <3> HIDE DEF F
    <3>2. PICK f : Along(f, Seq(Bytes), n, Revoked(bytes, open), F)
      BY <1>1, <3>1, Recursion
    <3>3. f[0] = Revoked(bytes, open) /\ f \in [0..n -> Seq(Bytes)] /\ \A k \in 1..n : f[k] = F[k][f[k - 1]]
      BY <3>2 DEF Along
    <3> DEFINE T == {k \in 0..n : f[k] \in R(n - k)}
    <3>4. 0 \in T
      BY <1>1, <3>3
    <3>5. ASSUME NEW k \in 1..n, k - 1 \in T PROVE k \in T /\ f[k] = Revoked(f[k - 1], undoable[n + 1 - k])
      <4>1. n + 1 - k \in 1..n /\ n - (k - 1) = n + 1 - k /\ (n + 1 - k) - 1 = n - k /\ k \in 0..n
        BY <1>1
      <4>2. f[k - 1] \in R(n + 1 - k)
        BY <3>5, <4>1
      <4> DEFINE m == n + 1 - k
                 x == f[k - 1]
      <4>3. f[k] = F[k][x] /\ x \in Seq(Bytes) /\ Len(x) = H[m]
        BY <3>3, <4>2
      <4>4. F[k][x] = Revoked(x, undoable[m])
        BY <4>2, <4>3 DEF F
      <4> HIDE DEF m, x
      <4>5. undoable[m] \in Groups /\ Climbs(undoable[m], H[n - k], Len(x))
        BY <1>1, <1>2, <4>1, <4>3 DEF m
      <4>6. f[k] \in Seq(Bytes) /\ Len(f[k]) = H[n - k]
        BY <4>3, <4>4, <4>5, TakenBack
      <4>7. f[k] = Revoked(f[k - 1], undoable[n + 1 - k])
        BY <4>3, <4>4 DEF m, x
      <4> QED
        BY <4>1, <4>6, <4>7
    <3> HIDE DEF T
    <3>6. \A k \in 0..n : k \in T
      BY <1>1, <3>4, <3>5, CountingUp
    <3>7. \A k \in 1..n : k - 1 \in 0..n
      BY <1>1
    <3>8. \A k \in 1..n : f[k] = Revoked(f[k - 1], undoable[n + 1 - k])
      BY <3>5, <3>6, <3>7
    <3>9. UndoesAll(f)
      BY <1>1, <3>3, <3>8 DEF UndoesAll
    <3> QED
      BY <3>9
  <2>2. UndoesAll(c)
    BY <2>1
  <2>3. AllUndone = c[n]
    BY DEF AllUndone, UndoesAll
  <2> QED
    BY <2>2, <2>3
<1> HIDE DEF c
<1>4. c[0] = Revoked(bytes, open) /\ \A k \in 1..n : c[k] = Revoked(c[k - 1], undoable[n + 1 - k])
  <2>1. 0 \in 0..Len(undoable) /\ \A k \in 1..n : k \in 0..Len(undoable) /\ k # 0
    BY <1>1
  <2>2. c = [k \in 0..Len(undoable) |->
               IF k = 0 THEN Revoked(bytes, open) ELSE Revoked(c[k - 1], undoable[Len(undoable) + 1 - k])]
    BY <1>3 DEF UndoesAll
  <2>3. \A k \in 0..Len(undoable) :
           c[k] = IF k = 0 THEN Revoked(bytes, open) ELSE Revoked(c[k - 1], undoable[Len(undoable) + 1 - k])
    BY <2>2, Zenon
  <2> QED
    BY <2>1, <2>3
<1> DEFINE Found(k, i) == /\ \E m \in 1..n - k : /\ Origin(undoable[m], i, base[i])
                                                 /\ \A l \in 1..n : l < m => Untouched(undoable[l], i)
           Clear(k, i) == \A m \in 1..n - k : Untouched(undoable[m], i)
           T == {k \in 0..n : /\ c[k] \in Seq(Bytes) /\ Len(c[k]) = H[n - k]
                              /\ \A i \in 1..L : Found(k, i) \/ (Clear(k, i) /\ c[k][i] = base[i])}
<1>5. 0 \in T
  <2>1. n - 0 = n /\ 0 \in 0..n
    BY <1>1
  <2>2. c[0] \in Seq(Bytes) /\ Len(c[0]) = H[n - 0]
    BY <1>4, <2>1
  <2>3. ASSUME NEW i \in 1..L PROVE Found(0, i) \/ (Clear(0, i) /\ c[0][i] = base[i])
    <3>1. Restores(undoable, i, base[i]) => Found(0, i)
      BY <2>1 DEF Restores
    <3>2. Quiet(undoable, i) => Clear(0, i)
      BY <2>1 DEF Quiet
    <3> HIDE DEF Found, Clear
    <3> QED
      BY <1>4, <3>1, <3>2
  <2> HIDE DEF Found, Clear
  <2> QED
    BY <2>1, <2>2, <2>3
<1> HIDE DEF n
<1>6. ASSUME NEW k \in 1..n, k - 1 \in T PROVE k \in T
  <2> DEFINE m == n + 1 - k
             x == c[k - 1]
  <2>1. m \in 1..n /\ n - (k - 1) = m /\ n - k = m - 1 /\ k \in 0..n /\ 1..m = 1..m - 1 \union {m} /\ m - 1 \in 0..n
    BY <1>1
  <2>2. x \in Seq(Bytes) /\ Len(x) = H[m] /\ \A i \in 1..L : Found(k - 1, i) \/ (Clear(k - 1, i) /\ x[i] = base[i])
    BY <1>6, <2>1
  <2>3. c[k] = Revoked(x, undoable[m])
    BY <1>4
  <2> HIDE DEF m, x
  <2>4. undoable[m] \in Groups /\ Climbs(undoable[m], H[m - 1], Len(x)) /\ L <= H[m - 1] /\ H[m - 1] \in Nat
    BY <1>1, <1>2, <2>1, <2>2
  <2>5. /\ c[k] \in Seq(Bytes) /\ Len(c[k]) = H[m - 1]
        /\ \A i \in 1..L : /\ Untouched(undoable[m], i) => c[k][i] = x[i]
                           /\ Origin(undoable[m], i, base[i]) => c[k][i] = base[i]
    <3>1. \A i \in 1..L : i \in 1..H[m - 1]
      BY <1>1, <2>4
    <3> QED
      BY <2>2, <2>3, <2>4, <3>1, TakenBack
  <2>6. ASSUME NEW i \in 1..L PROVE Found(k, i) \/ (Clear(k, i) /\ c[k][i] = base[i])
    <3>1. CASE Found(k - 1, i)
      <4>1. PICK j \in 1..m : /\ Origin(undoable[j], i, base[i])
                              /\ \A l \in 1..n : l < j => Untouched(undoable[l], i)
        BY <2>1, <3>1
      <4>2. CASE j = m
        <5>1. \A l \in 1..m - 1 : l \in 1..n /\ l < m
          BY <2>1, <1>1
        <5>2. Clear(k, i)
          BY <2>1, <4>1, <4>2, <5>1
        <5>3. c[k][i] = base[i]
          BY <2>5, <4>1, <4>2
        <5> HIDE DEF Found, Clear
        <5> QED
          BY <5>2, <5>3
      <4>3. CASE j # m
        BY <2>1, <4>1, <4>3
      <4> QED
        BY <4>2, <4>3
    <3>2. CASE (Clear(k - 1, i) /\ x[i] = base[i])
      BY <2>1, <2>5, <3>2
    <3> QED
      BY <2>2, <3>1, <3>2
  <2> HIDE DEF Found, Clear
  <2> QED
    BY <2>1, <2>5, <2>6
<1>7. n \in T
  <2> HIDE DEF T
  <2>1. n \in 0..n
    BY <1>1
  <2>2. \A k \in 0..n : k \in T
    BY <1>1, <1>5, <1>6, CountingUp
  <2> QED
    BY <2>1, <2>2
<1>8. c[n] \in Seq(Bytes) /\ Len(c[n]) = L /\ \A i \in 1..L : c[n][i] = base[i]
  <2>1. n - n = 0 /\ 1..0 = {}
    BY <1>1
  <2> QED
    BY <1>7, <2>1
<1> QED
  BY <1>3, <1>8, SeqEqual

Standing(gs, a, b) == \E H : Stairs(gs, H) /\ H[0] = a /\ H[Len(gs)] = b

LEMMA StandingUp ==
  ASSUME NEW gs \in Seq(Groups), NEW a, NEW b, Standing(gs, a, b)
  PROVE  a \in Nat /\ b \in Nat /\ a <= b
<1>1. PICK H : Stairs(gs, H) /\ H[0] = a /\ H[Len(gs)] = b
  BY DEF Standing
<1>2. 0 \in 0..Len(gs) /\ Len(gs) \in 0..Len(gs)
  OBVIOUS
<1> QED
  BY <1>1, <1>2, StairsGoUp DEF Stairs

LEMMA Pushed ==
  ASSUME NEW gs \in Seq(Groups), NEW g \in Groups
  PROVE  /\ \A a, b, c : Standing(gs, a, b) /\ Climbs(g, b, c) => Standing(Append(gs, g), a, c)
         /\ \A a, c : Standing(Append(gs, g), a, c) => \E b : Standing(gs, a, b) /\ Climbs(g, b, c)
<1> DEFINE s == Append(gs, g)
           n == Len(gs)
<1>1. n \in Nat /\ Len(s) = n + 1 /\ s[n + 1] = g /\ \A k \in 1..n : s[k] = gs[k]
  BY Appended
<1> HIDE DEF s
<1>2. ASSUME NEW a, NEW b, NEW c, Standing(gs, a, b), Climbs(g, b, c) PROVE Standing(s, a, c)
  <2>1. PICK H : Stairs(gs, H) /\ H[0] = a /\ H[n] = b
    BY <1>2 DEF Standing
  <2>2. c \in Nat
    BY <1>2, ClimbsUp
  <2> DEFINE r == [k \in 0..n + 1 |-> IF k = n + 1 THEN c ELSE H[k]]
  <2>3. H \in [0..n -> Nat] /\ \A k \in 1..n : Climbs(gs[k], H[k - 1], H[k])
    BY <2>1 DEF Stairs
  <2> HIDE DEF n
  <2>4. \A k \in 0..n : r[k] = H[k]
    BY <1>1
  <2>5. r[n + 1] = c /\ r[0] = a
    BY <1>1, <2>1
  <2>6. r \in [0..n + 1 -> Nat]
    BY <1>1, <2>2, <2>3
  <2> HIDE DEF r
  <2>7. ASSUME NEW k \in 1..n + 1 PROVE Climbs(s[k], r[k - 1], r[k])
    <3>1. CASE k = n + 1
      <4>1. n \in 0..n /\ k - 1 = n
        BY <1>1, <3>1
      <4> QED
        BY <1>1, <1>2, <2>1, <2>4, <2>5, <3>1, <4>1
    <3>2. CASE k # n + 1
      <4>1. k \in 1..n /\ k \in 0..n /\ k - 1 \in 0..n
        BY <1>1, <3>2
      <4> QED
        BY <1>1, <2>3, <2>4, <4>1
    <3> QED
      BY <3>1, <3>2
  <2> QED
    BY <1>1, <2>5, <2>6, <2>7 DEF Standing, Stairs
<1>3. ASSUME NEW a, NEW c, Standing(s, a, c) PROVE \E b : Standing(gs, a, b) /\ Climbs(g, b, c)
  <2>1. PICK H : Stairs(s, H) /\ H[0] = a /\ H[n + 1] = c
    BY <1>1, <1>3 DEF Standing
  <2> DEFINE r == [k \in 0..n |-> H[k]]
  <2>2. H \in [0..n + 1 -> Nat] /\ \A k \in 1..n + 1 : Climbs(s[k], H[k - 1], H[k])
    BY <1>1, <2>1 DEF Stairs
  <2>3. r \in [0..n -> Nat] /\ \A k \in 0..n : r[k] = H[k]
    BY <1>1, <2>2
  <2>4. \A k \in 1..n : k \in 1..n + 1 /\ k \in 0..n /\ k - 1 \in 0..n
    BY <1>1
  <2>5. 0 \in 0..n /\ n \in 0..n /\ n + 1 \in 1..n + 1 /\ (n + 1) - 1 = n
    BY <1>1
  <2> HIDE DEF r
  <2>6. Stairs(gs, r)
    BY <1>1, <2>2, <2>3, <2>4 DEF Stairs
  <2>7. Standing(gs, a, r[n])
    BY <2>1, <2>3, <2>5, <2>6 DEF Standing
  <2>8. Climbs(g, r[n], c)
    BY <1>1, <2>1, <2>2, <2>3, <2>5
  <2> QED
    BY <2>7, <2>8
<1> QED
  BY <1>2, <1>3 DEF s

LEMMA PushedTells ==
  ASSUME NEW gs \in Seq(Groups), NEW g \in Groups, NEW i, NEW v
  PROVE  /\ Quiet(Append(gs, g), i) <=> Quiet(gs, i) /\ Untouched(g, i)
         /\ Restores(Append(gs, g), i, v) <=> Restores(gs, i, v) \/ (Quiet(gs, i) /\ Origin(g, i, v))
         /\ RestoresBack(Append(gs, g), i, v) <=> Origin(g, i, v) \/ (Untouched(g, i) /\ RestoresBack(gs, i, v))
<1> DEFINE s == Append(gs, g)
           n == Len(gs)
<1>1. n \in Nat /\ Len(s) = n + 1 /\ s[n + 1] = g /\ \A k \in 1..n : s[k] = gs[k]
  BY Appended
<1> HIDE DEF s, n
<1>2. /\ 1..n + 1 = 1..n \union {n + 1}
      /\ \A k \in 1..n : k < n + 1 /\ ~(n + 1 < k)
      /\ ~(n + 1 < n + 1)
  BY <1>1
<1>3. Quiet(s, i) <=> Quiet(gs, i) /\ Untouched(g, i)
  BY <1>1, <1>2 DEF Quiet, n
<1>4. Restores(s, i, v) => Restores(gs, i, v) \/ (Quiet(gs, i) /\ Origin(g, i, v))
  <2> SUFFICES ASSUME NEW m \in 1..n + 1, Origin(s[m], i, v), \A l \in 1..n + 1 : l < m => Untouched(s[l], i)
               PROVE  Restores(gs, i, v) \/ (Quiet(gs, i) /\ Origin(g, i, v))
    BY <1>1 DEF Restores
  <2>1. CASE m = n + 1
    BY <1>1, <1>2, <2>1 DEF Quiet, n
  <2>2. CASE m \in 1..n
    BY <1>1, <1>2, <2>2 DEF Restores, n
  <2> QED
    BY <1>2, <2>1, <2>2
<1>5. Restores(gs, i, v) => Restores(s, i, v)
  <2> SUFFICES ASSUME NEW m \in 1..n, Origin(gs[m], i, v), \A l \in 1..n : l < m => Untouched(gs[l], i)
               PROVE  Restores(s, i, v)
    BY DEF Restores, n
  <2>1. m \in 1..n + 1 /\ Origin(s[m], i, v)
    BY <1>1, <1>2
  <2>2. \A l \in 1..n + 1 : l < m => l \in 1..n /\ Untouched(s[l], i)
    BY <1>1, <1>2
  <2> QED
    BY <1>1, <2>1, <2>2 DEF Restores
<1>6. Quiet(gs, i) /\ Origin(g, i, v) => Restores(s, i, v)
  BY <1>1, <1>2 DEF Quiet, Restores, n
<1>7. RestoresBack(s, i, v) => Origin(g, i, v) \/ (Untouched(g, i) /\ RestoresBack(gs, i, v))
  <2> SUFFICES ASSUME NEW m \in 1..n + 1, Origin(s[m], i, v), \A l \in 1..n + 1 : m < l => Untouched(s[l], i)
               PROVE  Origin(g, i, v) \/ (Untouched(g, i) /\ RestoresBack(gs, i, v))
    BY <1>1 DEF RestoresBack
  <2>1. CASE m = n + 1
    BY <1>1, <2>1
  <2>2. CASE m \in 1..n
    <3>1. Untouched(g, i)
      BY <1>1, <1>2, <2>2
    <3>2. RestoresBack(gs, i, v)
      BY <1>1, <1>2, <2>2 DEF RestoresBack, n
    <3> QED
      BY <3>1, <3>2
  <2> QED
    BY <1>2, <2>1, <2>2
<1>8. Untouched(g, i) /\ RestoresBack(gs, i, v) => RestoresBack(s, i, v)
  <2> SUFFICES ASSUME Untouched(g, i), NEW m \in 1..n, Origin(gs[m], i, v),
                      \A l \in 1..n : m < l => Untouched(gs[l], i)
               PROVE  RestoresBack(s, i, v)
    BY DEF RestoresBack, n
  <2>1. m \in 1..n + 1 /\ Origin(s[m], i, v)
    BY <1>1, <1>2
  <2>2. \A l \in 1..n + 1 : m < l => Untouched(s[l], i)
    BY <1>1, <1>2
  <2> QED
    BY <1>1, <2>1, <2>2 DEF RestoresBack
<1>9. Origin(g, i, v) => RestoresBack(s, i, v)
  <2> SUFFICES ASSUME Origin(g, i, v) PROVE RestoresBack(s, i, v)
    OBVIOUS
  <2>1. n + 1 \in 1..n + 1 /\ Origin(s[n + 1], i, v)
    BY <1>1, <1>2
  <2>2. \A l \in 1..n + 1 : ~(n + 1 < l)
    BY <1>1
  <2> QED
    BY <1>1, <2>1, <2>2 DEF RestoresBack
<1> QED
  BY <1>3, <1>4, <1>5, <1>6, <1>7, <1>8, <1>9 DEF s

LEMMA OneMoreTells ==
  ASSUME NEW g \in Groups, NEW c \in Changes, NEW i, NEW v
  PROVE  /\ Untouched(Append(g, c), i) <=> Untouched(g, i) /\ ~Sets(c, i)
         /\ Origin(g, i, v) => Origin(Append(g, c), i, v)
         /\ Untouched(g, i) /\ Sets(c, i) /\ c.old = v => Origin(Append(g, c), i, v)
<1> DEFINE s == Append(g, c)
           n == Len(g)
<1>1. n \in Nat /\ Len(s) = n + 1 /\ s[n + 1] = c /\ \A k \in 1..n : s[k] = g[k]
  BY Appended DEF Groups
<1> HIDE DEF s, n
<1>2. /\ 1..n + 1 = 1..n \union {n + 1}
      /\ \A k \in 1..n : k < n + 1 /\ ~(n + 1 < k)
      /\ ~(n + 1 < n + 1)
  BY <1>1
<1>3. Untouched(s, i) <=> Untouched(g, i) /\ ~Sets(c, i)
  BY <1>1, <1>2 DEF Untouched, n
<1>4. ASSUME Origin(g, i, v) PROVE Origin(s, i, v)
  <2>1. PICK k \in 1..n : Sets(g[k], i) /\ g[k].old = v /\ \A j \in 1..n : j < k => ~Sets(g[j], i)
    BY <1>4 DEF Origin, n
  <2>2. k \in 1..n + 1 /\ Sets(s[k], i) /\ s[k].old = v
    BY <1>1, <1>2, <2>1
  <2>3. \A j \in 1..n + 1 : j < k => ~Sets(s[j], i)
    BY <1>1, <1>2, <2>1
  <2> QED
    BY <1>1, <2>2, <2>3 DEF Origin
<1>5. ASSUME Untouched(g, i), Sets(c, i), c.old = v PROVE Origin(s, i, v)
  <2>1. n + 1 \in 1..n + 1 /\ Sets(s[n + 1], i) /\ s[n + 1].old = v
    BY <1>1, <1>2, <1>5
  <2>2. \A j \in 1..n + 1 : j < n + 1 => ~Sets(s[j], i)
    BY <1>1, <1>2, <1>5 DEF Untouched, n
  <2> QED
    BY <1>1, <2>1, <2>2 DEF Origin
<1> QED
  BY <1>3, <1>4, <1>5 DEF s

LEMMA NoneTell ==
  /\ <<>> \in Groups /\ <<>> \in Seq(Groups)
  /\ \A i, v : ~Origin(<<>>, i, v) /\ Untouched(<<>>, i) /\ Quiet(<<>>, i) /\ ~Restores(<<>>, i, v) /\ ~RestoresBack(<<>>, i, v)
  /\ \A a, b : Climbs(<<>>, a, b) => a = b
  /\ \A a \in Nat : Climbs(<<>>, a, a) /\ Standing(<<>>, a, a)
<1>1. <<>> \in Groups /\ <<>> \in Seq(Groups) /\ Len(<<>>) = 0
  BY DEF Groups
<1>2. \A i, v : ~Origin(<<>>, i, v) /\ Untouched(<<>>, i) /\ Quiet(<<>>, i) /\ ~Restores(<<>>, i, v) /\ ~RestoresBack(<<>>, i, v)
  BY <1>1 DEF Origin, Untouched, Quiet, Restores, RestoresBack
<1>3. \A a, b : Climbs(<<>>, a, b) => a = b
  BY <1>1 DEF Climbs
<1>4. ASSUME NEW a \in Nat PROVE Climbs(<<>>, a, a) /\ Standing(<<>>, a, a)
  <2> DEFINE h == [k \in 0..0 |-> a]
  <2>1. h \in [0..0 -> Nat] /\ h[0] = a /\ 1..0 = {}
    OBVIOUS
  <2> HIDE DEF h
  <2> QED
    BY <1>1, <2>1 DEF Climbs, Rungs, Standing, Stairs
<1> QED
  BY <1>1, <1>2, <1>3, <1>4

-----------------------------------------------------------------------------
(* What undo, redo and the open group owe to the bytes that were loaded *)

\* A group over data: the first change of it at byte i found v there, or v is there.
Says(data, g, i, v) == Origin(g, i, v) \/ (Untouched(g, i) /\ data[i] = v)

\* data: the bytes, with the open group g, the groups us that can be undone and rs that
\* can be redone; b: what was loaded.  The open group is above the undo stack, and so is
\* what will be redone, whichever of the two comes first.
Undoing(data, g, us, rs, b) ==
    /\ \E a : Standing(us, Len(b), a) /\ Climbs(g, a, Len(data))
    /\ \A i \in 1..Len(b) :
         \/ Restores(us, i, b[i])
         \/ /\ Quiet(us, i)
            /\ Says(data, g, i, b[i])
            /\ RestoresBack(rs, i, b[i]) \/ Quiet(rs, i)

\* Changes that are recorded: data and g become d and h.
Records(data, g, d, h) ==
    /\ d \in Seq(Bytes) /\ h \in Groups
    /\ \A a : Climbs(g, a, Len(data)) => Climbs(h, a, Len(d))
    /\ \A i \in 1..Len(data) : \A v : Says(data, g, i, v) => Says(d, h, i, v)

LEMMA UndoingUp ==
  ASSUME NEW data \in Seq(Bytes), NEW g \in Groups, NEW us \in Seq(Groups), NEW rs, NEW b \in Seq(Bytes),
         Undoing(data, g, us, rs, b)
  PROVE  \E a \in Nat : /\ Standing(us, Len(b), a) /\ Climbs(g, a, Len(data))
                        /\ Len(b) <= a /\ a <= Len(data)
<1>1. PICK a : Standing(us, Len(b), a) /\ Climbs(g, a, Len(data))
  BY DEF Undoing
<1> QED
  BY <1>1, StandingUp, ClimbsUp

LEMMA RecordedOn ==
  ASSUME NEW data \in Seq(Bytes), NEW g \in Groups, NEW us \in Seq(Groups), NEW rs, NEW b \in Seq(Bytes),
         Undoing(data, g, us, rs, b), NEW d, NEW h, Records(data, g, d, h)
  PROVE  Undoing(d, h, us, rs, b)
<1>1. PICK a \in Nat : /\ Standing(us, Len(b), a) /\ Climbs(g, a, Len(data))
                       /\ Len(b) <= a /\ a <= Len(data)
  BY UndoingUp
<1>2. Climbs(h, a, Len(d))
  BY <1>1 DEF Records
<1>3. \A i \in 1..Len(b) : i \in 1..Len(data)
  BY <1>1
<1>4. \A i \in 1..Len(b) : Says(data, g, i, b[i]) => Says(d, h, i, b[i])
  BY <1>3 DEF Records
<1> QED
  BY <1>1, <1>2, <1>4 DEF Undoing

LEMMA ClosedOff ==
  ASSUME NEW data \in Seq(Bytes), NEW g \in Groups, NEW us \in Seq(Groups), NEW rs, NEW b \in Seq(Bytes),
         Undoing(data, g, us, rs, b)
  PROVE  Undoing(data, <<>>, Append(us, g), <<>>, b)
<1>1. Len(data) \in Nat
  OBVIOUS
<1>2. \E a : Standing(Append(us, g), Len(b), a) /\ Climbs(<<>>, a, Len(data))
  BY <1>1, Pushed, NoneTell DEF Undoing
<1>3. ASSUME NEW i \in 1..Len(b)
      PROVE  \/ Restores(Append(us, g), i, b[i])
             \/ /\ Quiet(Append(us, g), i)
                /\ Says(data, <<>>, i, b[i])
                /\ RestoresBack(<<>>, i, b[i]) \/ Quiet(<<>>, i)
  <2>1. \/ Restores(us, i, b[i])
        \/ Quiet(us, i) /\ Says(data, g, i, b[i])
    BY DEF Undoing
  <2>2. Says(data, <<>>, i, b[i]) <=> data[i] = b[i]
    BY NoneTell DEF Says
  <2> QED
    BY <2>1, <2>2, PushedTells, NoneTell DEF Says
<1> QED
  BY <1>2, <1>3 DEF Undoing

LEMMA UndoneOpen ==
  ASSUME NEW data \in Seq(Bytes), NEW g \in Groups, NEW us \in Seq(Groups), NEW rs, NEW b \in Seq(Bytes),
         Undoing(data, g, us, rs, b)
  PROVE  Revoked(data, g) \in Seq(Bytes) /\ Undoing(Revoked(data, g), <<>>, us, <<g>>, b)
<1>1. PICK a \in Nat : /\ Standing(us, Len(b), a) /\ Climbs(g, a, Len(data))
                       /\ Len(b) <= a /\ a <= Len(data)
  BY UndoingUp
<1> DEFINE d == Revoked(data, g)
<1>2. /\ d \in Seq(Bytes) /\ Len(d) = a
      /\ \A i \in 1..a : Untouched(g, i) => d[i] = data[i]
      /\ \A i \in 1..a : \A v : Origin(g, i, v) => d[i] = v
  BY <1>1, TakenBack
<1> HIDE DEF d
<1>3. \E x : Standing(us, Len(b), x) /\ Climbs(<<>>, x, Len(d))
  BY <1>1, <1>2, NoneTell
<1>4. ASSUME NEW i \in 1..Len(b)
      PROVE  \/ Restores(us, i, b[i])
             \/ /\ Quiet(us, i)
                /\ Says(d, <<>>, i, b[i])
                /\ RestoresBack(<<g>>, i, b[i]) \/ Quiet(<<g>>, i)
  <2>1. i \in 1..a
    BY <1>1
  <2>2. \/ Restores(us, i, b[i])
        \/ Quiet(us, i) /\ Says(data, g, i, b[i])
    BY DEF Undoing
  <2>3. Says(data, g, i, b[i]) => d[i] = b[i]
    BY <1>2, <2>1 DEF Says
  <2>4. Says(d, <<>>, i, b[i]) <=> d[i] = b[i]
    BY NoneTell DEF Says
  <2>5. <<g>> = Append(<<>>, g)
    <3> DEFINE s == <<g>>
               t == Append(<<>>, g)
    <3>1. s \in Seq(Groups) /\ Len(s) = 1 /\ s[1] = g
      OBVIOUS
    <3>2. t \in Seq(Groups) /\ Len(t) = 1 /\ t[1] = g
      BY NoneTell
    <3>3. \A k \in 1..Len(s) : s[k] = t[k]
      BY <3>1, <3>2
    <3> HIDE DEF s, t
    <3>4. s = t
      BY <3>1, <3>2, <3>3, SeqEqual
    <3> QED
      BY <3>4 DEF s, t
  <2>6. Says(data, g, i, b[i]) => RestoresBack(<<g>>, i, b[i]) \/ Quiet(<<g>>, i)
    <3>1. /\ RestoresBack(Append(<<>>, g), i, b[i]) <=> Origin(g, i, b[i]) \/ (Untouched(g, i) /\ RestoresBack(<<>>, i, b[i]))
          /\ Quiet(Append(<<>>, g), i) <=> Quiet(<<>>, i) /\ Untouched(g, i)
      BY NoneTell, PushedTells
    <3> QED
      BY <2>5, <3>1, NoneTell DEF Says
  <2> QED
    BY <2>2, <2>3, <2>4, <2>6
<1> QED
  BY <1>2, <1>3, <1>4 DEF Undoing, d

LEMMA UndoneLast ==
  ASSUME NEW data \in Seq(Bytes), NEW g \in Groups, NEW us \in Seq(Groups), NEW rs \in Seq(Groups),
         NEW b \in Seq(Bytes), Undoing(data, <<>>, Append(us, g), rs, b)
  PROVE  Revoked(data, g) \in Seq(Bytes) /\ Undoing(Revoked(data, g), <<>>, us, Append(rs, g), b)
<1>1. Standing(Append(us, g), Len(b), Len(data))
  BY NoneTell DEF Undoing
<1>2. PICK a : Standing(us, Len(b), a) /\ Climbs(g, a, Len(data))
  BY <1>1, Pushed
<1>3. a \in Nat /\ Len(b) \in Nat /\ Len(b) <= a
  BY <1>2, StandingUp
<1> DEFINE d == Revoked(data, g)
<1>4. /\ d \in Seq(Bytes) /\ Len(d) = a
      /\ \A i \in 1..a : Untouched(g, i) => d[i] = data[i]
      /\ \A i \in 1..a : \A v : Origin(g, i, v) => d[i] = v
  BY <1>2, TakenBack
<1> HIDE DEF d
<1>5. \E x : Standing(us, Len(b), x) /\ Climbs(<<>>, x, Len(d))
  BY <1>2, <1>3, <1>4, NoneTell
<1>6. ASSUME NEW i \in 1..Len(b)
      PROVE  \/ Restores(us, i, b[i])
             \/ /\ Quiet(us, i)
                /\ Says(d, <<>>, i, b[i])
                /\ RestoresBack(Append(rs, g), i, b[i]) \/ Quiet(Append(rs, g), i)
  <2>1. i \in 1..a
    BY <1>3
  <2>2. \/ Restores(Append(us, g), i, b[i])
        \/ /\ Quiet(Append(us, g), i)
           /\ Says(data, <<>>, i, b[i])
           /\ RestoresBack(rs, i, b[i]) \/ Quiet(rs, i)
    BY DEF Undoing
  <2>3. Says(d, <<>>, i, b[i]) <=> d[i] = b[i]
    BY NoneTell DEF Says
  <2>4. Says(data, <<>>, i, b[i]) <=> data[i] = b[i]
    BY NoneTell DEF Says
  <2>5. /\ Untouched(g, i) => d[i] = data[i]
        /\ Origin(g, i, b[i]) => d[i] = b[i]
    BY <1>4, <2>1
  <2>6. /\ Restores(Append(us, g), i, b[i]) => Restores(us, i, b[i]) \/ (Quiet(us, i) /\ Origin(g, i, b[i]))
        /\ Quiet(Append(us, g), i) => Quiet(us, i) /\ Untouched(g, i)
        /\ Quiet(rs, i) /\ Untouched(g, i) => Quiet(Append(rs, g), i)
        /\ RestoresBack(rs, i, b[i]) /\ Untouched(g, i) => RestoresBack(Append(rs, g), i, b[i])
        /\ Origin(g, i, b[i]) => RestoresBack(Append(rs, g), i, b[i])
    BY PushedTells
  <2> QED
    BY <2>2, <2>3, <2>4, <2>5, <2>6
<1> QED
  BY <1>4, <1>5, <1>6 DEF Undoing, d

\* The group that is redone goes under the open one, which has as many bytes above it.
LEMMA RedoneLast ==
  ASSUME NEW data \in Seq(Bytes), NEW o \in Groups, NEW g \in Groups, NEW us \in Seq(Groups),
         NEW rs \in Seq(Groups), NEW b \in Seq(Bytes), Undoing(data, o, us, Append(rs, g), b)
  PROVE  Reapplied(data, g) \in Seq(Bytes) /\ Undoing(Reapplied(data, g), o, Append(us, g), rs, b)
<1>1. PICK a \in Nat : /\ Standing(us, Len(b), a) /\ Climbs(o, a, Len(data))
                       /\ Len(b) <= a /\ a <= Len(data)
  BY UndoingUp
<1>2. PICK c \in Nat : Climbs(g, a, c)
  BY SomeClimb
<1>3. Len(data) \in Nat /\ a <= c /\ c - a \in Nat
  BY <1>2, ClimbsUp
<1> DEFINE n == Len(data) + (c - a)
           d == Reapplied(data, g)
<1>4. Climbs(g, Len(data), n)
  BY <1>2, <1>3, ClimbsFrom
<1>5. d \in Seq(Bytes) /\ Len(d) = n /\ \A i \in 1..Len(data) : Untouched(g, i) => d[i] = data[i]
  BY <1>4, AppliedAgain
<1>6. Climbs(o, c, n)
  <2>1. c + (Len(data) - a) = n
    BY <1>1, <1>3
  <2>2. Climbs(o, c, c + (Len(data) - a))
    BY <1>1, <1>3, ClimbsFrom
  <2> QED
    BY <2>1, <2>2
<1> HIDE DEF n, d
<1>7. \E x : Standing(Append(us, g), Len(b), x) /\ Climbs(o, x, Len(d))
  BY <1>1, <1>2, <1>5, <1>6, Pushed
<1>8. ASSUME NEW i \in 1..Len(b)
      PROVE  \/ Restores(Append(us, g), i, b[i])
             \/ /\ Quiet(Append(us, g), i)
                /\ Says(d, o, i, b[i])
                /\ RestoresBack(rs, i, b[i]) \/ Quiet(rs, i)
  <2>1. i \in 1..Len(data)
    BY <1>1, <1>3
  <2>2. \/ Restores(us, i, b[i])
        \/ /\ Quiet(us, i)
           /\ Says(data, o, i, b[i])
           /\ RestoresBack(Append(rs, g), i, b[i]) \/ Quiet(Append(rs, g), i)
    BY DEF Undoing
  <2>3. Untouched(g, i) /\ Says(data, o, i, b[i]) => Says(d, o, i, b[i])
    BY <1>5, <2>1 DEF Says
  <2>4. /\ Restores(us, i, b[i]) => Restores(Append(us, g), i, b[i])
        /\ Quiet(us, i) /\ Origin(g, i, b[i]) => Restores(Append(us, g), i, b[i])
        /\ Quiet(us, i) /\ Untouched(g, i) => Quiet(Append(us, g), i)
        /\ RestoresBack(Append(rs, g), i, b[i]) => Origin(g, i, b[i]) \/ (Untouched(g, i) /\ RestoresBack(rs, i, b[i]))
        /\ Quiet(Append(rs, g), i) => Quiet(rs, i) /\ Untouched(g, i)
    BY PushedTells
  <2> QED
    BY <2>2, <2>3, <2>4
<1> QED
  BY <1>5, <1>7, <1>8 DEF Undoing, d

LEMMA JustLoaded ==
  ASSUME NEW b \in Seq(Bytes)
  PROVE  Undoing(b, <<>>, <<>>, <<>>, b)
<1>1. Len(b) \in Nat
  OBVIOUS
<1> QED
  BY <1>1, NoneTell DEF Undoing, Says

-----------------------------------------------------------------------------
(* Keys *)

ByteEdits == [data : Seq(Bytes), group : Groups]

LEMMA SetByteRecords ==
  ASSUME NEW e \in ByteEdits, NEW i \in Nat \ {0}, NEW b \in Bytes
  PROVE  /\ SetByte(e, i, b) \in ByteEdits
         /\ Len(SetByte(e, i, b).data) = Len(e.data)
         /\ Records(e.data, e.group, SetByte(e, i, b).data, SetByte(e, i, b).group)
<1> DEFINE d == e.data
           g == e.group
           f == [d EXCEPT ![i] = b]
           c == [at |-> i, old |-> d[i], new |-> b, grows |-> FALSE]
<1>1. d \in Seq(Bytes) /\ g \in Groups /\ Len(d) \in Nat
  BY DEF ByteEdits
<1>2. CASE i > Len(d) \/ d[i] = b
  <2>1. SetByte(e, i, b) = e
    BY <1>2 DEF SetByte
  <2> QED
    BY <1>1, <2>1 DEF Records
<1>3. CASE ~(i > Len(d) \/ d[i] = b)
  <2>1. SetByte(e, i, b) = [data |-> f, group |-> Append(g, c)]
    BY <1>3 DEF SetByte
  <2>2. i \in 1..Len(d)
    BY <1>1, <1>3
  <2>3. f \in Seq(Bytes) /\ Len(f) = Len(d) /\ \A j \in 1..Len(d) : j # i => f[j] = d[j]
    BY <1>1, <2>2
  <2>4. c \in Changes
    BY <1>1, <2>2 DEF Changes
  <2>5. c.at = i /\ c.old = d[i] /\ ~c.grows
    OBVIOUS
  <2> HIDE DEF d, g, f, c
  <2>6. Append(g, c) \in Groups
    BY <1>1, <2>4 DEF Groups
  <2>7. ASSUME NEW a, Climbs(g, a, Len(d)) PROVE Climbs(Append(g, c), a, Len(f))
    <3>1. a \in Nat
      BY <1>1, <2>7, ClimbsUp
    <3>2. Climbs(Append(g, c), a, Len(d) + (IF c.grows THEN 1 ELSE 0))
      BY <1>1, <2>4, <2>7, <3>1, OneMoreRung
    <3> QED
      BY <1>1, <2>3, <2>5, <3>2
  <2>8. ASSUME NEW j \in 1..Len(d), NEW v, Says(d, g, j, v) PROVE Says(f, Append(g, c), j, v)
    <3>1. Sets(c, j) <=> j = i
      BY <2>5 DEF Sets
    <3> QED
      BY <1>1, <2>3, <2>4, <2>5, <2>8, <3>1, OneMoreTells DEF Says
  <2>9. Records(d, g, f, Append(g, c))
    BY <2>3, <2>6, <2>7, <2>8 DEF Records
  <2> QED
    BY <2>1, <2>3, <2>6, <2>9 DEF ByteEdits, d, g
<1> QED
  BY <1>2, <1>3

LEMMA AppendByteRecords ==
  ASSUME NEW e \in ByteEdits, NEW b \in Bytes
  PROVE  /\ AppendByte(e, b) \in ByteEdits
         /\ Len(AppendByte(e, b).data) = Len(e.data) + 1
         /\ Records(e.data, e.group, AppendByte(e, b).data, AppendByte(e, b).group)
<1> DEFINE d == e.data
           g == e.group
           f == Append(d, b)
           c == [at |-> Len(d) + 1, old |-> Zero, new |-> b, grows |-> TRUE]
<1>1. d \in Seq(Bytes) /\ g \in Groups /\ Len(d) \in Nat
  BY DEF ByteEdits
<1>2. AppendByte(e, b) = [data |-> f, group |-> Append(g, c)]
  BY DEF AppendByte
<1>3. f \in Seq(Bytes) /\ Len(f) = Len(d) + 1 /\ \A j \in 1..Len(d) : f[j] = d[j]
  BY <1>1, Appended
<1>4. c \in Changes
  BY <1>1, HexAssumption DEF Changes, Zero, Bytes
<1>5. c.grows
  OBVIOUS
<1> HIDE DEF d, g, f, c
<1>6. Append(g, c) \in Groups
  BY <1>1, <1>4 DEF Groups
<1>7. ASSUME NEW a, Climbs(g, a, Len(d)) PROVE Climbs(Append(g, c), a, Len(f))
  <2>1. a \in Nat
    BY <1>1, <1>7, ClimbsUp
  <2>2. Climbs(Append(g, c), a, Len(d) + (IF c.grows THEN 1 ELSE 0))
    BY <1>1, <1>4, <1>7, <2>1, OneMoreRung
  <2> QED
    BY <1>1, <1>3, <1>5, <2>2
<1>8. ASSUME NEW j \in 1..Len(d), NEW v, Says(d, g, j, v) PROVE Says(f, Append(g, c), j, v)
  <2>1. ~Sets(c, j)
    BY <1>5 DEF Sets
  <2> QED
    BY <1>1, <1>3, <1>4, <1>8, <2>1, OneMoreTells DEF Says
<1>9. Records(d, g, f, Append(g, c))
  BY <1>3, <1>6, <1>7, <1>8 DEF Records
<1> QED
  BY <1>2, <1>3, <1>6, <1>9 DEF ByteEdits, d, g

LEMMA RecordsOn ==
  ASSUME NEW e \in ByteEdits, NEW f \in ByteEdits, NEW h \in ByteEdits, Len(e.data) <= Len(f.data),
         Records(e.data, e.group, f.data, f.group), Records(f.data, f.group, h.data, h.group)
  PROVE  Records(e.data, e.group, h.data, h.group)
<1>1. \A i \in 1..Len(e.data) : i \in 1..Len(f.data)
  BY DEF ByteEdits
<1> QED
  BY <1>1 DEF Records

HexInv ==
    /\ bytes \in Seq(Bytes) /\ onFile \in Seq(Bytes) /\ base \in Seq(Bytes)
    /\ open \in Groups /\ undoable \in Seq(Groups) /\ redoable \in Seq(Groups)
    /\ offset \in Nat /\ nibble \in {0, 1}
    /\ Undoing(bytes, open, undoable, redoable, base)

\* A key that makes a byte at the end has a group with it.
LEMMA RoomRecords ==
  ASSUME HexInv, offset <= Len(bytes)
  PROVE  /\ Room \in ByteEdits /\ offset + 1 \in 1..Len(Room.data) /\ Len(bytes) <= Len(Room.data)
         /\ Records(bytes, open, Room.data, Room.group)
<1> DEFINE e == [data |-> bytes, group |-> open]
<1>1. e \in ByteEdits /\ Zero \in Bytes /\ offset \in Nat /\ Len(bytes) \in Nat
  BY HexAssumption DEF HexInv, ByteEdits, Zero, Bytes
<1>2. e.data = bytes /\ e.group = open
  OBVIOUS
<1>3. CASE offset = Len(bytes)
  <2>1. Room = AppendByte(e, Zero)
    BY <1>3 DEF Room
  <2> HIDE DEF e
  <2> QED
    BY <1>1, <1>2, <1>3, <2>1, AppendByteRecords
<1>4. CASE offset # Len(bytes)
  <2>1. Room = e
    BY <1>4 DEF Room
  <2>2. Records(bytes, open, bytes, open)
    BY DEF HexInv, Records
  <2> HIDE DEF e
  <2> QED
    BY <1>1, <1>2, <1>4, <2>1, <2>2
<1> QED
  BY <1>3, <1>4

\* A key that sets the byte under the cursor.
LEMMA TypedRecords ==
  ASSUME HexInv, offset <= Len(bytes), NEW b \in Bytes
  PROVE  LET e == SetByte(Room, offset + 1, b)
         IN  e \in ByteEdits /\ Records(bytes, open, e.data, e.group)
<1> DEFINE f == Room
           h == SetByte(f, offset + 1, b)
           e == [data |-> bytes, group |-> open]
<1>1. /\ f \in ByteEdits /\ Len(bytes) <= Len(f.data) /\ Records(bytes, open, f.data, f.group)
      /\ offset + 1 \in Nat \ {0}
  BY RoomRecords DEF HexInv
<1>2. e \in ByteEdits /\ e.data = bytes /\ e.group = open
  BY DEF HexInv, ByteEdits
<1> HIDE DEF f, e
<1>3. h \in ByteEdits /\ Records(f.data, f.group, h.data, h.group)
  BY <1>1, SetByteRecords
<1> HIDE DEF h
<1>4. Records(bytes, open, h.data, h.group)
  BY <1>1, <1>2, <1>3, RecordsOn
<1> QED
  BY <1>3, <1>4 DEF f, h

\* What is recorded stays in the open group, or closes it.
LEMMA KeyKeeps ==
  ASSUME HexInv, NEW d, NEW g, Records(bytes, open, d, g), bytes' = d,
         \/ open' = g /\ UNCHANGED <<undoable, redoable>>
         \/ Closed(g),
         UNCHANGED <<onFile, base>>, offset' \in Nat, nibble' \in {0, 1}
  PROVE  HexInv'
<1>1. d \in Seq(Bytes) /\ g \in Groups
  BY DEF Records
<1>2. Undoing(d, g, undoable, redoable, base)
  BY RecordedOn DEF HexInv
<1>3. CASE open' = g /\ UNCHANGED <<undoable, redoable>>
  BY <1>1, <1>2, <1>3 DEF HexInv
<1>4. CASE undoable' = Append(undoable, g) /\ redoable' = <<>> /\ open' = <<>>
  <2>1. Undoing(d, <<>>, Append(undoable, g), <<>>, base)
    BY <1>1, <1>2, ClosedOff DEF HexInv
  <2>2. Append(undoable, g) \in Seq(Groups) /\ <<>> \in Seq(Groups) /\ <<>> \in Groups
    BY <1>1, NoneTell DEF HexInv
  <2> QED
    BY <1>1, <1>4, <2>1, <2>2 DEF HexInv
<1> QED
  BY <1>3, <1>4 DEF Closed

LEMMA LastOfSome ==
  ASSUME NEW gs \in Seq(Groups), gs # <<>>
  PROVE  Front(gs) \in Seq(Groups) /\ Last(gs) \in Groups /\ gs = Append(Front(gs), Last(gs))
<1> DEFINE n == Len(gs)
           f == SubSeq(gs, 1, n - 1)
           s == Append(f, gs[n])
<1>1. n \in Nat \ {0}
  OBVIOUS
<1>2. gs[n] \in Groups
  BY <1>1
<1> HIDE DEF n
<1>3. f \in Seq(Groups) /\ Len(f) = n - 1 /\ \A k \in 1..n - 1 : f[k] = gs[k]
  <2>1. 1 \in 1..n + 1 /\ n - 1 \in 0..n /\ Len(gs) = n /\ n - 1 >= 0 /\ 1 <= n
    BY <1>1 DEF n
  <2>2. \A k \in 1..n - 1 : gs[k] \in Groups
    BY <2>1
  <2> QED
    BY <1>1, <2>1, <2>2, SubSeqProperties
<1> HIDE DEF f
<1>4. s \in Seq(Groups) /\ Len(s) = n /\ s[n] = gs[n] /\ \A k \in 1..n - 1 : s[k] = gs[k]
  BY <1>1, <1>2, <1>3, Appended
<1>5. \A k \in 1..n : s[k] = gs[k]
  BY <1>1, <1>4
<1> HIDE DEF s
<1>6. s = gs
  <2>1. Len(s) = Len(gs) /\ \A k \in 1..Len(s) : s[k] = gs[k]
    BY <1>4, <1>5 DEF n
  <2> QED
    BY <1>4, <2>1, SeqEqual
<1> QED
  BY <1>2, <1>3, <1>6 DEF Front, Last, f, s, n

LEMMA HexStep == HexInv /\ [HexNext]_hexVars => HexInv'
<1> SUFFICES ASSUME HexInv, [HexNext]_hexVars PROVE HexInv'
  OBVIOUS
<1>0. Records(bytes, open, bytes, open)
  BY DEF HexInv, Records
<1>1. ASSUME NEW n \in Nibbles, Digit(n) PROVE HexInv'
  <2> DEFINE b == Room.data[offset + 1]
             c == IF nibble = 0 THEN <<n, b[2]>> ELSE <<b[1], n>>
             e == SetByte(Room, offset + 1, c)
  <2>1. offset <= Len(bytes) /\ UNCHANGED <<onFile, base>>
    BY <1>1 DEF Digit
  <2>2. b \in Bytes
    BY <2>1, RoomRecords DEF ByteEdits
  <2> HIDE DEF b
  <2>3. c \in Bytes
    BY <2>2 DEF Bytes
  <2>4. /\ bytes' = e.data
        /\ IF nibble = 0 THEN open' = e.group /\ nibble' = 1 /\ UNCHANGED <<offset, undoable, redoable>>
           ELSE Closed(e.group) /\ nibble' = 0 /\ offset' = offset + 1
    BY <1>1 DEF Digit, b
  <2> HIDE DEF c
  <2>5. Records(bytes, open, e.data, e.group)
    BY <2>1, <2>3, TypedRecords
  <2> HIDE DEF e
  <2>6. offset' \in Nat /\ nibble' \in {0, 1}
    BY <2>4 DEF HexInv
  <2> QED
    BY <2>1, <2>4, <2>5, <2>6, KeyKeeps
<1>2. ASSUME NEW b \in Bytes, Character(b) PROVE HexInv'
  <2> DEFINE e == SetByte(Room, offset + 1, b)
  <2>1. offset <= Len(bytes) /\ UNCHANGED <<onFile, base, nibble>>
    BY <1>2 DEF Character
  <2>2. Records(bytes, open, e.data, e.group)
    BY <2>1, TypedRecords
  <2>3. bytes' = e.data /\ Closed(e.group) /\ offset' = offset + 1
    BY <1>2 DEF Character
  <2> HIDE DEF e
  <2>4. offset' \in Nat /\ nibble' \in {0, 1}
    BY <2>1, <2>3 DEF HexInv
  <2> QED
    BY <2>1, <2>2, <2>3, <2>4, KeyKeeps
<1>3. ASSUME Left \/ Right \/ Tab \/ \E to \in 0..MaxSize, n \in {0, 1} : Leaps(to, n) PROVE HexInv'
  <2>1. UNCHANGED <<bytes, onFile, base>> /\ Closed(open)
    BY <1>3 DEF Left, Right, Tab, Leaps
  <2>2. offset' \in Nat /\ nibble' \in {0, 1}
    <3>1. CASE Left
      BY <3>1 DEF Left, HexInv
    <3>2. CASE Right
      BY <3>2 DEF Right, HexInv
    <3>3. CASE Tab
      BY <3>3 DEF Tab, HexInv
    <3>4. CASE \E to \in 0..MaxSize, n \in {0, 1} : Leaps(to, n)
      BY <3>4 DEF Leaps
    <3> QED
      BY <1>3, <3>1, <3>2, <3>3, <3>4
  <2> QED
    BY <1>0, <2>1, <2>2, KeyKeeps
<1>4. CASE Undo
  <2>1. UNCHANGED <<onFile, base, offset, nibble>>
    BY <1>4 DEF Undo
  <2>2. CASE open = <<>> /\ undoable = <<>>
    BY <1>4, <2>1, <2>2 DEF Undo, HexInv
  <2>3. CASE open # <<>>
    <3>1. bytes' = Revoked(bytes, open) /\ undoable' = undoable /\ redoable' = <<open>> /\ open' = <<>>
      BY <1>4, <2>3 DEF Undo
    <3>2. Revoked(bytes, open) \in Seq(Bytes) /\ Undoing(Revoked(bytes, open), <<>>, undoable, <<open>>, base)
      BY UndoneOpen DEF HexInv
    <3>3. <<open>> \in Seq(Groups) /\ <<>> \in Groups
      BY NoneTell DEF HexInv
    <3> QED
      BY <2>1, <3>1, <3>2, <3>3 DEF HexInv
  <2>4. CASE open = <<>> /\ undoable # <<>>
    <3> DEFINE us == Front(undoable)
               g == Last(undoable)
    <3>1. bytes' = Revoked(bytes, g) /\ undoable' = us /\ redoable' = Append(redoable, g) /\ open' = <<>>
      BY <1>4, <2>4 DEF Undo
    <3>2. us \in Seq(Groups) /\ g \in Groups /\ undoable = Append(us, g)
      BY <2>4, LastOfSome DEF HexInv
    <3> HIDE DEF us, g
    <3>3. Undoing(bytes, <<>>, Append(us, g), redoable, base)
      BY <2>4, <3>2 DEF HexInv
    <3>4. Revoked(bytes, g) \in Seq(Bytes) /\ Undoing(Revoked(bytes, g), <<>>, us, Append(redoable, g), base)
      BY <3>2, <3>3, UndoneLast DEF HexInv
    <3>5. Append(redoable, g) \in Seq(Groups) /\ <<>> \in Groups
      BY <3>2, NoneTell DEF HexInv
    <3> QED
      BY <2>1, <3>1, <3>2, <3>4, <3>5 DEF HexInv
  <2> QED
    BY <2>2, <2>3, <2>4
<1>5. CASE Redo
  <2> DEFINE rs == Front(redoable)
             g == Last(redoable)
  <2>1. /\ UNCHANGED <<onFile, base, offset, nibble, open>> /\ bytes' = Reapplied(bytes, g)
        /\ undoable' = Append(undoable, g) /\ redoable' = rs
    BY <1>5 DEF Redo, RedoneGroup
  <2>2. rs \in Seq(Groups) /\ g \in Groups /\ redoable = Append(rs, g)
    BY <1>5, LastOfSome DEF HexInv, Redo
  <2> HIDE DEF rs, g
  <2>3. Undoing(bytes, open, undoable, Append(rs, g), base)
    BY <2>2 DEF HexInv
  <2>4. Reapplied(bytes, g) \in Seq(Bytes) /\ Undoing(Reapplied(bytes, g), open, Append(undoable, g), rs, base)
    BY <2>2, <2>3, RedoneLast DEF HexInv
  <2>5. Append(undoable, g) \in Seq(Groups)
    BY <2>2 DEF HexInv
  <2> QED
    BY <2>1, <2>2, <2>4, <2>5 DEF HexInv
<1>6. CASE SavesBytes
  BY <1>6 DEF SavesBytes, HexInv
<1>7. CASE LoadsBytes
  <2>1. Undoing(onFile, <<>>, <<>>, <<>>, onFile)
    BY JustLoaded DEF HexInv
  <2> QED
    BY <1>7, <2>1, NoneTell DEF LoadsBytes, HexInv
<1>8. CASE UNCHANGED hexVars
  BY <1>8 DEF hexVars, HexInv
<1>9. ASSUME NEW n \in Nibbles, NEW m \in Nibbles, Character(<<n, m>>) PROVE HexInv'
  BY <1>2, <1>9 DEF Bytes
<1> QED
  BY <1>1, <1>3, <1>4, <1>5, <1>6, <1>7, <1>8, <1>9 DEF HexNext

\* Undoing everything gives the bytes that were loaded, however keys, undos, redos and
\* saves followed each other, for any file and any number of keys.
THEOREM AllCanBeUndone == HexSpec => []UndoesToLoaded
<1>1. HexInit => HexInv
  <2> SUFFICES ASSUME HexInit PROVE HexInv
    OBVIOUS
  <2>1. Loaded \in Seq(Bytes)
    BY HexAssumption DEF Bytes
  <2>2. Undoing(Loaded, <<>>, <<>>, <<>>, Loaded)
    BY <2>1, JustLoaded
  <2> QED
    BY <2>1, <2>2, NoneTell DEF HexInit, HexInv
<1>2. HexInv => UndoesToLoaded
  <2> SUFFICES ASSUME HexInv PROVE AllUndone = base
    BY DEF UndoesToLoaded
  <2> DEFINE d == Revoked(bytes, open)
  <2>1. PICK a \in Nat : /\ Standing(undoable, Len(base), a) /\ Climbs(open, a, Len(bytes))
                         /\ Len(base) <= a /\ a <= Len(bytes)
    BY UndoingUp DEF HexInv
  <2>2. /\ d \in Seq(Bytes) /\ Len(d) = a
        /\ \A i \in 1..a : Untouched(open, i) => d[i] = bytes[i]
        /\ \A i \in 1..a : \A v : Origin(open, i, v) => d[i] = v
    BY <2>1, TakenBack DEF HexInv
  <2> HIDE DEF d
  <2>3. PICK H : Stairs(undoable, H) /\ H[0] = Len(base) /\ H[Len(undoable)] = a
    BY <2>1 DEF Standing
  <2>4. ASSUME NEW i \in 1..Len(base)
        PROVE  \/ Restores(undoable, i, base[i])
               \/ Quiet(undoable, i) /\ d[i] = base[i]
    <3>1. i \in 1..a
      BY <2>1 DEF HexInv
    <3>2. \/ Restores(undoable, i, base[i])
          \/ Quiet(undoable, i) /\ Says(bytes, open, i, base[i])
      BY DEF HexInv, Undoing
    <3> QED
      BY <2>2, <3>1, <3>2 DEF Says
  <2> QED
    BY <2>2, <2>3, <2>4, AllTakenBack DEF HexInv, d
<1> QED
  BY <1>1, <1>2, HexStep, PTL DEF HexSpec
=============================================================================
