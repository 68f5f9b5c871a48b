------------------------- MODULE ConversationProofs -------------------------
(* What is kept of a conversation, and the comments a review makes on the text. *)
EXTENDS ConversationPagingProps, CodeReview, DataLemmas

-----------------------------------------------------------------------------
(* A conversation and its archives: every hint is owed by someone *)

\* What a page-out does to the archives, the numbers and the tasks of the second thread.
LEMMA PageOutDoes ==
  ASSUME NEW r, NEW exiting, PageOut(r, exiting)
  PROVE  \/ UNCHANGED <<conv, index, disk, held, queue>>
         \/ /\ DOMAIN disk' = DOMAIN disk \union {nextSeq}
            /\ \A id \in DOMAIN disk : id # nextSeq => disk'[id] = disk[id]
            /\ index' = index \union {nextSeq}
            /\ current' = None \/ \E body : current' = [id |-> Active, body |-> body]
            /\ \E ids : nextSeq' = Max({nextSeq + 1} \union {NumberOf(id) + 1 : id \in ids \cap index'})
            /\ held' = FALSE
            /\ queue' = IF exiting THEN queue ELSE Append(queue, nextSeq)
<1> DEFINE flat == Flat
           r1   == Settled(r, Groups(flat))
           cut  == Cut(flat, r1)
           rest == SubSeq(flat, 1, r1.s) \o <<[m |-> Anchor(nextSeq), ep |-> nextSeq, level |-> PagedOut]>>
                   \o SubSeq(flat, r1.e + 1, Len(flat))
<1> HIDE DEF rest, cut, r1, flat
<1>1. \/ UNCHANGED <<conv, index, disk, held, queue>>
      \/ /\ disk' = [id \in DOMAIN disk \union {nextSeq} |->
                           IF id = nextSeq THEN [i \in DOMAIN cut |-> cut[i].m] ELSE disk[id]]
         /\ index' = index \union {nextSeq}
         /\ Rebuilt(rest, index', nextSeq + 1)
         /\ held' = FALSE
         /\ queue' = IF exiting THEN queue ELSE Enqueued
  BY DEF PageOut, rest, cut, r1, flat
<1>2. ASSUME Rebuilt(rest, index', nextSeq + 1)
      PROVE  /\ current' = None \/ \E body : current' = [id |-> Active, body |-> body]
             /\ nextSeq' = Max({nextSeq + 1} \union {NumberOf(id) + 1 : id \in ToSet(IdsOf(rest)) \cap index'})
  BY <1>2 DEF Rebuilt, CurrentOf, NextOf
<1> QED
  BY <1>1, <1>2 DEF Enqueued

HintInv ==
    /\ IsFiniteSet(DOMAIN disk) /\ index \subseteq DOMAIN disk
    /\ queue \in Seq(ToSet(queue))
    /\ HintOwed

LEMMA Queued ==
  ASSUME NEW q, q \in Seq(ToSet(q)), NEW x
  PROVE  Append(q, x) \in Seq(ToSet(Append(q, x))) /\ ToSet(Append(q, x)) = ToSet(q) \union {x}
<1> DEFINE r == Append(q, x)
<1>1. q \in Seq(ToSet(q) \union {x})
  BY SeqMonotonic
<1>2. r \in Seq(ToSet(q) \union {x})
  BY <1>1
<1>3. DOMAIN r = 1..Len(q) + 1 /\ DOMAIN q = 1..Len(q) /\ Len(q) \in Nat /\ r[Len(q) + 1] = x
      /\ \A i \in 1..Len(q) : r[i] = q[i]
  BY <1>1
<1> HIDE DEF r
<1>4. ToSet(r) = ToSet(q) \union {x}
  BY <1>3 DEF ToSet
<1> QED
  BY <1>2, <1>4 DEF r

LEMMA Dequeued ==
  ASSUME NEW q, q \in Seq(ToSet(q)), q # <<>>
  PROVE  Tail(q) \in Seq(ToSet(Tail(q))) /\ ToSet(q) = ToSet(Tail(q)) \union {Head(q)}
<1> DEFINE r == Tail(q)
<1>1. /\ r \in Seq(ToSet(q)) /\ Len(r) = Len(q) - 1 /\ Len(q) \in Nat /\ Len(q) > 0 /\ Head(q) = q[1]
      /\ \A i \in 1..Len(r) : r[i] = q[i + 1]
  BY HeadTailProperties, LenProperties
<1> HIDE DEF r
<1>2. DOMAIN q = 1..Len(q) /\ DOMAIN r = 1..Len(q) - 1 /\ r \in [1..Len(q) - 1 -> ToSet(q)]
  BY <1>1, LenProperties
<1>3. r \in [1..Len(q) - 1 -> ToSet(r)]
  BY <1>2 DEF ToSet
<1>4. r \in Seq(ToSet(r))
  BY <1>1, <1>3, FunctionIsSeq
<1>5. ToSet(q) = ToSet(r) \union {Head(q)}
  <2>1. \A i \in DOMAIN q : i = 1 \/ (i - 1 \in DOMAIN r /\ q[i] = r[i - 1])
    BY <1>1, <1>2
  <2>2. \A i \in DOMAIN r : i + 1 \in DOMAIN q /\ q[i + 1] = r[i]
    BY <1>1, <1>2
  <2>3. 1 \in DOMAIN q
    BY <1>1, <1>2
  <2>4. ASSUME NEW x \in ToSet(q) PROVE x \in ToSet(r) \union {Head(q)}
    <3>1. PICK i \in DOMAIN q : x = q[i]
      BY DEF ToSet
    <3>2. CASE i = 1
      BY <1>1, <3>1, <3>2
    <3>3. CASE i # 1
      <4>1. i - 1 \in DOMAIN r /\ x = r[i - 1]
        BY <2>1, <3>1, <3>3
      <4> QED
        BY <4>1 DEF ToSet
    <3> QED
      BY <3>2, <3>3
  <2>5. ASSUME NEW x \in ToSet(r) \union {Head(q)} PROVE x \in ToSet(q)
    <3>1. CASE x \in ToSet(r)
      <4>1. PICK i \in DOMAIN r : x = r[i]
        BY <3>1 DEF ToSet
      <4> QED
        BY <2>2, <4>1 DEF ToSet
    <3>2. CASE x = Head(q)
      BY <1>1, <2>3, <3>2 DEF ToSet
    <3> QED
      BY <3>1, <3>2
  <2> QED
    BY <2>4, <2>5
<1> QED
  BY <1>4, <1>5 DEF r

LEMMA SameOwed ==
  ASSUME HintInv, Up, UNCHANGED <<index, disk, hints, archived>> PROVE HintInv'
  BY DEF HintInv, HintOwed, Up, hints

LEMMA PageOutOwed ==
  ASSUME HintInv, Up, NEW r, PageOut(r, FALSE), UNCHANGED <<hinted, failed, archived>> PROVE HintInv'
<1>1. \/ UNCHANGED <<index, disk, queue>>
      \/ DOMAIN disk' = DOMAIN disk \union {nextSeq} /\ index' = index \union {nextSeq} /\ queue' = Append(queue, nextSeq)
  BY PageOutDoes
<1>2. CASE UNCHANGED <<index, disk, queue>>
  BY <1>2, SameOwed DEF hints
<1>3. CASE DOMAIN disk' = DOMAIN disk \union {nextSeq} /\ index' = index \union {nextSeq} /\ queue' = Append(queue, nextSeq)
  <2>1. IsFiniteSet(DOMAIN disk')
    BY <1>3, FS_AddElement DEF HintInv
  <2>2. queue' \in Seq(ToSet(queue')) /\ ToSet(queue') = ToSet(queue) \union {nextSeq}
    BY <1>3, Queued DEF HintInv
  <2>3. HintOwed'
    BY <2>2, <1>3 DEF HintInv, HintOwed, Up
  <2> QED
    BY <2>1, <2>2, <2>3, <1>3 DEF HintInv
<1> QED
  BY <1>1, <1>2, <1>3

LEMMA CloseOwed ==
  ASSUME HintInv, Close PROVE HintInv'
<1>1. \/ UNCHANGED <<index, disk, queue>>
      \/ DOMAIN disk' = DOMAIN disk \union {nextSeq} /\ index' = index \union {nextSeq} /\ queue' = queue
  BY PageOutDoes DEF Close
<1>2. worker' = "closed"
  BY DEF Close
<1>3. IsFiniteSet(DOMAIN disk')
  BY <1>1, FS_AddElement DEF HintInv
<1> QED
  BY <1>1, <1>2, <1>3 DEF HintInv, HintOwed

LEMMA MarkOwed ==
  ASSUME HintInv, ToolMarks PROVE HintInv'
<1> DEFINE id == IF current.id = Active THEN nextSeq ELSE current.id
<1>1. /\ \/ UNCHANGED <<index, disk, archived>>
         \/ /\ DOMAIN disk' = DOMAIN disk \union {id} /\ index' = index \union {id} /\ archived' = archived \union {id}
      /\ UNCHANGED hints /\ Up
  BY DEF ToolMarks, Snapshot, Up
<1> HIDE DEF id
<1>2. IsFiniteSet(DOMAIN disk')
  BY <1>1, FS_AddElement DEF HintInv
<1> QED
  BY <1>1, <1>2 DEF HintInv, HintOwed, Up, hints

LEMMA SummaryOwed ==
  ASSUME HintInv, Summarize PROVE HintInv'
<1>1. /\ UNCHANGED <<index, disk, archived>> /\ Up /\ queue # <<>> /\ queue' = Tail(queue)
      /\ hinted' \union failed' = hinted \union failed \union {Head(queue)}
  BY DEF Summarize
<1>2. queue' \in Seq(ToSet(queue')) /\ ToSet(queue) = ToSet(queue') \union {Head(queue)}
  BY <1>1, Dequeued DEF HintInv
<1> QED
  BY <1>1, <1>2 DEF HintInv, HintOwed, Up

\* A restart queues every archive that has no hint.
LEMMA RestartOwed ==
  ASSUME HintInv, NEW count, Restart(count) PROVE HintInv'
<1>1. /\ index' = DOMAIN disk /\ disk' = disk /\ queue' = SetToSeq(DOMAIN disk \ hinted) /\ failed' = {}
      /\ UNCHANGED <<hinted, archived>>
  BY DEF Restart
<1>2. IsFiniteSet(DOMAIN disk \ hinted)
  BY FS_Subset DEF HintInv
<1>3. queue' \in Seq(ToSet(queue')) /\ ToSet(queue') = DOMAIN disk \ hinted
  BY <1>1, <1>2, SetInOrder
<1> QED
  BY <1>1, <1>3 DEF HintInv, HintOwed

LEMMA HintStep ==
  ASSUME HintInv, [PagingNext \/ Crash]_pagingVars PROVE HintInv'
<1>1. CASE Ask \/ AsksModel \/ RequestAdrift \/ Answer \/ Call \/ ToolEnds
  BY <1>1, SameOwed DEF Ask, AsksModel, RequestAdrift, Answer, Call, ToolEnds, UnchangedByLoop, Up
<1>2. ASSUME NEW target, NEW all, ToolChooses(target, all) PROVE HintInv'
  BY <1>2, SameOwed DEF ToolChooses, Up
<1>3. CASE ToolCompresses
  <2>1. Up /\ UNCHANGED <<hinted, failed, archived>>
    BY <1>3 DEF ToolCompresses, Up
  <2>2. UNCHANGED <<index, disk, queue>> \/ PageOut(range, FALSE)
    BY <1>3 DEF ToolCompresses
  <2> QED
    BY <2>1, <2>2, SameOwed, PageOutOwed DEF hints
<1>4. CASE FamilyChanges
  BY <1>4, SameOwed DEF FamilyChanges, Up
<1>5. ASSUME NEW id, NEW level, ToolRestores(id, level) \/ UserSetsState(id, level) PROVE HintInv'
  BY <1>5, SameOwed DEF ToolRestores, UserSetsState, SetState, Up
<1>6. ASSUME NEW id, Compact(id) PROVE HintInv'
  BY <1>6, SameOwed DEF Compact, SetState, Up
<1>7. ASSUME NEW s, NEW e, UserPagesOut(s, e) PROVE HintInv'
  BY <1>7, PageOutOwed DEF UserPagesOut
<1>8. CASE Crash
  BY <1>8 DEF Crash, HintInv, HintOwed, hints
<1>9. CASE UNCHANGED pagingVars
  BY <1>9 DEF pagingVars, hints, HintInv, HintOwed
<1> QED
  BY <1>1, <1>2, <1>3, <1>4, <1>5, <1>6, <1>7, <1>8, <1>9, MarkOwed, CloseOwed, SummaryOwed, RestartOwed DEF PagingNext

\* HintOwed: whatever is paged out, closed, crashed and started again, an episode of the
\* index has its hint, or the summary thread will get to it, or failed to write it, or a
\* snapshot made it (ai_agent.cpp, summary_worker_loop and its queue).
THEOREM HintsOwed == CrashingSpec => []HintOwed
<1>1. PagingInit => HintInv
  <2>1. IsFiniteSet(DOMAIN <<>>) /\ <<>> \in Seq(ToSet(<<>>))
    BY FS_EmptySet
  <2> QED
    BY <2>1 DEF PagingInit, HintInv, HintOwed
<1>2. HintInv => HintOwed
  BY DEF HintInv
<1> QED
  BY <1>1, <1>2, HintStep, PTL DEF CrashingSpec

THEOREM HintsOwedUncrashed == PagingSpec => []HintOwed
<1>1. PagingInit => HintInv
  <2>1. IsFiniteSet(DOMAIN <<>>) /\ <<>> \in Seq(ToSet(<<>>))
    BY FS_EmptySet
  <2> QED
    BY <2>1 DEF PagingInit, HintInv, HintOwed
<1>2. HintInv => HintOwed
  BY DEF HintInv
<1>3. ASSUME HintInv, [PagingNext]_pagingVars PROVE HintInv'
  BY <1>3, HintStep
<1> QED
  BY <1>1, <1>2, <1>3, PTL DEF PagingSpec
-----------------------------------------------------------------------------
(* A conversation and its archives: no archive is overwritten by less *)

\* The current episode has an id of its own, given before it has a number.
Own       == current # None /\ current.id # Active
OwnIds(k) == {i \in Int : i = 1 \/ (i < 0 /\ -k <= i)}
Entered   == [kind : {"prompt", "user", "partial", "answer", "call", "result", "marked"}, n : Nat]
InFlight  == worker \in {"asking", "tool", "compress"}
Turn      == Msg("partial", said)

\* Numbers are given in order, and the ids of archives are behind them.
Numbered ==
    /\ nextSeq \in Nat /\ nextSeq >= 2 /\ said \in Nat /\ index \subseteq DOMAIN disk
    /\ \A id \in DOMAIN disk : id \in Int /\ -said <= id /\ id < nextSeq

\* What is so of an episode that a snapshot writes under its own id: what its archive has
\* it still has, and the empty turn of a request is in no archive.
OwnKept ==
    /\ current \in [id : OwnIds(said), body : Seq(Entered)]
    /\ \A m \in ToSet(current.body) : m.kind = "partial" => m.n <= said
    /\ \A m \in ToSet(current.body) : IsSystem(m) => m = Prompt /\ original = Prompt
    /\ current.id \in DOMAIN disk => ToSet(disk[current.id]) \subseteq ToSet(current.body)
    /\ InFlight => held
    /\ InFlight /\ current.id \in DOMAIN disk => Turn \notin ToSet(disk[current.id])
    /\ worker \in {"tool", "compress"} => Turn \notin ToSet(current.body)
    /\ worker = "asking" =>
         \A i, j \in DOMAIN current.body : current.body[i] = Turn /\ current.body[j] = Turn => i = j

Shaped ==
    /\ \/ current = None
       \/ \E body : current = [id |-> Active, body |-> body]
       \/ Own /\ OwnKept
    /\ held => current # None
    /\ worker = "closed" => saved = [episodes |-> episodes, current |-> current, nextSeq |-> nextSeq]

ArchiveInv == Numbered /\ Shaped

ArchivesStay == \A id \in DOMAIN disk : Superset(id)

LEMMA DiskStays == ASSUME UNCHANGED disk PROVE ArchivesStay
  BY DEF ArchivesStay, Superset

\* A step that leaves the conversation, the numbers and the archives alone.
LEMMA SameKept ==
  ASSUME ArchiveInv, Up, UNCHANGED <<current, nextSeq, original, index, disk, said, held>>,
         worker' = worker \/ (worker = "tool" /\ worker' = "compress")
  PROVE  ArchiveInv' /\ ArchivesStay
<1>1. Numbered'
  BY DEF ArchiveInv, Numbered
<1>2. Own /\ OwnKept => (Own /\ OwnKept)'
  BY DEF Own, OwnKept, OwnIds, InFlight, Turn
<1>3. Shaped'
  BY <1>2 DEF ArchiveInv, Shaped, Up
<1> QED
  BY <1>1, <1>3, DiskStays DEF ArchiveInv

\* A page-out takes a new number, and leaves no episode with an id of its own.
LEMMA PageOutKept ==
  ASSUME ArchiveInv, NEW r, NEW exiting, PageOut(r, exiting), UNCHANGED said
  PROVE  \/ UNCHANGED <<conv, index, disk, held>>
         \/ /\ Numbered' /\ ArchivesStay /\ held' = FALSE
            /\ current' = None \/ \E body : current' = [id |-> Active, body |-> body]
<1>1. CASE UNCHANGED <<conv, index, disk, held, queue>>
  BY <1>1
<1>2. CASE ~UNCHANGED <<conv, index, disk, held, queue>>
  <2>1. /\ DOMAIN disk' = DOMAIN disk \union {nextSeq}
        /\ \A id \in DOMAIN disk : id # nextSeq => disk'[id] = disk[id]
        /\ index' = index \union {nextSeq}
        /\ current' = None \/ \E body : current' = [id |-> Active, body |-> body]
        /\ held' = FALSE
    BY <1>2, PageOutDoes
  <2>2. PICK ids : nextSeq' = Max({nextSeq + 1} \union {NumberOf(id) + 1 : id \in ids \cap index'})
    BY <1>2, PageOutDoes
  <2>3. nextSeq' = nextSeq + 1
    <3> DEFINE S == {nextSeq + 1} \union {NumberOf(id) + 1 : id \in ids \cap index'}
    <3>1. \A id \in index' : NumberOf(id) + 1 \in Int /\ NumberOf(id) + 1 <= nextSeq + 1
      BY <2>1 DEF ArchiveInv, Numbered, NumberOf
    <3>2. S \in SUBSET Int /\ nextSeq + 1 \in S /\ \A m \in S : m <= nextSeq + 1
      BY <3>1 DEF ArchiveInv, Numbered
    <3> HIDE DEF S
    <3>3. Max(S) = nextSeq + 1
      BY <3>2, GreatestIsMax
    <3> QED
      BY <3>3, <2>2 DEF S
  <2>4. Numbered'
    BY <2>1, <2>3 DEF ArchiveInv, Numbered
  <2>5. ArchivesStay
    BY <2>1 DEF ArchivesStay, Superset, ArchiveInv, Numbered
  <2> QED
    BY <2>1, <2>4, <2>5
<1> QED
  BY <1>1, <1>2

LEMMA CompressKept ==
  ASSUME ArchiveInv, ToolCompresses PROVE ArchiveInv' /\ ArchivesStay
<1>1. worker = "compress" /\ worker' = "tool" /\ UNCHANGED <<saved, said>>
  BY DEF ToolCompresses
<1>2. CASE UNCHANGED <<conv, index, disk, held>>
  <2>1. Numbered'
    BY <1>1, <1>2 DEF ArchiveInv, Numbered, conv
  <2>2. Own /\ OwnKept => (Own /\ OwnKept)'
    BY <1>1, <1>2 DEF Own, OwnKept, OwnIds, InFlight, Turn, conv
  <2>3. Shaped'
    BY <1>1, <1>2, <2>2 DEF ArchiveInv, Shaped, conv
  <2> QED
    BY <2>1, <2>3, <1>2, DiskStays DEF ArchiveInv
<1>3. CASE ~UNCHANGED <<conv, index, disk, held>>
  <2>1. PageOut(range, FALSE)
    BY <1>3 DEF ToolCompresses
  <2>2. Numbered' /\ ArchivesStay /\ held' = FALSE /\ (current' = None \/ \E body : current' = [id |-> Active, body |-> body])
    BY <1>1, <1>3, <2>1, PageOutKept
  <2> QED
    BY <1>1, <2>2 DEF ArchiveInv, Shaped
<1> QED
  BY <1>2, <1>3

LEMMA CommandKept ==
  ASSUME ArchiveInv, NEW s, NEW e, UserPagesOut(s, e) PROVE ArchiveInv' /\ ArchivesStay
<1>1. PageOut([s |-> s, e |-> e], FALSE) /\ UNCHANGED <<saved, said, worker>> /\ Up /\ disk' # disk
  BY DEF UserPagesOut
<1>2. Numbered' /\ ArchivesStay /\ held' = FALSE /\ (current' = None \/ \E body : current' = [id |-> Active, body |-> body])
  BY <1>1, PageOutKept
<1> QED
  BY <1>1, <1>2 DEF ArchiveInv, Shaped, Up

LEMMA CloseKept ==
  ASSUME ArchiveInv, Close PROVE ArchiveInv' /\ ArchivesStay
<1>1. /\ worker' = "closed" /\ UNCHANGED said
      /\ saved' = [episodes |-> episodes', current |-> current', nextSeq |-> nextSeq']
      /\ UNCHANGED <<conv, index, disk, held>> \/ PageOut(Prior(NoEp, TRUE), TRUE)
  BY DEF Close
<1>2. CASE UNCHANGED <<conv, index, disk, held>>
  <2>1. Numbered'
    BY <1>1, <1>2 DEF ArchiveInv, Numbered, conv
  <2>2. Own /\ OwnKept => (Own /\ OwnKept)'
    BY <1>1, <1>2 DEF Own, OwnKept, OwnIds, InFlight, Turn, conv
  <2>3. Shaped'
    BY <1>1, <1>2, <2>2 DEF ArchiveInv, Shaped, conv
  <2> QED
    BY <2>1, <2>3, <1>2, DiskStays DEF ArchiveInv
<1>3. CASE ~UNCHANGED <<conv, index, disk, held>>
  <2>1. Numbered' /\ ArchivesStay /\ held' = FALSE /\ (current' = None \/ \E body : current' = [id |-> Active, body |-> body])
    BY <1>1, <1>3, PageOutKept
  <2> QED
    BY <1>1, <2>1 DEF ArchiveInv, Shaped
<1> QED
  BY <1>2, <1>3
LEMMA AskKept ==
  ASSUME ArchiveInv, Ask PROVE ArchiveInv' /\ ArchivesStay
<1> DEFINE m == Msg("user", said + 1)
<1>1. /\ said' = said + 1 /\ worker = "idle" /\ worker' = "ready" /\ UNCHANGED <<nextSeq, held, original, index, disk>>
      /\ current' = IF current = None THEN [id |-> -said', body |-> <<m>>] ELSE [current EXCEPT !.body = Append(@, m)]
      /\ said \in Nat
  BY DEF Ask, UnchangedByLoop, ArchiveInv, Numbered
<1>2. m \in Entered /\ m.kind = "user"
  BY <1>1 DEF Entered, Msg
<1> HIDE DEF m
<1>3. Numbered'
  BY <1>1 DEF ArchiveInv, Numbered
<1>4. CASE current = None
  <2>1. current' = [id |-> -(said + 1), body |-> <<m>>]
    BY <1>1, <1>4
  <2>2. <<m>> \in Seq(Entered) /\ ToSet(<<m>>) = {m}
    BY <1>2 DEF ToSet
  <2>3. Own'
    BY <1>1, <2>1 DEF Own, None, Active, NoEp
  <2>4. current'.id \notin DOMAIN disk'
    BY <1>1, <2>1 DEF ArchiveInv, Numbered
  <2>5. current' \in [id : OwnIds(said + 1), body : Seq(Entered)]
    BY <1>1, <2>1, <2>2 DEF OwnIds
  <2>6. OwnKept'
    <3>1. \A x \in ToSet(current'.body) : x.kind = "user"
      BY <1>2, <2>1, <2>2
    <3>2. ~InFlight' /\ worker' = "ready"
      BY <1>1 DEF InFlight
    <3>3. current' \in [id : OwnIds(said'), body : Seq(Entered)]
      BY <1>1, <2>5
    <3> QED
      BY <3>1, <3>2, <3>3, <2>4 DEF OwnKept, IsSystem
  <2>7. Shaped'
    BY <1>1, <2>3, <2>6 DEF Shaped, Own
  <2> QED
    BY <1>1, <1>3, <2>7, DiskStays DEF ArchiveInv
<1>5. CASE current # None /\ current.id = Active
  <2>1. \E b : current = [id |-> Active, body |-> b]
    BY <1>5 DEF ArchiveInv, Shaped, Own
  <2>2. \E b : current' = [id |-> Active, body |-> b]
    BY <1>1, <1>5, <2>1
  <2>3. current' # None
    BY <2>2 DEF None, Active, NoEp
  <2>4. Shaped'
    BY <1>1, <2>2, <2>3 DEF Shaped
  <2> QED
    BY <1>1, <1>3, <2>4, DiskStays DEF ArchiveInv
<1>6. CASE Own
  <2>0. OwnKept /\ current' = [current EXCEPT !.body = Append(@, m)]
    BY <1>1, <1>6 DEF ArchiveInv, Shaped, Own, Active
  <2>1. current.body \in Seq(Entered) /\ current.id \in OwnIds(said) /\ current \in [id : OwnIds(said), body : Seq(Entered)]
    BY <2>0 DEF OwnKept
  <2>2. current'.id = current.id /\ current'.body = Append(current.body, m)
    BY <2>0, <2>1
  <2>3. Append(current.body, m) \in Seq(Entered) /\ ToSet(Append(current.body, m)) = ToSet(current.body) \union {m}
    BY <1>2, <2>1, Appended
  <2>4. current' \in [id : OwnIds(said + 1), body : Seq(Entered)]
    <3>1. OwnIds(said) \subseteq OwnIds(said + 1)
      BY <1>1 DEF OwnIds
    <3>2. current' = [id |-> current.id, body |-> Append(current.body, m)]
      BY <2>0, <2>1
    <3> QED
      BY <3>1, <3>2, <2>1, <2>3
  <2>5. Own'
    BY <1>6, <2>1, <2>2 DEF Own, OwnIds, None, Active, NoEp
  <2>6. OwnKept'
    <3>1. \A x \in ToSet(current'.body) : x.kind = "partial" => x.n <= said'
      <4>1. \A x \in ToSet(current.body) : x \in Entered
        BY <2>1 DEF ToSet
      <4>2. \A x \in ToSet(current.body) : x.n \in Nat /\ (x.kind = "partial" => x.n <= said)
        BY <2>0, <4>1 DEF OwnKept, Entered
      <4>3. \A x \in ToSet(current.body) : x.kind = "partial" => x.n <= said + 1
        BY <1>1, <4>2
      <4> QED
        BY <1>1, <1>2, <2>2, <2>3, <4>3
    <3>2. \A x \in ToSet(current'.body) : IsSystem(x) => x = Prompt /\ original' = Prompt
      BY <1>1, <1>2, <2>0, <2>2, <2>3 DEF OwnKept, IsSystem
    <3>3. current'.id \in DOMAIN disk' => ToSet(disk'[current'.id]) \subseteq ToSet(current'.body)
      BY <1>1, <2>0, <2>2, <2>3 DEF OwnKept
    <3> QED
      BY <1>1, <2>4, <3>1, <3>2, <3>3 DEF OwnKept, InFlight
  <2>7. Shaped'
    BY <1>1, <2>5, <2>6 DEF Shaped, Own
  <2> QED
    BY <1>1, <1>3, <2>7, DiskStays DEF ArchiveInv
<1> QED
  BY <1>4, <1>5, <1>6 DEF Own

LEMMA RequestKept ==
  ASSUME ArchiveInv, AsksModel PROVE ArchiveInv' /\ ArchivesStay
<1> DEFINE m == Msg("partial", said + 1)
<1>1. /\ said' = said + 1 /\ worker' = "asking" /\ held' = TRUE /\ UNCHANGED <<nextSeq, original, index, disk>>
      /\ current # None /\ current' = [current EXCEPT !.body = Append(@, m)]
      /\ said \in Nat /\ Turn' = m
  BY DEF AsksModel, UnchangedByLoop, ArchiveInv, Numbered, Turn
<1>2. m \in Entered /\ m.kind = "partial" /\ m.n = said + 1
  BY <1>1 DEF Entered, Msg
<1> HIDE DEF m
<1>3. Numbered'
  BY <1>1 DEF ArchiveInv, Numbered
<1>4. CASE current.id = Active
  <2>1. \E b : current = [id |-> Active, body |-> b]
    BY <1>1, <1>4 DEF ArchiveInv, Shaped, Own
  <2>2. \E b : current' = [id |-> Active, body |-> b]
    <3>1. PICK b : current = [id |-> Active, body |-> b]
      BY <2>1
    <3>2. current' = [id |-> Active, body |-> Append(b, m)]
      BY <1>1, <3>1
    <3> QED
      BY <3>2
  <2>3. current' # None
    BY <2>2 DEF None, Active, NoEp
  <2>4. Shaped'
    BY <1>1, <2>2, <2>3 DEF Shaped
  <2> QED
    BY <1>1, <1>3, <2>4, DiskStays DEF ArchiveInv
<1>5. CASE Own
  <2>0. OwnKept
    BY <1>1, <1>5 DEF ArchiveInv, Shaped, Own, Active
  <2>1. current.body \in Seq(Entered) /\ current.id \in OwnIds(said) /\ current \in [id : OwnIds(said), body : Seq(Entered)]
    BY <2>0 DEF OwnKept
  <2>2. current'.id = current.id /\ current'.body = Append(current.body, m)
    BY <1>1, <2>1
  <2> DEFINE b == current.body
             c == Append(b, m)
  <2>3. /\ c \in Seq(Entered) /\ ToSet(c) = ToSet(b) \union {m} /\ Len(c) = Len(b) + 1 /\ c[Len(b) + 1] = m
        /\ \A i \in 1..Len(b) : c[i] = b[i]
    BY <1>2, <2>1, Appended
  <2>4. current' \in [id : OwnIds(said + 1), body : Seq(Entered)]
    <3>1. OwnIds(said) \subseteq OwnIds(said + 1)
      BY <1>1 DEF OwnIds
    <3>2. current' = [id |-> current.id, body |-> c]
      BY <1>1, <2>1
    <3> HIDE DEF c
    <3> QED
      BY <3>1, <3>2, <2>1, <2>3
  <2>5. Own'
    BY <1>5, <2>1, <2>2 DEF Own, OwnIds, None, Active, NoEp
  <2>6. \A x \in ToSet(b) : x \in Entered /\ x # m /\ (x.kind = "partial" => x.n <= said + 1)
    <3> SUFFICES ASSUME NEW x \in ToSet(b) PROVE x \in Entered /\ x # m /\ (x.kind = "partial" => x.n <= said + 1)
      OBVIOUS
    <3>1. x \in Entered
      BY <2>1 DEF ToSet
    <3>2. x.kind = "partial" => x.n <= said
      BY <2>0 DEF OwnKept
    <3>3. x.n \in Nat
      BY <3>1 DEF Entered
    <3> QED
      BY <3>1, <3>2, <3>3, <1>1, <1>2
  <2>7. OwnKept'
    <3>1. \A x \in ToSet(c) : x.kind = "partial" => x.n <= said'
      BY <1>1, <1>2, <2>3, <2>6
    <3>2. \A x \in ToSet(c) : IsSystem(x) => x = Prompt /\ original' = Prompt
      BY <1>1, <1>2, <2>0, <2>3 DEF OwnKept, IsSystem
    <3>3. current.id \in DOMAIN disk => ToSet(disk[current.id]) \subseteq ToSet(b)
      BY <2>0 DEF OwnKept
    <3>4. current.id \in DOMAIN disk => ToSet(disk[current.id]) \subseteq ToSet(c) /\ m \notin ToSet(disk[current.id])
      BY <2>3, <2>6, <3>3
    <3>5. \A i, j \in DOMAIN c : c[i] = m /\ c[j] = m => i = j
      <4>1. \A i \in 1..Len(b) : b[i] \in ToSet(b)
        BY <2>1 DEF ToSet
      <4>2. DOMAIN c = 1..Len(b) + 1 /\ Len(b) \in Nat
        BY <2>1, <2>3
      <4> HIDE DEF b, c
      <4>3. \A i \in DOMAIN c : i = Len(b) + 1 \/ c[i] # m
        BY <2>3, <2>6, <4>1, <4>2
      <4> QED
        BY <4>3
    <3> HIDE DEF c
    <3> QED
      BY <1>1, <2>2, <2>4, <3>1, <3>2, <3>4, <3>5 DEF OwnKept, InFlight, c
  <2>8. Shaped'
    BY <1>1, <2>5, <2>7 DEF Shaped, Own
  <2> QED
    BY <1>1, <1>3, <2>8, DiskStays DEF ArchiveInv
<1> QED
  BY <1>1, <1>4, <1>5 DEF Own

LEMMA AdriftKept ==
  ASSUME ArchiveInv, RequestAdrift PROVE ArchiveInv' /\ ArchivesStay
<1>1. /\ said' = said + 1 /\ worker' = "asking" /\ held' = FALSE /\ current' = None
      /\ UNCHANGED <<nextSeq, original, index, disk>> /\ said \in Nat
  BY DEF RequestAdrift, UnchangedByLoop, ArchiveInv, Numbered
<1>2. Numbered'
  BY <1>1 DEF ArchiveInv, Numbered
<1> QED
  BY <1>1, <1>2, DiskStays DEF ArchiveInv, Shaped
\* An answer, a call or a result is written where the empty turn was.
LEMMA WrittenBody ==
  ASSUME ArchiveInv, Own, InFlight, NEW k \in {"answer", "call", "result", "marked"}, Written(Msg(k, said))
  PROVE  LET b == current.body IN
         \E c \in Seq(Entered) :
            /\ current' = [id |-> current.id, body |-> c]
            /\ ToSet(c) \subseteq ToSet(b) \union {Msg(k, said)}
            /\ \A x \in ToSet(b) : x # Turn => x \in ToSet(c)
            /\ Turn \notin ToSet(c)
<1> DEFINE b == current.body
           m == Msg(k, said)
           a == RemoveFirst(b, Turn)
           c == Append(a, m)
<1>1. OwnKept /\ held /\ said \in Nat
  BY DEF ArchiveInv, Shaped, OwnKept, Own, Numbered, Active
<1>2. current \in [id : OwnIds(said), body : Seq(Entered)] /\ b \in Seq(Entered) /\ DOMAIN b = 1..Len(b)
  BY <1>1 DEF OwnKept
<1>3. m \in Entered /\ m # Turn /\ m.n = said
  BY <1>1 DEF Entered, Msg, Turn
<1>4. current' = [current EXCEPT !.body = c]
  BY <1>1, <1>3 DEF Written, Turn
<1> HIDE DEF m, a, b
<1>5. /\ a \in Seq(Entered) /\ ToSet(a) \subseteq ToSet(b)
      /\ \A x \in ToSet(b) : x # Turn => x \in ToSet(a)
      /\ Turn \notin ToSet(b) => a = b
      /\ (\A i, j \in DOMAIN b : b[i] = Turn /\ b[j] = Turn => i = j) => Turn \notin ToSet(a)
  BY <1>2, FirstRemoved DEF a
<1>6. Turn \notin ToSet(a)
  <2>1. CASE worker = "asking"
    BY <1>1, <1>5, <2>1 DEF OwnKept, b
  <2>2. CASE worker # "asking"
    <3>1. Turn \notin ToSet(b)
      BY <1>1, <2>2 DEF OwnKept, InFlight, b
    <3> QED
      BY <1>5, <3>1
  <2> QED
    BY <2>1, <2>2
<1>7. c \in Seq(Entered) /\ ToSet(c) = ToSet(a) \union {m}
  BY <1>3, <1>5, Appended
<1> HIDE DEF c
<1>8. current' = [id |-> current.id, body |-> c]
  BY <1>2, <1>4
<1>9. ToSet(c) \subseteq ToSet(b) \union {m} /\ (\A x \in ToSet(b) : x # Turn => x \in ToSet(c)) /\ Turn \notin ToSet(c)
  BY <1>3, <1>5, <1>6, <1>7
<1> QED
  BY <1>7, <1>8, <1>9 DEF b, m

\* A turn written to a conversation that has no episode of its own id.
LEMMA WrittenElsewhere ==
  ASSUME ArchiveInv, ~Own, NEW m, Written(m), UNCHANGED held
  PROVE  (current' = None \/ \E body : current' = [id |-> Active, body |-> body]) /\ (held' => current' # None)
<1>1. CASE current = None
  BY <1>1 DEF ArchiveInv, Shaped, Written
<1>2. CASE current # None
  <2>1. PICK b : current = [id |-> Active, body |-> b]
    BY <1>2 DEF ArchiveInv, Shaped, Own
  <2>2. \E body : current' = [id |-> Active, body |-> body]
    BY <2>1 DEF Written
  <2>3. current' # None
    BY <2>2 DEF None, Active, NoEp
  <2> QED
    BY <2>2, <2>3
<1> QED
  BY <1>1, <1>2

\* The messages of a body that is known to be the one before with one more.
LEMMA BodyWritten ==
  ASSUME OwnKept, said \in Nat, NEW k \in {"answer", "call", "result", "marked"}, NEW c,
         ToSet(c) \subseteq ToSet(current.body) \union {Msg(k, said)}
  PROVE  /\ \A m \in ToSet(c) : m.kind = "partial" => m.n <= said
         /\ \A m \in ToSet(c) : IsSystem(m) => m = Prompt /\ original = Prompt
  BY DEF OwnKept, IsSystem, Msg

LEMMA WriteKept ==
  ASSUME ArchiveInv, NEW k \in {"answer", "call", "result"}, Written(Msg(k, said)),
         \/ worker = "asking" /\ worker' \in {"idle", "tool"}
         \/ worker = "tool" /\ worker' = "ready",
         UNCHANGED <<nextSeq, said, held, original, index, disk>>
  PROVE  ArchiveInv' /\ ArchivesStay
<1>1. Numbered' /\ ArchivesStay /\ said \in Nat
  BY DiskStays DEF ArchiveInv, Numbered
<1>2. CASE ~Own
  BY <1>1, <1>2, WrittenElsewhere DEF ArchiveInv, Shaped
<1>3. CASE Own
  <2>0. OwnKept /\ held /\ InFlight
    BY <1>3 DEF ArchiveInv, Shaped, OwnKept, Own, Active, InFlight
  <2>1. PICK c \in Seq(Entered) :
            /\ current' = [id |-> current.id, body |-> c]
            /\ ToSet(c) \subseteq ToSet(current.body) \union {Msg(k, said)}
            /\ \A x \in ToSet(current.body) : x # Turn => x \in ToSet(c)
            /\ Turn \notin ToSet(c)
    BY <1>3, <2>0, WrittenBody
  <2>2. /\ \A m \in ToSet(c) : m.kind = "partial" => m.n <= said
        /\ \A m \in ToSet(c) : IsSystem(m) => m = Prompt /\ original = Prompt
    BY <2>0, <2>1, <1>1, BodyWritten
  <2>3. current.id \in OwnIds(said)
    BY <2>0 DEF OwnKept
  <2>4. current' \in [id : OwnIds(said), body : Seq(Entered)] /\ current'.id = current.id /\ current'.body = c
    BY <2>1, <2>3
  <2>5. Own'
    BY <1>3, <2>3, <2>4 DEF Own, OwnIds, None, Active, NoEp
  <2>6. current.id \in DOMAIN disk => ToSet(disk[current.id]) \subseteq ToSet(c) /\ Turn \notin ToSet(disk[current.id])
    BY <2>0, <2>1 DEF OwnKept
  <2>7. Turn' = Turn /\ worker' # "asking"
    BY DEF Turn
  <2>8. OwnKept'
    BY <2>0, <2>1, <2>2, <2>4, <2>6, <2>7 DEF OwnKept
  <2> QED
    BY <1>1, <2>5, <2>8 DEF ArchiveInv, Shaped, Own
<1> QED
  BY <1>2, <1>3

\* agent_mark_episode writes an archive: under a new number, or the current episode's own
\* once more.
LEMMA MarkKept ==
  ASSUME ArchiveInv, ToolMarks PROVE ArchiveInv' /\ ArchivesStay
<1>1. /\ worker = "tool" /\ worker' = "ready" /\ UNCHANGED <<said, held, original>> /\ Snapshot
      /\ Written(Msg("marked", said)) /\ said \in Nat /\ nextSeq \in Nat /\ nextSeq >= 2 /\ ~InFlight' /\ InFlight
  BY DEF ToolMarks, ArchiveInv, Numbered, InFlight
<1>2. CASE current = None
  <2>1. UNCHANGED <<nextSeq, index, disk>>
    BY <1>1, <1>2 DEF Snapshot
  <2>2. Numbered'
    BY <1>1, <2>1 DEF ArchiveInv, Numbered
  <2>3. Shaped'
    BY <1>1, <1>2, WrittenElsewhere DEF Shaped, Own
  <2> QED
    BY <2>1, <2>2, <2>3, DiskStays DEF ArchiveInv
<1>3. CASE current # None /\ current.id = Active
  <2>1. /\ disk' = [e \in DOMAIN disk \union {nextSeq} |-> IF e = nextSeq THEN current.body ELSE disk[e]]
        /\ index' = index \union {nextSeq} /\ nextSeq' = nextSeq + 1
    BY <1>1, <1>3 DEF Snapshot, Taken
  <2>2. Numbered' /\ ArchivesStay
    BY <1>1, <2>1 DEF ArchiveInv, Numbered, ArchivesStay, Superset
  <2>3. Shaped'
    BY <1>1, <1>3, WrittenElsewhere DEF Shaped, Own
  <2> QED
    BY <2>2, <2>3 DEF ArchiveInv
<1>4. CASE Own
  <2>0. OwnKept /\ held
    BY <1>1, <1>4 DEF ArchiveInv, Shaped, OwnKept, Own, Active
  <2>1. current.id \in OwnIds(said) /\ current.id < nextSeq /\ current.id # nextSeq
    BY <1>1, <2>0 DEF OwnKept, OwnIds
  <2>2. /\ disk' = [e \in DOMAIN disk \union {current.id} |-> IF e = current.id THEN current.body ELSE disk[e]]
        /\ index' = index \union {current.id} /\ nextSeq' = nextSeq
    BY <1>1, <1>4, <2>1 DEF Snapshot, Taken, Own
  <2>3. Numbered'
    BY <1>1, <2>1, <2>2 DEF ArchiveInv, Numbered, OwnIds
  <2>4. ArchivesStay
    BY <2>0, <2>2 DEF ArchivesStay, Superset, OwnKept
  <2>5. PICK c \in Seq(Entered) :
            /\ current' = [id |-> current.id, body |-> c]
            /\ ToSet(c) \subseteq ToSet(current.body) \union {Msg("marked", said)}
            /\ \A x \in ToSet(current.body) : x # Turn => x \in ToSet(c)
            /\ Turn \notin ToSet(c)
    BY <1>1, <1>4, WrittenBody
  <2>6. /\ \A m \in ToSet(c) : m.kind = "partial" => m.n <= said
        /\ \A m \in ToSet(c) : IsSystem(m) => m = Prompt /\ original = Prompt
    BY <2>0, <2>5, <1>1, BodyWritten
  <2>7. current' \in [id : OwnIds(said), body : Seq(Entered)] /\ current'.id = current.id /\ current'.body = c
    BY <2>1, <2>5
  <2>8. Own'
    BY <1>4, <2>1, <2>7 DEF Own, OwnIds, None, Active, NoEp
  <2>9. ToSet(disk'[current'.id]) \subseteq ToSet(c)
    <3>1. disk'[current'.id] = current.body
      BY <2>2, <2>7
    <3>2. Turn \notin ToSet(current.body)
      BY <1>1, <2>0 DEF OwnKept
    <3> QED
      BY <3>1, <3>2, <2>5
  <2>10. OwnKept'
    BY <1>1, <2>6, <2>7, <2>9 DEF OwnKept, InFlight
  <2> QED
    BY <1>1, <2>3, <2>4, <2>8, <2>10 DEF ArchiveInv, Shaped, Own
<1> QED
  BY <1>2, <1>3, <1>4 DEF Own
\* The system prompt that is there already.
LEMMA PromptedAlready ==
  ASSUME NEW b \in Seq(Entered), \A m \in ToSet(b) : IsSystem(m) => m = Prompt, HasSystem(b)
  PROVE  Prompted(b, Prompt) = b
<1> DEFINE sys == {i \in DOMAIN b : IsSystem(b[i])}
<1>1. sys \in SUBSET Nat /\ sys # {}
  BY DEF HasSystem
<1>2. \E n \in sys : \A m \in sys : n <= m
  BY <1>1, LeastNumber
<1>3. Min(sys) \in sys
  BY <1>2 DEF Min
<1>4. b[Min(sys)] = Prompt /\ Min(sys) \in DOMAIN b
  BY <1>3 DEF ToSet
<1>5. Prompted(b, Prompt) = [b EXCEPT ![Min(sys)] = Prompt]
  BY DEF Prompted
<1> HIDE DEF sys
<1>6. [b EXCEPT ![Min(sys)] = Prompt] = b
  BY <1>4
<1> QED
  BY <1>5, <1>6

\* The current episode when a system prompt p is put in.
LEMMA PromptedCurrent ==
  ASSUME NEW eps, NEW p, ArchiveInv
  PROVE  LET out == PromptIn(eps, current, p).cur IN
         /\ current = None => out = None
         /\ ~Own => out = None \/ \E body : out = [id |-> Active, body |-> body]
         /\ Own /\ (p = Prompt \/ p = original) => out = current
         /\ current # None => out # None
<1> DEFINE out == PromptIn(eps, current, p).cur
<1>0. out = IF HasSystem(current.body) THEN [current EXCEPT !.body = Prompted(@, p)] ELSE current
  BY DEF PromptIn
<1> HIDE DEF out
<1>1. CASE current = None
  <2>1. ~HasSystem(current.body)
    BY <1>1 DEF None, HasSystem
  <2> QED
    BY <1>0, <1>1, <2>1 DEF Own, out
<1>2. CASE current # None /\ ~Own
  <2>1. PICK b : current = [id |-> Active, body |-> b]
    BY <1>2 DEF ArchiveInv, Shaped
  <2>2. \E body : out = [id |-> Active, body |-> body]
    BY <1>0, <2>1
  <2>3. out # None
    BY <2>2 DEF None, Active, NoEp
  <2> QED
    BY <1>2, <2>2, <2>3 DEF out
<1>3. CASE Own
  <2>1. OwnKept
    BY <1>3 DEF ArchiveInv, Shaped, Own, Active
  <2>2. current \in [id : OwnIds(said), body : Seq(Entered)]
    BY <2>1 DEF OwnKept
  <2>3. ASSUME p = Prompt \/ p = original PROVE out = current
    <3>1. CASE ~HasSystem(current.body)
      BY <1>0, <3>1
    <3>2. CASE HasSystem(current.body)
      <4>1. p = Prompt
        <5>1. PICK i \in DOMAIN current.body : IsSystem(current.body[i])
          BY <3>2 DEF HasSystem
        <5>2. original = Prompt
          BY <2>1, <5>1 DEF OwnKept, ToSet
        <5> QED
          BY <2>3, <5>2
      <4>2. Prompted(current.body, p) = current.body
        BY <2>1, <2>2, <3>2, <4>1, PromptedAlready DEF OwnKept
      <4> QED
        BY <1>0, <2>2, <3>2, <4>2
    <3> QED
      BY <3>1, <3>2
  <2>4. out # None
    <3>1. out.id = current.id
      BY <1>0, <2>2
    <3>2. current.id # NoEp
      BY <2>2 DEF OwnIds, NoEp
    <3> QED
      BY <3>1, <3>2 DEF None
  <2> QED
    BY <1>3, <2>3, <2>4 DEF Own, out
<1> QED
  BY <1>1, <1>2, <1>3

LEMMA FamilyKept ==
  ASSUME ArchiveInv, FamilyChanges PROVE ArchiveInv' /\ ArchivesStay
<1>1. /\ UNCHANGED <<nextSeq, original, index, disk, worker, held, said>> /\ worker = "tool"
      /\ current' = PromptIn(episodes, current, original).cur
  BY DEF FamilyChanges
<1>2. CASE Own
  <2>1. current' = current
    BY <1>1, <1>2, PromptedCurrent
  <2> QED
    BY <1>1, <2>1, SameKept DEF Up
<1>3. CASE ~Own
  <2>1. Numbered' /\ ArchivesStay
    BY <1>1, DiskStays DEF ArchiveInv, Numbered
  <2>2. current' = None \/ \E body : current' = [id |-> Active, body |-> body]
    BY <1>1, <1>3, PromptedCurrent
  <2>3. held' => current' # None
    BY <1>1, PromptedCurrent DEF ArchiveInv, Shaped
  <2> QED
    BY <1>1, <2>1, <2>2, <2>3 DEF ArchiveInv, Shaped
<1> QED
  BY <1>2, <1>3

LEMMA RestartKept ==
  ASSUME ArchiveInv, NEW count, Restart(count) PROVE ArchiveInv' /\ ArchivesStay
<1>1. /\ UNCHANGED <<disk, said>> /\ index' = DOMAIN disk /\ worker' = "idle" /\ held' = FALSE /\ nextSeq \in Nat /\ nextSeq >= 2
      /\ saved = [episodes |-> episodes, current |-> current, nextSeq |-> nextSeq]
  BY DEF Restart, ArchiveInv, Numbered, Shaped
<1>2. saved # Unsaved
  BY <1>1 DEF Unsaved
<1> DEFINE flat == FlatOf(saved.episodes, saved.current)
           norm == Normalized(flat)
           cur  == CurrentOf(norm)
           S    == {saved.nextSeq} \union {NumberOf(id) + 1 : id \in ToSet(IdsOf(norm)) \cap index'}
<1>3. /\ \/ \E eps : current' = PromptIn(eps, current, Prompt).cur /\ original' = Prompt
         \/ \E eps, orig : current' = PromptIn(eps, cur, orig).cur
      /\ nextSeq' = nextSeq \/ nextSeq' = Max(S)
  <2> HIDE DEF norm, flat
  <2>1. /\ CASE norm = flat -> /\ \E eps : current' = PromptIn(eps, saved.current, Prompt).cur
                               /\ original' = Prompt /\ nextSeq' = saved.nextSeq
             [] OTHER -> /\ \E eps, orig : current' = PromptIn(eps, cur, orig).cur
                         /\ nextSeq' = Max(S)
    BY <1>2 DEF Restart, NextOf, norm, flat
  <2> QED
    BY <2>1, <1>1
<1> HIDE DEF norm
<1>4. Max(S) = nextSeq
  <2>1. \A id \in index' : NumberOf(id) + 1 \in Int /\ NumberOf(id) + 1 <= nextSeq
    BY <1>1 DEF ArchiveInv, Numbered, NumberOf
  <2>2. S \in SUBSET Int /\ nextSeq \in S /\ \A m \in S : m <= nextSeq
    BY <1>1, <2>1
  <2> HIDE DEF S
  <2> QED
    BY <2>2, GreatestIsMax
<1>5. Numbered' /\ ArchivesStay
  BY <1>1, <1>3, <1>4, DiskStays DEF ArchiveInv, Numbered
<1>6. CASE \E eps : current' = PromptIn(eps, current, Prompt).cur /\ original' = Prompt
  <2>1. CASE Own
    <3>1. current' = current /\ original' = Prompt
      BY <1>6, <2>1, PromptedCurrent
    <3>2. Own' /\ OwnKept
      BY <2>1, <3>1 DEF Own, ArchiveInv, Shaped, Active
    <3>3. OwnKept'
      BY <1>1, <3>1, <3>2 DEF OwnKept, InFlight
    <3> QED
      BY <1>1, <1>5, <3>2, <3>3 DEF ArchiveInv, Shaped
  <2>2. CASE ~Own
    <3>1. current' = None \/ \E body : current' = [id |-> Active, body |-> body]
      BY <1>6, <2>2, PromptedCurrent
    <3> QED
      BY <1>1, <1>5, <3>1 DEF ArchiveInv, Shaped
  <2> QED
    BY <2>1, <2>2
<1>7. ASSUME NEW eps, NEW orig, current' = PromptIn(eps, cur, orig).cur PROVE ArchiveInv' /\ ArchivesStay
  <2>0. current' = IF HasSystem(cur.body) THEN [cur EXCEPT !.body = Prompted(@, orig)] ELSE cur
    BY <1>7 DEF PromptIn
  <2>1. cur = None \/ \E body : cur = [id |-> Active, body |-> body]
    BY DEF CurrentOf
  <2> HIDE DEF cur
  <2>2. cur = None => ~HasSystem(cur.body)
    BY DEF None, HasSystem
  <2>3. ASSUME NEW b, cur = [id |-> Active, body |-> b]
        PROVE  \E body : current' = [id |-> Active, body |-> body]
    BY <2>0, <2>3
  <2>4. current' = None \/ \E body : current' = [id |-> Active, body |-> body]
    BY <2>0, <2>1, <2>2, <2>3
  <2> QED
    BY <1>1, <1>5, <2>4 DEF ArchiveInv, Shaped
<1> QED
  BY <1>3, <1>6, <1>7

LEMMA ArchiveStep ==
  ASSUME ArchiveInv, [PagingNext]_pagingVars PROVE ArchiveInv' /\ ArchivesStay
<1>1. CASE Answer \/ Call \/ ToolEnds
  BY <1>1, WriteKept DEF Answer, Call, ToolEnds, UnchangedByLoop
<1>2. ASSUME NEW target, NEW all, ToolChooses(target, all) PROVE ArchiveInv' /\ ArchivesStay
  BY <1>2, SameKept DEF ToolChooses, conv, Up
<1>3. ASSUME NEW id, NEW level, ToolRestores(id, level) \/ UserSetsState(id, level) PROVE ArchiveInv' /\ ArchivesStay
  BY <1>3, SameKept DEF ToolRestores, UserSetsState, SetState, Up
<1>4. ASSUME NEW id, Compact(id) PROVE ArchiveInv' /\ ArchivesStay
  BY <1>4, SameKept DEF Compact, SetState, Up
<1>5. CASE Summarize
  BY <1>5, SameKept DEF Summarize, conv
<1>6. CASE UNCHANGED pagingVars
  <2>1. Numbered' /\ ArchivesStay
    BY <1>6, DiskStays DEF ArchiveInv, Numbered, pagingVars, conv
  <2>2. Own /\ OwnKept => (Own /\ OwnKept)'
    BY <1>6 DEF Own, OwnKept, OwnIds, InFlight, Turn, pagingVars, conv
  <2> QED
    BY <1>6, <2>1, <2>2 DEF ArchiveInv, Shaped, pagingVars, conv
<1> QED
  BY <1>1, <1>2, <1>3, <1>4, <1>5, <1>6, AskKept, RequestKept, AdriftKept, MarkKept, CompressKept, FamilyKept,
     CommandKept, CloseKept, RestartKept DEF PagingNext

LEMMA ArchiveInit == PagingInit => ArchiveInv
<1> SUFFICES ASSUME PagingInit PROVE ArchiveInv
  OBVIOUS
<1>1. current = [id |-> 1, body |-> <<Prompt>>] /\ original = Prompt /\ disk = <<>> /\ DOMAIN disk = {} /\ worker = "idle" /\ said = 0
  BY DEF PagingInit
<1>2. Prompt \in Entered /\ Prompt.kind = "prompt"
  BY DEF Prompt, Msg, Entered
<1>3. <<Prompt>> \in Seq(Entered) /\ ToSet(<<Prompt>>) = {Prompt}
  BY <1>2 DEF ToSet
<1>4. Own /\ current \in [id : OwnIds(said), body : Seq(Entered)]
  BY <1>1, <1>3 DEF Own, OwnIds, None, NoEp, Active
<1>5. OwnKept
  BY <1>1, <1>2, <1>3, <1>4 DEF OwnKept, InFlight
<1>6. Numbered
  BY <1>1 DEF PagingInit, Numbered
<1> QED
  BY <1>4, <1>5, <1>6 DEF PagingInit, ArchiveInv, Shaped

\* ArchivesKept: as long as every session is closed, an archive on disk is never replaced by
\* one that lacks a message of it: the numbers are not given twice, and an episode that is
\* archived under its own id once more still has what it had (ai_agent.cpp,
\* snapshot_episode, page_out_context, and allocate_next_episode_seq of conversation.cpp).
THEOREM ArchivesAreKept == PagingSpec => ArchivesKept
<1>1. ASSUME ArchiveInv, [PagingNext]_pagingVars PROVE ArchiveInv' /\ [\A id \in DOMAIN disk : Superset(id)]_pagingVars
  BY <1>1, ArchiveStep DEF ArchivesStay
<1> QED
  BY <1>1, ArchiveInit, PTL DEF PagingSpec, ArchivesKept

-----------------------------------------------------------------------------
(* Said and kept: calls and results in order *)

\* Calls and results in entries f: the result j answers the call i of its episode when
\* nothing with their number is between the two.
Event(m) == IsCall(m) \/ IsResult(m)
Answers(f, i, j) ==
    /\ i \in DOMAIN f /\ j \in DOMAIN f /\ i < j
    /\ IsCall(f[i].m) /\ IsResult(f[j].m) /\ f[i].m.n = f[j].m.n /\ f[i].ep = f[j].ep
    /\ \A k \in DOMAIN f : i < k /\ k < j /\ Event(f[k].m) => f[k].m.n # f[i].m.n
Answered(f, i) == \E j \in DOMAIN f : Answers(f, i, j)
Open(f, i) == f[i].ep = NoEp /\ \A k \in DOMAIN f : i < k /\ Event(f[k].m) => f[k].m.n # f[i].m.n

\* Each result answers a call, and each call has an answer, or is the last of its number
\* in the current episode.
Called(f)   == \A j \in DOMAIN f : IsResult(f[j].m) => \E i \in DOMAIN f : Answers(f, i, j)
Matched(f)  == Called(f) /\ \A i \in DOMAIN f : IsCall(f[i].m) => Answered(f, i) \/ Open(f, i)
Complete(f) == Called(f) /\ \A i \in DOMAIN f : IsCall(f[i].m) => Answered(f, i)

LEMMA CompleteMatched == ASSUME NEW f, Complete(f) PROVE Matched(f)
  BY DEF Complete, Matched

\* Entries g made of entries of f, in order: at the places P of g is what f has at the
\* places h[k], no call is there without its answer, and no call or result is elsewhere in g.
Thins(f, g, P, h) ==
    /\ P \subseteq DOMAIN g /\ h \in [P -> DOMAIN f]
    /\ \A k, l \in P : k < l => h[k] < h[l]
    /\ \A k \in P : g[k].m = f[h[k]].m
    /\ \A k, l \in P : f[h[k]].ep = f[h[l]].ep => g[k].ep = g[l].ep
    /\ \A k \in DOMAIN g : k \notin P => ~Event(g[k].m)
    /\ \A i, j \in DOMAIN f : Answers(f, i, j) => ((\E k \in P : h[k] = i) <=> (\E k \in P : h[k] = j))

LEMMA ThinnedAnswer ==
  ASSUME NEW F, NEW f \in Seq(F), NEW G, NEW g \in Seq(G), NEW P, NEW h, Thins(f, g, P, h),
         NEW k \in P, NEW l \in P, Answers(f, h[k], h[l])
  PROVE  Answers(g, k, l)
<1>1. DOMAIN f \subseteq Int /\ DOMAIN g \subseteq Int /\ P \subseteq DOMAIN g
  BY DEF Thins
<1>2. h[k] < h[l] /\ h[k] \in DOMAIN f /\ h[l] \in DOMAIN f
  BY DEF Answers, Thins
<1>3. k < l
  <2>1. ~(l < k)
    <3>1. l < k => h[l] < h[k]
      BY DEF Thins
    <3> QED
      BY <1>1, <1>2, <3>1
  <2>2. k # l
    BY <1>1, <1>2
  <2> QED
    BY <1>1, <2>1, <2>2
<1>4. g[k].m = f[h[k]].m /\ g[l].m = f[h[l]].m /\ g[k].ep = g[l].ep
  BY DEF Thins, Answers
<1>5. ASSUME NEW p \in DOMAIN g, k < p, p < l, Event(g[p].m) PROVE g[p].m.n # g[k].m.n
  <2>1. p \in P
    BY <1>5 DEF Thins
  <2>2. h[k] < h[p] /\ h[p] < h[l] /\ h[p] \in DOMAIN f /\ g[p].m = f[h[p]].m
    BY <1>5, <2>1 DEF Thins
  <2> QED
    BY <1>4, <1>5, <2>2 DEF Answers
<1> QED
  BY <1>1, <1>3, <1>4, <1>5 DEF Answers

LEMMA ThinnedCalled ==
  ASSUME NEW F, NEW f \in Seq(F), NEW G, NEW g \in Seq(G), NEW P, NEW h, Thins(f, g, P, h), Called(f)
  PROVE  /\ Called(g)
         /\ \A k \in P : Answered(f, h[k]) => Answered(g, k)
<1>1. Called(g)
  <2> SUFFICES ASSUME NEW l \in DOMAIN g, IsResult(g[l].m) PROVE \E k \in DOMAIN g : Answers(g, k, l)
    BY DEF Called
  <2>1. l \in P /\ IsResult(f[h[l]].m) /\ h[l] \in DOMAIN f
    BY DEF Thins, Event
  <2>2. PICK i \in DOMAIN f : Answers(f, i, h[l])
    BY <2>1 DEF Called
  <2>3. PICK k \in P : h[k] = i
    BY <2>1, <2>2 DEF Thins
  <2>4. Answers(g, k, l)
    BY <2>1, <2>2, <2>3, ThinnedAnswer
  <2> QED
    BY <2>4 DEF Answers
<1>2. ASSUME NEW k \in P, Answered(f, h[k]) PROVE Answered(g, k)
  <2>1. PICK j \in DOMAIN f : Answers(f, h[k], j)
    BY <1>2 DEF Answered
  <2>2. h[k] \in DOMAIN f
    BY DEF Thins
  <2>3. PICK l \in P : h[l] = j
    BY <2>1, <2>2 DEF Thins
  <2>4. Answers(g, k, l)
    BY <2>1, <2>3, ThinnedAnswer
  <2> QED
    BY <2>4 DEF Answers, Answered
<1> QED
  BY <1>1, <1>2

LEMMA ThinnedComplete ==
  ASSUME NEW F, NEW f \in Seq(F), NEW G, NEW g \in Seq(G), NEW P, NEW h, Thins(f, g, P, h), Called(f),
         \A k \in P : IsCall(f[h[k]].m) => Answered(f, h[k])
  PROVE  Complete(g)
<1>1. Called(g) /\ \A k \in P : Answered(f, h[k]) => Answered(g, k)
  BY ThinnedCalled
<1>2. ASSUME NEW k \in DOMAIN g, IsCall(g[k].m) PROVE Answered(g, k)
  <2>1. k \in P /\ IsCall(f[h[k]].m)
    BY <1>2 DEF Thins, Event
  <2> QED
    BY <1>1, <2>1
<1> QED
  BY <1>1, <1>2 DEF Complete

LEMMA ThinnedOpen ==
  ASSUME NEW F, NEW f \in Seq(F), NEW G, NEW g \in Seq(G), NEW P, NEW h, Thins(f, g, P, h),
         NEW k \in P, Open(f, h[k]), g[k].ep = NoEp
  PROVE  Open(g, k)
<1>1. h[k] \in DOMAIN f /\ g[k].m = f[h[k]].m
  BY DEF Thins
<1>2. ASSUME NEW l \in DOMAIN g, k < l, Event(g[l].m) PROVE g[l].m.n # g[k].m.n
  <2>1. l \in P /\ h[l] \in DOMAIN f /\ h[k] < h[l] /\ g[l].m = f[h[l]].m
    BY <1>2 DEF Thins
  <2> QED
    BY <1>1, <1>2, <2>1 DEF Open
<1> QED
  BY <1>2 DEF Open

LEMMA ThinnedMatched ==
  ASSUME NEW F, NEW f \in Seq(F), NEW G, NEW g \in Seq(G), NEW P, NEW h, Thins(f, g, P, h), Matched(f),
         \A k \in P : f[h[k]].ep = NoEp => g[k].ep = NoEp
  PROVE  Matched(g)
<1>1. Called(g) /\ \A k \in P : Answered(f, h[k]) => Answered(g, k)
  BY ThinnedCalled DEF Matched
<1>2. ASSUME NEW k \in DOMAIN g, IsCall(g[k].m) PROVE Answered(g, k) \/ Open(g, k)
  <2>1. k \in P /\ IsCall(f[h[k]].m) /\ h[k] \in DOMAIN f /\ g[k].m = f[h[k]].m
    BY <1>2 DEF Thins, Event
  <2>2. CASE Answered(f, h[k])
    BY <1>1, <2>1, <2>2
  <2>3. CASE Open(f, h[k])
    BY <2>1, <2>3, ThinnedOpen DEF Open
  <2> QED
    BY <2>1, <2>2, <2>3 DEF Matched
<1> QED
  BY <1>1, <1>2 DEF Matched

\* What is complete can be put in front.
LEMMA JoinedCalls ==
  ASSUME NEW S, NEW f \in Seq(S), NEW g \in Seq(S), Complete(f)
  PROVE  (Matched(g) => Matched(f \o g)) /\ (Complete(g) => Complete(f \o g))
<1> DEFINE r == f \o g
           n == Len(f)
<1>1. /\ r \in Seq(S) /\ Len(r) = n + Len(g) /\ n \in Nat /\ Len(g) \in Nat
      /\ \A i \in 1..n : r[i] = f[i]
      /\ \A i \in 1..Len(g) : r[n + i] = g[i]
      /\ \A i \in n + 1..n + Len(g) : r[i] = g[i - n]
  BY Concatenated
<1> HIDE DEF r
<1>2. DOMAIN r = 1..n + Len(g) /\ DOMAIN f = 1..n /\ DOMAIN g = 1..Len(g)
  BY <1>1
<1>3. ASSUME NEW i \in DOMAIN f, NEW j \in DOMAIN f, Answers(f, i, j) PROVE Answers(r, i, j)
  <2>1. \A k \in DOMAIN r : k < j => k \in DOMAIN f
    BY <1>1, <1>2
  <2>2. \A k \in DOMAIN f : k \in DOMAIN r /\ r[k] = f[k]
    BY <1>1, <1>2
  <2>3. ASSUME NEW k \in DOMAIN r, i < k, k < j, Event(r[k].m) PROVE r[k].m.n # r[i].m.n
    <3>1. k \in DOMAIN f /\ r[k] = f[k] /\ r[i] = f[i]
      BY <2>1, <2>2, <2>3
    <3> QED
      BY <1>3, <2>3, <3>1 DEF Answers
  <2> QED
    BY <1>3, <2>2, <2>3 DEF Answers
<1>4. ASSUME NEW i \in DOMAIN g, NEW j \in DOMAIN g, Answers(g, i, j) PROVE Answers(r, n + i, n + j)
  <2>1. r[n + i] = g[i] /\ r[n + j] = g[j] /\ n + i \in DOMAIN r /\ n + j \in DOMAIN r
    BY <1>1, <1>2
  <2>2. \A k \in DOMAIN r : n + i < k => k - n \in DOMAIN g /\ r[k] = g[k - n]
    BY <1>1, <1>2
  <2>3. ASSUME NEW k \in DOMAIN r, n + i < k, k < n + j, Event(r[k].m) PROVE r[k].m.n # r[n + i].m.n
    <3>1. k - n \in DOMAIN g /\ r[k] = g[k - n] /\ i < k - n /\ k - n < j
      BY <1>1, <1>2, <2>2, <2>3
    <3> QED
      BY <1>4, <2>1, <2>3, <3>1 DEF Answers
  <2>4. n + i < n + j
    BY <1>1, <1>2, <1>4 DEF Answers
  <2> QED
    BY <1>4, <2>1, <2>3, <2>4 DEF Answers
<1>5. ASSUME NEW i \in DOMAIN g, Open(g, i) PROVE Open(r, n + i)
  <2>1. r[n + i] = g[i]
    BY <1>1, <1>2
  <2>2. ASSUME NEW k \in DOMAIN r, n + i < k, Event(r[k].m) PROVE r[k].m.n # r[n + i].m.n
    <3>1. k - n \in DOMAIN g /\ r[k] = g[k - n] /\ i < k - n
      BY <1>1, <1>2, <2>2
    <3> QED
      BY <1>5, <2>1, <2>2, <3>1 DEF Open
  <2> QED
    BY <1>5, <2>1, <2>2 DEF Open
<1>6. ASSUME NEW k \in DOMAIN r
      PROVE  (k \in DOMAIN f /\ r[k] = f[k]) \/ \E i \in DOMAIN g : k = n + i /\ r[k] = g[i]
  <2>1. CASE k <= n
    BY <1>1, <1>2, <2>1
  <2>2. CASE k > n
    <3>1. k - n \in DOMAIN g /\ k = n + (k - n) /\ r[k] = g[k - n]
      BY <1>1, <1>2, <2>2
    <3> QED
      BY <3>1
  <2> QED
    BY <1>1, <1>2, <2>1, <2>2
<1>7. ASSUME NEW i \in DOMAIN f, Answered(f, i) PROVE Answered(r, i)
  BY <1>3, <1>7 DEF Answered, Answers
<1>8. ASSUME NEW i \in DOMAIN g, Answered(g, i) PROVE Answered(r, n + i)
  BY <1>4, <1>8 DEF Answered, Answers
<1>9. Called(g) => Called(r)
  <2> SUFFICES ASSUME Called(g), NEW k \in DOMAIN r, IsResult(r[k].m) PROVE \E i \in DOMAIN r : Answers(r, i, k)
    BY DEF Called
  <2>1. CASE k \in DOMAIN f /\ r[k] = f[k]
    <3>1. PICK i \in DOMAIN f : Answers(f, i, k)
      BY <2>1 DEF Called, Complete
    <3> QED
      BY <1>3, <2>1, <3>1 DEF Answers
  <2>2. ASSUME NEW j \in DOMAIN g, k = n + j, r[k] = g[j] PROVE \E i \in DOMAIN r : Answers(r, i, k)
    <3>1. PICK i \in DOMAIN g : Answers(g, i, j)
      BY <2>2 DEF Called
    <3> QED
      BY <1>4, <2>2, <3>1 DEF Answers
  <2> QED
    BY <1>6, <2>1, <2>2
<1>10. Matched(g) => Matched(r)
  <2> SUFFICES ASSUME Matched(g), NEW k \in DOMAIN r, IsCall(r[k].m) PROVE Answered(r, k) \/ Open(r, k)
    BY <1>9 DEF Matched
  <2> QED
    BY <1>5, <1>6, <1>7, <1>8 DEF Matched, Complete
<1>11. Complete(g) => Complete(r)
  <2> SUFFICES ASSUME Complete(g), NEW k \in DOMAIN r, IsCall(r[k].m) PROVE Answered(r, k)
    BY <1>9 DEF Complete
  <2> QED
    BY <1>6, <1>7, <1>8 DEF Complete
<1> QED
  BY <1>10, <1>11 DEF r

-----------------------------------------------------------------------------
(* Said and kept: what the conversation is sent as, and made of again *)

\* What a conversation is made of, and the entries it is sent as.  The numbers of the
\* calls and results of one are below L.
Message(L)    == {m \in [kind : {"prompt", "anchor", "user", "partial", "answer", "call", "result", "marked"}, n : Int] :
                    Event(m) => m.n < L}
Compactions   == Levels \union {0, 1, PagedOut}
EpisodeSet(L) == [id : Int, level : Compactions, body : Seq(Message(L))]
CurrentSet(L) == [id : Int, body : Seq(Message(L))]
Entry(L)      == [m : Message(L), ep : Int, level : Compactions]

\* What the proof follows: what was said, and, if R, the results too.
Kept(m, R) == Said(m) \/ (R /\ IsResult(m))

\* What an episode says is in its archive on the disk d, and so are the entries of one.
InArchive(d, id, m) == id \in DOMAIN d /\ m \in ToSet(d[id])
Sound(body, R)   == R => Complete(Loose(body))
Ordered(body, R) == R => Matched(Loose(body))
Backed(ep, d, R) == Sound(ep.body, R) /\ \A m \in ToSet(ep.body) : Kept(m, R) => InArchive(d, ep.id, m)
Behind(eps, d, R) == \A i \in DOMAIN eps : Backed(eps[i], d, R)
EntriesBehind(flat, d, R) ==
    /\ R => Matched(flat)
    /\ \A x \in ToSet(flat) : Kept(x.m, R) /\ x.ep # NoEp => InArchive(d, x.ep, x.m)

\* The entries have what the current episode says.
Carries(flat, body) == \A m \in ToSet(body) : \E x \in ToSet(flat) : x.m = m /\ x.ep = NoEp

LEMMA ShownEntries ==
  ASSUME NEW L \in Int, NEW R \in BOOLEAN, NEW ep \in EpisodeSet(L)
  PROVE  /\ Shown(ep) \in Seq(Entry(L))
         /\ \A x \in ToSet(Shown(ep)) : x.ep = ep.id /\ (Kept(x.m, R) => x.m \in ToSet(ep.body))
<1> DEFINE a == <<Anchor(ep.id)>>
           lines == CASE ep.level = PagedOut -> a
                      [] ep.level = 0   -> ep.body
                      [] OTHER          -> a \o ep.body
           shown == [i \in DOMAIN lines |-> [m |-> lines[i], ep |-> ep.id, level |-> ep.level]]
<1>0. ep.id \in Int /\ ep.level \in Compactions /\ ep.body \in Seq(Message(L))
  BY DEF EpisodeSet
<1>1. Anchor(ep.id) \in Message(L) /\ ~Kept(Anchor(ep.id), R)
  BY <1>0 DEF Anchor, Msg, Message, Kept, Said, Event, IsCall, IsResult
<1>2. a \in Seq(Message(L)) /\ ToSet(a) = {Anchor(ep.id)}
  BY <1>1 DEF ToSet
<1> HIDE DEF a
<1>3. a \o ep.body \in Seq(Message(L)) /\ ToSet(a \o ep.body) = ToSet(a) \union ToSet(ep.body)
  BY <1>0, <1>2, JoinedSet
<1>4. lines \in Seq(Message(L)) /\ \A m \in ToSet(lines) : Kept(m, R) => m \in ToSet(ep.body)
  <2>1. CASE ep.level = PagedOut
    BY <1>1, <1>2, <2>1 DEF PagedOut
  <2>2. CASE ep.level = 0 /\ ep.level # PagedOut
    BY <1>0, <2>2
  <2>3. CASE ep.level # 0 /\ ep.level # PagedOut
    BY <1>1, <1>2, <1>3, <2>3
  <2> QED
    BY <2>1, <2>2, <2>3
<1>5. Shown(ep) = shown
  BY DEF Shown, a
<1> HIDE DEF lines
<1>6. Len(lines) \in Nat /\ DOMAIN lines = 1..Len(lines) /\ \A i \in DOMAIN lines : lines[i] \in Message(L)
  BY <1>4
<1>7. shown \in [1..Len(lines) -> Entry(L)]
  BY <1>0, <1>6 DEF Entry
<1>8. shown \in Seq(Entry(L))
  BY <1>6, <1>7, FunctionIsSeq
<1>9. \A x \in ToSet(shown) : x.ep = ep.id /\ x.m \in ToSet(lines)
  BY DEF ToSet
<1> QED
  BY <1>4, <1>5, <1>8, <1>9

LEMMA LooseEntries ==
  ASSUME NEW L \in Int, NEW body \in Seq(Message(L))
  PROVE  /\ Loose(body) \in Seq(Entry(L)) /\ Len(Loose(body)) = Len(body) /\ DOMAIN Loose(body) = DOMAIN body
         /\ \A i \in DOMAIN body : Loose(body)[i].m = body[i] /\ Loose(body)[i].ep = NoEp
         /\ \A x \in ToSet(Loose(body)) : x.ep = NoEp
         /\ \A m \in ToSet(body) : \E x \in ToSet(Loose(body)) : x.m = m
<1>1. Len(body) \in Nat /\ DOMAIN body = 1..Len(body) /\ \A i \in DOMAIN body : body[i] \in Message(L)
  OBVIOUS
<1>2. Loose(body) = [i \in DOMAIN body |-> [m |-> body[i], ep |-> NoEp, level |-> 0]]
  BY DEF Loose
<1>3. Loose(body) \in [1..Len(body) -> Entry(L)]
  BY <1>1, <1>2 DEF Entry, NoEp, Compactions
<1>4. Loose(body) \in Seq(Entry(L)) /\ Len(Loose(body)) = Len(body)
  BY <1>1, <1>3, FunctionIsSeq
<1>5. \A x \in ToSet(Loose(body)) : x.ep = NoEp
  BY <1>2 DEF ToSet
<1>6. \A i \in DOMAIN body : Loose(body)[i] \in ToSet(Loose(body)) /\ Loose(body)[i].m = body[i]
  BY <1>2 DEF ToSet
<1>7. \A m \in ToSet(body) : \E x \in ToSet(Loose(body)) : x.m = m
  BY <1>6 DEF ToSet
<1>8. DOMAIN Loose(body) = DOMAIN body /\ \A i \in DOMAIN body : Loose(body)[i].m = body[i] /\ Loose(body)[i].ep = NoEp
  BY <1>2
<1> QED
  BY <1>4, <1>5, <1>7, <1>8

\* An episode that is complete is so with its anchor in front, and without its messages.
LEMMA ShownComplete ==
  ASSUME NEW L \in Int, NEW ep \in EpisodeSet(L), Complete(Loose(ep.body))
  PROVE  Complete(Shown(ep))
<1> DEFINE f == Loose(ep.body)
           g == Shown(ep)
           b == ep.body
           a == <<Anchor(ep.id)>>
           n == Len(b)
<1>0. ep.id \in Int /\ b \in Seq(Message(L)) /\ n \in Nat /\ DOMAIN b = 1..n
  BY DEF EpisodeSet
<1>1. f \in Seq(Entry(L)) /\ DOMAIN f = 1..n /\ \A i \in 1..n : f[i].m = b[i] /\ f[i].ep = NoEp
  BY <1>0, LooseEntries
<1>2. g \in Seq(Entry(L))
  BY ShownEntries
<1>3. Anchor(ep.id) \in Message(L) /\ ~Event(Anchor(ep.id))
  BY <1>0 DEF Anchor, Msg, Message, Event, IsCall, IsResult
<1>4. \A i, j \in DOMAIN f : Answers(f, i, j) => i \in 1..n /\ j \in 1..n
  BY <1>1
<1>5. Called(f) /\ \A i \in DOMAIN f : IsCall(f[i].m) => Answered(f, i)
  BY DEF Complete
<1>6. CASE ep.level = PagedOut
  <2>10. DOMAIN a = {1} /\ a[1] = Anchor(ep.id)
    OBVIOUS
  <2>11. g = [i \in DOMAIN a |-> [m |-> a[i], ep |-> ep.id, level |-> ep.level]]
    <3> DEFINE lines == CASE ep.level = PagedOut -> a
                          [] ep.level = 0   -> ep.body
                          [] OTHER          -> a \o ep.body
    <3>1. lines = a
      BY <1>6 DEF PagedOut
    <3>2. g = [i \in DOMAIN lines |-> [m |-> lines[i], ep |-> ep.id, level |-> ep.level]]
      BY DEF Shown
    <3> HIDE DEF lines, a, g
    <3> QED
      BY <3>1, <3>2
  <2> HIDE DEF a, g
  <2>0. g = [i \in {1} |-> [m |-> a[i], ep |-> ep.id, level |-> ep.level]] /\ a[1] = Anchor(ep.id)
    BY <2>10, <2>11
  <2>1. DOMAIN g = {1} /\ g[1].m = Anchor(ep.id)
    BY <2>0
  <2> HIDE DEF f, g
  <2>2. Called(g)
    BY <1>3, <2>1 DEF Called, Event
  <2>3. \A i \in DOMAIN g : ~IsCall(g[i].m)
    BY <1>3, <2>1 DEF Event
  <2> QED
    BY <2>2, <2>3 DEF Complete, g
<1>7. CASE ep.level # PagedOut /\ ep.level = 0
  <2> DEFINE h == [k \in 1..n |-> k]
  <2>1. g = [i \in DOMAIN b |-> [m |-> b[i], ep |-> ep.id, level |-> ep.level]]
    BY <1>7 DEF Shown
  <2>2. DOMAIN g = 1..n /\ \A k \in 1..n : g[k].m = b[k] /\ g[k].ep = ep.id
    BY <1>0, <2>1
  <2> HIDE DEF f, g
  <2>3. Thins(f, g, 1..n, h)
    BY <1>1, <1>4, <2>2 DEF Thins
  <2>4. \A k \in 1..n : h[k] \in DOMAIN f
    BY <1>1
  <2> HIDE DEF h
  <2> QED
    BY <1>1, <1>2, <1>5, <2>3, <2>4, ThinnedComplete DEF g
<1>8. CASE ep.level # PagedOut /\ ep.level # 0
  <2> DEFINE h == [k \in 2..n + 1 |-> k - 1]
             lines == a \o b
  <2>1. g = [i \in DOMAIN lines |-> [m |-> lines[i], ep |-> ep.id, level |-> ep.level]]
    BY <1>8 DEF Shown
  <2>2. a \in Seq(Message(L)) /\ Len(a) = 1 /\ a[1] = Anchor(ep.id)
    BY <1>3
  <2> HIDE DEF a, b
  <2>10. /\ lines \in Seq(Message(L)) /\ Len(lines) = Len(a) + Len(b)
         /\ \A i \in 1..Len(a) : lines[i] = a[i]
         /\ \A i \in 1..Len(b) : lines[Len(a) + i] = b[i]
    <3>1. b \in Seq(Message(L)) /\ a \in Seq(Message(L))
      BY <1>0, <2>2
    <3> QED
      BY <3>1, Concatenated
  <2> HIDE DEF lines
  <2>3. /\ lines \in Seq(Message(L)) /\ Len(lines) = 1 + n /\ lines[1] = Anchor(ep.id)
        /\ \A i \in 1..n : lines[1 + i] = b[i]
    BY <1>0, <2>2, <2>10
  <2>4. DOMAIN lines = 1..n + 1 /\ \A k \in 2..n + 1 : lines[k] = b[k - 1]
    <3>1. \A k \in 2..n + 1 : k - 1 \in 1..n /\ k = 1 + (k - 1)
      BY <1>0
    <3> QED
      BY <1>0, <2>3, <3>1
  <2>5. /\ DOMAIN g = 1..n + 1 /\ g[1].m = Anchor(ep.id) /\ \A k \in 1..n + 1 : g[k].ep = ep.id
        /\ \A k \in 2..n + 1 : g[k].m = b[k - 1]
    BY <1>0, <2>1, <2>3, <2>4
  <2> HIDE DEF f, g
  <2>6. \A k \in 2..n + 1 : h[k] = k - 1 /\ h[k] \in DOMAIN f
    BY <1>0, <1>1
  <2>7. h \in [2..n + 1 -> DOMAIN f]
    BY <2>6
  <2> HIDE DEF h
  <2>8. \A i \in 1..n : i + 1 \in 2..n + 1 /\ h[i + 1] = i
    BY <1>0, <2>6
  <2>9. Thins(f, g, 2..n + 1, h)
    <3>1. \A k \in DOMAIN g : k \notin 2..n + 1 => ~Event(g[k].m)
      BY <1>0, <1>3, <2>5
    <3>2. \A i, j \in DOMAIN f : Answers(f, i, j) => ((\E k \in 2..n + 1 : h[k] = i) <=> (\E k \in 2..n + 1 : h[k] = j))
      BY <1>1, <2>8
    <3>3. \A k, l \in 2..n + 1 : k < l => h[k] < h[l]
      BY <1>0, <2>6
    <3>4. \A k \in 2..n + 1 : g[k].m = f[h[k]].m /\ k \in DOMAIN g
      <4> SUFFICES ASSUME NEW k \in 2..n + 1 PROVE g[k].m = f[h[k]].m /\ k \in DOMAIN g
        OBVIOUS
      <4>1. k - 1 \in 1..n /\ h[k] = k - 1
        BY <1>0, <2>6
      <4>2. k \in DOMAIN g
        BY <1>0, <2>5
      <4> QED
        BY <1>1, <2>5, <4>1, <4>2
    <3> QED
      BY <2>5, <2>7, <3>1, <3>2, <3>3, <3>4 DEF Thins
  <2> QED
    BY <1>1, <1>2, <1>5, <2>6, <2>9, ThinnedComplete DEF g
<1> QED
  BY <1>6, <1>7, <1>8

\* What is sent: the entries of an episode are in its archive, and the current episode is
\* there in full.
LEMMA FlatEntries ==
  ASSUME NEW L \in Int, NEW R \in BOOLEAN, NEW eps \in Seq(EpisodeSet(L)), NEW cur, NEW d,
         cur.body \in Seq(Message(L)), Behind(eps, d, R), Ordered(cur.body, R)
  PROVE  LET flat == FlatOf(eps, cur) IN
         flat \in Seq(Entry(L)) /\ EntriesBehind(flat, d, R) /\ Carries(flat, cur.body)
<1> DEFINE ss == [i \in DOMAIN eps |-> Shown(eps[i])]
           a == FlattenSeq(ss)
           b == Loose(cur.body)
           n == Len(eps)
<1>1. n \in Nat /\ DOMAIN eps = 1..n /\ \A i \in 1..n : eps[i] \in EpisodeSet(L)
  OBVIOUS
<1>2. ss \in [1..n -> Seq(Entry(L))]
  BY <1>1, ShownEntries
<1>3. a \in Seq(Entry(L)) /\ \A x \in ToSet(a) : \E i \in 1..n : x \in ToSet(ss[i])
  <2> HIDE DEF ss, n
  <2> QED
    BY <1>1, <1>2, Flattened
<1>4. \A x \in ToSet(a) : Kept(x.m, R) => InArchive(d, x.ep, x.m)
  <2> SUFFICES ASSUME NEW x \in ToSet(a), Kept(x.m, R) PROVE InArchive(d, x.ep, x.m)
    OBVIOUS
  <2>1. PICK i \in 1..n : x \in ToSet(Shown(eps[i]))
    BY <1>1, <1>3
  <2>2. x.ep = eps[i].id /\ x.m \in ToSet(eps[i].body)
    BY <1>1, <2>1, ShownEntries
  <2> QED
    BY <1>1, <2>2 DEF Backed, Behind
<1>5. b \in Seq(Entry(L)) /\ (\A x \in ToSet(b) : x.ep = NoEp) /\ \A m \in ToSet(cur.body) : \E x \in ToSet(b) : x.m = m
  BY LooseEntries
<1> HIDE DEF a, b
<1>6. a \o b \in Seq(Entry(L)) /\ ToSet(a \o b) = ToSet(a) \union ToSet(b)
  BY <1>3, <1>5, JoinedSet
<1>7. FlatOf(eps, cur) = a \o b
  BY DEF FlatOf, a, b
<1>8. R => Matched(a \o b)
  <2> SUFFICES ASSUME R PROVE Matched(a \o b)
    OBVIOUS
  <2> DEFINE T == {f \in Seq(Entry(L)) : Complete(f)}
  <2>1. \A i \in 1..n : Complete(Shown(eps[i]))
    BY <1>1, ShownComplete DEF Backed, Behind, Sound
  <2>2. ss \in [1..n -> T]
    BY <1>1, <1>2, <2>1
  <2>3. <<>> \in T
    BY DEF Complete, Called
  <2>4. \A f, g \in T : f \o g \in T
    BY JoinedCalls, ConcatProperties
  <2> HIDE DEF T, ss
  <2>5. FlattenSeq(ss) \in T
    <3>1. T \in SUBSET Seq(Entry(L))
      BY DEF T
    <3> QED
      BY <1>1, <2>2, <2>3, <2>4, <3>1, FlattenedIn
  <2>6. Complete(a)
    BY <2>5 DEF T, a
  <2>7. Matched(b)
    BY DEF b, Ordered
  <2> QED
    BY <1>3, <1>5, <2>6, <2>7, JoinedCalls
<1>9. EntriesBehind(a \o b, d, R)
  BY <1>4, <1>5, <1>6, <1>8 DEF EntriesBehind
<1>10. Carries(a \o b, cur.body)
  BY <1>5, <1>6 DEF Carries
<1> QED
  BY <1>6, <1>7, <1>9, <1>10

LEMMA BodyEntries ==
  ASSUME NEW L \in Int, NEW flat \in Seq(Entry(L)), NEW id
  PROVE  /\ BodyOf(flat, id) \in Seq(Message(L))
         /\ \A m : m \in ToSet(BodyOf(flat, id)) <=> \E x \in ToSet(flat) : x.ep = id /\ x.m = m
<1> DEFINE ss == [i \in DOMAIN flat |-> IF flat[i].ep = id THEN <<flat[i].m>> ELSE <<>>]
           n == Len(flat)
<1>0. n \in Nat /\ DOMAIN flat = 1..n /\ \A i \in 1..n : flat[i] \in Entry(L)
  OBVIOUS
<1>1. \A i \in 1..n : flat[i].m \in Message(L)
  BY <1>0 DEF Entry
<1>2. \A i \in 1..n : ss[i] \in Seq(Message(L)) /\ ToSet(ss[i]) = IF flat[i].ep = id THEN {flat[i].m} ELSE {}
  BY <1>0, <1>1 DEF ToSet
<1>3. ss \in [1..n -> Seq(Message(L))]
  BY <1>0, <1>2
<1>4. BodyOf(flat, id) = FlattenSeq(ss)
  BY DEF BodyOf
<1> HIDE DEF ss, n
<1>5. /\ FlattenSeq(ss) \in Seq(Message(L))
      /\ \A m : m \in ToSet(FlattenSeq(ss)) <=> \E i \in 1..n : m \in ToSet(ss[i])
  BY <1>0, <1>3, Flattened
<1>6. \A m : m \in ToSet(FlattenSeq(ss)) <=> \E i \in 1..n : flat[i].ep = id /\ flat[i].m = m
  <2>1. \A i \in 1..n : \A m : m \in ToSet(ss[i]) <=> flat[i].ep = id /\ flat[i].m = m
    BY <1>2
  <2> QED
    BY <1>5, <2>1
<1>7. \A m : (\E i \in 1..n : flat[i].ep = id /\ flat[i].m = m) <=> \E x \in ToSet(flat) : x.ep = id /\ x.m = m
  BY <1>0 DEF ToSet
<1> QED
  BY <1>4, <1>5, <1>6, <1>7

\* The messages of an episode, and those of none, are in order.
LEMMA BodyOrdered ==
  ASSUME NEW L \in Int, NEW flat \in Seq(Entry(L)), NEW id, Matched(flat)
  PROVE  /\ id # NoEp => Complete(Loose(BodyOf(flat, id)))
         /\ id = NoEp => Matched(Loose(BodyOf(flat, id)))
<1> DEFINE n == Len(flat)
           K == {i \in 1..n : flat[i].ep = id}
           x == [i \in 1..n |-> flat[i].m]
           ss == [i \in 1..n |-> IF i \in K THEN <<x[i]>> ELSE <<>>]
           b == BodyOf(flat, id)
           g == Loose(b)
<1>0. n \in Nat /\ DOMAIN flat = 1..n /\ \A i \in 1..n : flat[i] \in Entry(L)
  OBVIOUS
<1>1. b = FlattenSeq(ss)
  <2>1. ss = [i \in DOMAIN flat |-> IF flat[i].ep = id THEN <<flat[i].m>> ELSE <<>>]
    BY <1>0
  <2> HIDE DEF ss
  <2> QED
    BY <2>1 DEF BodyOf
<1>2. K \in SUBSET (1..n) /\ \A i \in K : x[i] \in Message(L) /\ x[i] = flat[i].m
  BY <1>0 DEF Entry
<1> DEFINE flatK == FlattenSeq(ss)
<1>3. PICK h : Selects(h, flatK, K, x)
  <2> HIDE DEF K, x, n
  <2> DEFINE M == Message(L)
  <2>1. \A i \in K : x[i] \in M
    BY <1>2
  <2> HIDE DEF M
  <2>2. ss = [i \in 1..n |-> IF i \in K THEN <<x[i]>> ELSE <<>>]
    OBVIOUS
  <2>3. n \in Nat /\ K \in SUBSET (1..n)
    BY <1>0, <1>2
  <2> HIDE DEF ss
  <2> QED
    BY <2>1, <2>2, <2>3, Selected
<1>4. b \in Seq(Message(L))
  BY BodyEntries
<1> HIDE DEF b, flatK
<1>5. b = flatK
  BY <1>1 DEF flatK
<1>6. g \in Seq(Entry(L)) /\ DOMAIN g = DOMAIN b /\ \A i \in DOMAIN b : g[i].m = b[i] /\ g[i].ep = NoEp
  BY <1>4, LooseEntries
<1> DEFINE P == DOMAIN b
<1>7. \A k \in P : h[k] \in K /\ b[k] = flat[h[k]].m /\ flat[h[k]].ep = id /\ h[k] \in DOMAIN flat
  BY <1>0, <1>2, <1>3, <1>5 DEF Selects
<1>8. \A i, j \in DOMAIN flat : Answers(flat, i, j) => (i \in K <=> j \in K)
  BY <1>0 DEF Answers
<1>9. \A i \in DOMAIN flat : i \in K <=> \E k \in P : h[k] = i
  BY <1>3, <1>5, <1>7 DEF Selects
<1>10. h \in [P -> DOMAIN flat] /\ \A k, l \in P : k < l => h[k] < h[l]
  BY <1>0, <1>2, <1>3, <1>5 DEF Selects
<1> HIDE DEF P, K, g
<1>11. Thins(flat, g, P, h)
  <2>1. P = DOMAIN g
    BY <1>6 DEF P
  <2>2. \A k \in P : g[k].m = flat[h[k]].m /\ g[k].ep = NoEp
    BY <1>6, <1>7 DEF P
  <2>3. \A i, j \in DOMAIN flat : Answers(flat, i, j) => ((\E k \in P : h[k] = i) <=> (\E k \in P : h[k] = j))
    BY <1>8, <1>9
  <2> QED
    BY <1>10, <2>1, <2>2, <2>3 DEF Thins
<1>12. CASE id # NoEp
  <2>1. \A k \in P : IsCall(flat[h[k]].m) => Answered(flat, h[k])
    BY <1>7, <1>12 DEF Matched, Open
  <2>2. Complete(g)
    BY <1>6, <1>11, <2>1, ThinnedComplete DEF Matched
  <2> QED
    BY <1>12, <2>2 DEF g, b
<1>13. CASE id = NoEp
  <2>1. \A k \in P : g[k].ep = NoEp
    BY <1>6 DEF P
  <2>2. Matched(g)
    BY <1>6, <1>11, <2>1, ThinnedMatched
  <2> QED
    BY <1>13, <2>2 DEF g, b
<1> QED
  BY <1>12, <1>13

LEMMA IdEntries ==
  ASSUME NEW L \in Int, NEW flat \in Seq(Entry(L))
  PROVE  /\ IdsOf(flat) \in Seq(Int)
         /\ \A id \in ToSet(IdsOf(flat)) : id # NoEp /\ PlacesOf(flat, id) # {}
<1> DEFINE First(i) == flat[i].ep # NoEp /\ \A j \in PlacesOf(flat, flat[i].ep) : i <= j
           ss == [i \in DOMAIN flat |-> IF First(i) THEN <<flat[i].ep>> ELSE <<>>]
           n == Len(flat)
<1>0. n \in Nat /\ DOMAIN flat = 1..n /\ \A i \in 1..n : flat[i] \in Entry(L)
  OBVIOUS
<1>1. \A i \in 1..n : flat[i].ep \in Int
  BY <1>0 DEF Entry
<1>2. IdsOf(flat) = FlattenSeq(ss)
  BY DEF IdsOf
<1>3. \A i \in 1..n : First(i) => flat[i].ep # NoEp
  OBVIOUS
<1> HIDE DEF First
<1>4. \A i \in 1..n : ss[i] \in Seq(Int) /\ ToSet(ss[i]) = IF First(i) THEN {flat[i].ep} ELSE {}
  BY <1>0, <1>1 DEF ToSet
<1>5. ss \in [1..n -> Seq(Int)]
  BY <1>0, <1>4
<1> HIDE DEF ss, n
<1>6. FlattenSeq(ss) \in Seq(Int) /\ \A x : x \in ToSet(FlattenSeq(ss)) => \E i \in 1..n : x \in ToSet(ss[i])
  BY <1>0, <1>5, Flattened
<1>7. \A x \in ToSet(FlattenSeq(ss)) : \E i \in 1..n : x = flat[i].ep /\ x # NoEp
  <2>1. \A i \in 1..n : \A x \in ToSet(ss[i]) : x = flat[i].ep /\ x # NoEp
    BY <1>3, <1>4
  <2> QED
    BY <1>6, <2>1
<1> QED
  BY <1>0, <1>2, <1>6, <1>7 DEF PlacesOf

\* The Conversation made of entries keeps them: those of an episode are in its archive, the
\* others in the current episode.
LEMMA EpisodesMade ==
  ASSUME NEW L \in Int, NEW R \in BOOLEAN, NEW flat \in Seq(Entry(L)), NEW d, EntriesBehind(flat, d, R)
  PROVE  EpisodesOf(flat) \in Seq(EpisodeSet(L)) /\ Behind(EpisodesOf(flat), d, R)
<1> DEFINE ids == IdsOf(flat)
           Ep(id) == [id |-> id, level |-> LevelOf(flat, id), body |-> BodyOf(flat, id)]
           eps == [i \in DOMAIN ids |-> Ep(ids[i])]
<1>1. ids \in Seq(Int) /\ \A id \in ToSet(ids) : id # NoEp /\ PlacesOf(flat, id) # {}
  BY IdEntries
<1>2. eps = EpisodesOf(flat)
  BY DEF EpisodesOf
<1> HIDE DEF ids
<1>3. Len(ids) \in Nat /\ DOMAIN ids = 1..Len(ids) /\ \A i \in DOMAIN ids : ids[i] \in Int /\ ids[i] \in ToSet(ids)
  BY <1>1 DEF ToSet
<1>4. ASSUME NEW id \in Int, PlacesOf(flat, id) # {} PROVE LevelOf(flat, id) \in Compactions
  <2>1. PlacesOf(flat, id) \in SUBSET Nat /\ PlacesOf(flat, id) \subseteq DOMAIN flat
    BY DEF PlacesOf
  <2>2. Min(PlacesOf(flat, id)) \in DOMAIN flat
    BY <1>4, <2>1, LeastIn
  <2>3. flat[Min(PlacesOf(flat, id))] \in Entry(L)
    BY <2>2
  <2> QED
    BY <2>3 DEF LevelOf, Entry
<1>5. \A id \in Int : BodyOf(flat, id) \in Seq(Message(L))
  BY BodyEntries
<1>6. \A i \in DOMAIN ids : Ep(ids[i]) \in EpisodeSet(L)
  BY <1>1, <1>3, <1>4, <1>5 DEF EpisodeSet
<1>7. eps \in [1..Len(ids) -> EpisodeSet(L)]
  BY <1>3, <1>6
<1>8. eps \in Seq(EpisodeSet(L))
  BY <1>3, <1>7, FunctionIsSeq
<1>9. Behind(eps, d, R)
  <2>0. \A i \in DOMAIN ids : Sound(BodyOf(flat, ids[i]), R)
    BY <1>1, <1>3, BodyOrdered DEF Sound, EntriesBehind
  <2> SUFFICES ASSUME NEW i \in DOMAIN ids, NEW m \in ToSet(BodyOf(flat, ids[i])), Kept(m, R)
               PROVE  InArchive(d, ids[i], m)
    BY <2>0 DEF Backed, Behind
  <2>1. \E x \in ToSet(flat) : x.ep = ids[i] /\ x.m = m
    BY BodyEntries
  <2> QED
    BY <1>1, <1>3, <2>1 DEF EntriesBehind
<1> QED
  BY <1>2, <1>8, <1>9

LEMMA CurrentMade ==
  ASSUME NEW L \in Int, NEW flat \in Seq(Entry(L))
  PROVE  /\ CurrentOf(flat) \in CurrentSet(L)
         /\ Matched(flat) => Matched(Loose(CurrentOf(flat).body))
         /\ \A x \in ToSet(flat) : x.ep = NoEp => x.m \in ToSet(CurrentOf(flat).body)
<1>1. None \in CurrentSet(L)
  BY DEF None, CurrentSet, NoEp
<1>2. [id |-> Active, body |-> BodyOf(flat, NoEp)] \in CurrentSet(L)
  BY BodyEntries DEF CurrentSet, Active
<1>3. ASSUME NEW x \in ToSet(flat), x.ep = NoEp PROVE x.m \in ToSet(CurrentOf(flat).body)
  <2>1. PlacesOf(flat, NoEp) # {}
    BY <1>3 DEF PlacesOf, ToSet
  <2>2. CurrentOf(flat).body = BodyOf(flat, NoEp)
    BY <2>1 DEF CurrentOf
  <2> QED
    BY <1>3, <2>2, BodyEntries
<1>4. ASSUME Matched(flat) PROVE Matched(Loose(CurrentOf(flat).body))
  <2>1. Matched(Loose(None.body))
    BY DEF None, Loose, Matched, Called
  <2>2. Matched(Loose(BodyOf(flat, NoEp)))
    BY <1>4, BodyOrdered
  <2> QED
    BY <2>1, <2>2 DEF CurrentOf
<1> QED
  BY <1>1, <1>2, <1>3, <1>4 DEF CurrentOf

-----------------------------------------------------------------------------
(* Said and kept: the range of a page-out cuts no group *)

\* The ranges page_out_context is given and moves, and the groups it clears.
RangeSet == [s : Nat, e : Int]
GroupSet == [first : Nat, last : Nat]

LEMMA GroupsMade ==
  ASSUME NEW L \in Int, NEW flat \in Seq(Entry(L))
  PROVE  /\ Groups(flat) \in Seq(GroupSet)
         /\ \A i \in DOMAIN flat : IsCall(flat[i].m) =>
              \E g \in ToSet(Groups(flat)) :
                /\ g.first = i - 1
                /\ \A j \in DOMAIN flat : Answers(flat, i, j) => j - 1 <= g.last
                /\ Open(flat, i) => g.last = Len(flat)
<1> DEFINE size == Len(flat)
           later(i) == {j \in (i + 1)..size : IsResult(flat[j].m) /\ flat[j].m.n = flat[i].m.n}
           group(i) == [first |-> i - 1, last |-> IF later(i) = {} THEN size ELSE Max(later(i)) - 1]
           ss == [i \in 1..size |-> IF IsCall(flat[i].m) THEN <<group(i)>> ELSE <<>>]
<1>1. size \in Nat /\ DOMAIN flat = 1..size
  OBVIOUS
<1>2. Groups(flat) = FlattenSeq(ss)
  BY DEF Groups
<1>3. ASSUME NEW i \in 1..size
      PROVE  /\ group(i) \in GroupSet /\ group(i).first = i - 1
             /\ later(i) = {} => group(i).last = size
             /\ \A j \in later(i) : j - 1 <= group(i).last
  <2>1. later(i) \in SUBSET (0..size) /\ \A j \in later(i) : j >= 1
    BY <1>1
  <2>0. group(i).first = i - 1 /\ group(i).last = IF later(i) = {} THEN size ELSE Max(later(i)) - 1
    OBVIOUS
  <2> HIDE DEF later
  <2>2. later(i) # {} => Max(later(i)) \in later(i) /\ \A j \in later(i) : j <= Max(later(i))
    BY <1>1, <2>1, GreatestIn
  <2>3. later(i) # {} => Max(later(i)) - 1 \in Nat
    BY <2>1, <2>2
  <2>4. \A j \in later(i) : j \in Int /\ later(i) # {}
    BY <2>1
  <2>5. \A j \in later(i) : j - 1 <= group(i).last
    BY <2>0, <2>1, <2>2, <2>4
  <2> QED
    BY <1>1, <2>0, <2>3, <2>5 DEF GroupSet
<1> HIDE DEF group, size
<1>4. \A i \in 1..size : ss[i] \in Seq(GroupSet) /\ (IsCall(flat[i].m) => group(i) \in ToSet(ss[i]))
  <2> SUFFICES ASSUME NEW i \in 1..size PROVE ss[i] \in Seq(GroupSet) /\ (IsCall(flat[i].m) => group(i) \in ToSet(ss[i]))
    OBVIOUS
  <2>1. <<group(i)>> \in Seq(GroupSet) /\ group(i) \in ToSet(<<group(i)>>)
    BY <1>3 DEF ToSet
  <2> QED
    BY <2>1
<1>5. ss \in [1..size -> Seq(GroupSet)]
  BY <1>4
<1> HIDE DEF ss
<1>6. FlattenSeq(ss) \in Seq(GroupSet) /\ \A x : x \in ToSet(FlattenSeq(ss)) <=> \E i \in 1..size : x \in ToSet(ss[i])
  BY <1>1, <1>5, Flattened
<1>7. ASSUME NEW i \in 1..size, IsCall(flat[i].m)
      PROVE  \E g \in ToSet(Groups(flat)) :
                /\ g.first = i - 1
                /\ \A j \in DOMAIN flat : Answers(flat, i, j) => j - 1 <= g.last
                /\ Open(flat, i) => g.last = Len(flat)
  <2>1. group(i) \in ToSet(Groups(flat))
    BY <1>2, <1>4, <1>6, <1>7
  <2>2. ASSUME NEW j \in 1..size, Answers(flat, i, j) PROVE j \in later(i)
    BY <1>1, <2>2 DEF Answers
  <2>3. ASSUME Open(flat, i) PROVE later(i) = {}
    BY <1>1, <2>3 DEF Open, Event
  <2> QED
    BY <1>1, <1>3, <2>1, <2>2, <2>3 DEF size
<1> QED
  BY <1>1, <1>2, <1>6, <1>7

\* Moving the bounds of a range makes it shorter, and a range that stays has a group
\* whole, or nothing of it.
LEMMA Cleared ==
  ASSUME NEW r \in RangeSet, NEW g \in GroupSet
  PROVE  /\ Clear(r, g) \in RangeSet
         /\ Clear(r, g) # r => Length(Clear(r, g)) < Length(r)
         /\ Clear(r, g) = r => r.s >= r.e \/ g.first > r.e - 1 \/ g.last < r.s \/ (g.first >= r.s /\ g.last <= r.e - 1)
BY DEF Clear, RangeSet, GroupSet, Length

\* No group cuts the range.
Clean(r, gs) == \A k \in DOMAIN gs : Clear(r, gs[k]) = r

LEMMA SweptClean ==
  ASSUME NEW r \in RangeSet, NEW gs \in Seq(GroupSet)
  PROVE  /\ Swept(r, gs) \in RangeSet
         /\ Clean(r, gs) => Swept(r, gs) = r
         /\ ~Clean(r, gs) => Length(Swept(r, gs)) < Length(r)
<1> DEFINE n == Len(gs)
           Sweeps(f) == f = [k \in 0..n |-> IF k = 0 THEN r ELSE Clear(f[k - 1], gs[k])]
           F == [k \in 1..n |-> [q \in RangeSet |-> Clear(q, gs[k])]]
<1>1. n \in Nat /\ DOMAIN gs = 1..n /\ \A k \in 1..n : gs[k] \in GroupSet
  OBVIOUS
<1>2. F \in [1..n -> [RangeSet -> RangeSet]]
  BY <1>1, Cleared
<1>3. \A k \in 1..n, q \in RangeSet : F[k][q] = Clear(q, gs[k])
  OBVIOUS
<1> HIDE DEF F
<1>4. PICK f : Along(f, RangeSet, n, r, F)
  BY <1>1, <1>2, Recursion
<1>5. \A k \in 1..n : f[k] = Clear(f[k - 1], gs[k])
  <2>1. \A k \in 1..n : k - 1 \in 0..n
    BY <1>1
  <2> QED
    BY <1>3, <1>4, <2>1 DEF Along
<1>6. Sweeps(f)
  BY <1>1, <1>4, <1>5 DEF Along
<1> DEFINE c == CHOOSE h : Sweeps(h)
<1>7. Sweeps(c)
  BY <1>6
<1>8. Swept(r, gs) = c[n]
  BY DEF Swept
<1> HIDE DEF c
<1> DEFINE Same(k) == \A i \in 1..k : Clear(r, gs[i]) = r
           T == {k \in 0..n : /\ c[k] \in RangeSet
                              /\ Same(k) => c[k] = r
                              /\ ~Same(k) => Length(c[k]) < Length(r)}
<1>9. 0 \in T
  BY <1>1, <1>7
<1>10. ASSUME NEW k \in 1..n, k - 1 \in T PROVE k \in T
  <2>1. k \in 0..n /\ k - 1 \in 0..n /\ \A i : i \in 1..k <=> i \in 1..k - 1 \/ i = k
    BY <1>1
  <2>2. /\ c[k - 1] \in RangeSet
        /\ Same(k - 1) => c[k - 1] = r
        /\ ~Same(k - 1) => Length(c[k - 1]) < Length(r)
    BY <1>10
  <2>3. c[k] = Clear(c[k - 1], gs[k])
    BY <1>1, <1>7, <2>1
  <2>4. c[k] \in RangeSet /\ (c[k] # c[k - 1] => Length(c[k]) < Length(c[k - 1]))
    BY <1>1, <2>2, <2>3, Cleared
  <2>5. Same(k) <=> Same(k - 1) /\ Clear(r, gs[k]) = r
    BY <2>1
  <2> HIDE DEF Same
  <2>6. Length(r) \in Nat /\ Length(c[k]) \in Nat /\ Length(c[k - 1]) \in Nat
    <3>1. \A x \in RangeSet : Length(x) \in Nat
      BY DEF Length, RangeSet
    <3> QED
      BY <2>2, <2>4, <3>1
  <2>7. Same(k) => c[k] = r
    BY <2>2, <2>3, <2>5
  <2>8. ~Same(k) => Length(c[k]) < Length(r)
    <3>1. CASE ~Same(k - 1)
      <4>1. Length(c[k]) <= Length(c[k - 1])
        BY <2>4, <2>6
      <4> QED
        BY <2>2, <2>6, <3>1, <4>1
    <3>2. CASE Same(k - 1)
      BY <2>2, <2>3, <2>4, <2>5, <3>2
    <3> QED
      BY <3>1, <3>2
  <2> QED
    BY <2>1, <2>4, <2>7, <2>8
<1>11. n \in T
  <2> HIDE DEF T
  <2>1. \A k \in 1..n : k - 1 \in T => k \in T
    BY <1>10
  <2>2. \A k \in 0..n : k \in T
    BY <1>1, <1>9, <2>1, CountingUp
  <2> QED
    BY <1>1, <2>2
<1>12. Same(n) <=> Clean(r, gs)
  BY <1>1 DEF Clean
<1> QED
  BY <1>8, <1>11, <1>12

\* As many passes as the range is long are enough.
LEMMA SettledClean ==
  ASSUME NEW r \in RangeSet, NEW gs \in Seq(GroupSet)
  PROVE  Settled(r, gs) \in RangeSet /\ Clean(Settled(r, gs), gs)
<1> DEFINE n == Length(r)
           Settles(f) == f = [k \in 0..n |-> IF k = 0 THEN r ELSE Swept(f[k - 1], gs)]
           F == [k \in 1..n |-> [q \in RangeSet |-> Swept(q, gs)]]
<1>1. n \in Nat
  BY DEF Length, RangeSet
<1>2. F \in [1..n -> [RangeSet -> RangeSet]]
  BY <1>1, SweptClean
<1>3. \A k \in 1..n, q \in RangeSet : F[k][q] = Swept(q, gs)
  OBVIOUS
<1> HIDE DEF F
<1>4. PICK f : Along(f, RangeSet, n, r, F)
  BY <1>1, <1>2, Recursion
<1>5. \A k \in 1..n : f[k] = Swept(f[k - 1], gs)
  <2>1. \A k \in 1..n : k - 1 \in 0..n
    BY <1>1
  <2> QED
    BY <1>3, <1>4, <2>1 DEF Along
<1>6. Settles(f)
  BY <1>1, <1>4, <1>5 DEF Along
<1> DEFINE c == CHOOSE h : Settles(h)
<1>7. Settles(c)
  BY <1>6
<1>8. Settled(r, gs) = c[n]
  BY DEF Settled
<1> HIDE DEF c
<1> DEFINE T == {k \in 0..n : c[k] \in RangeSet /\ (Clean(c[k], gs) \/ Length(c[k]) <= n - k)}
<1>9. 0 \in T
  BY <1>1, <1>7
<1>10. ASSUME NEW k \in 1..n, k - 1 \in T PROVE k \in T
  <2>1. k \in 0..n /\ k - 1 \in 0..n /\ c[k] = Swept(c[k - 1], gs)
    BY <1>1, <1>7
  <2>2. c[k - 1] \in RangeSet /\ (Clean(c[k - 1], gs) \/ Length(c[k - 1]) <= n - (k - 1))
    BY <1>10
  <2>3. CASE Clean(c[k - 1], gs)
    <3>1. c[k] = c[k - 1]
      BY <2>1, <2>2, <2>3, SweptClean
    <3> QED
      BY <2>1, <2>2, <2>3, <3>1
  <2>4. CASE ~Clean(c[k - 1], gs)
    <3>1. c[k] \in RangeSet /\ Length(c[k]) < Length(c[k - 1])
      BY <2>1, <2>2, <2>4, SweptClean
    <3>2. Length(c[k]) \in Nat /\ Length(c[k - 1]) \in Nat
      <4>1. \A x \in RangeSet : Length(x) \in Nat
        BY DEF Length, RangeSet
      <4> QED
        BY <2>2, <3>1, <4>1
    <3>3. Length(c[k]) <= n - k
      <4> HIDE DEF n
      <4> QED
        BY <1>1, <2>2, <2>4, <3>1, <3>2
    <3> QED
      BY <2>1, <3>1, <3>3
  <2> QED
    BY <2>3, <2>4
<1> HIDE DEF n
<1>11. n \in T
  <2> HIDE DEF T
  <2>1. \A k \in 1..n : k - 1 \in T => k \in T
    BY <1>10
  <2>2. \A k \in 0..n : k \in T
    BY <1>1, <1>9, <2>1, CountingUp
  <2> QED
    BY <1>1, <2>2
<1>12. c[n] \in RangeSet /\ (Clean(c[n], gs) \/ Length(c[n]) <= 0)
  BY <1>1, <1>11
<1>13. ASSUME Length(c[n]) <= 0 PROVE Clean(c[n], gs)
  <2>1. c[n].s >= c[n].e
    BY <1>12, <1>13 DEF Length, RangeSet
  <2> QED
    BY <2>1 DEF Clean, Clear
<1> QED
  BY <1>8, <1>12, <1>13

\* What page_out_prior_context chooses.
LEMMA PriorTyped ==
  ASSUME NEW L \in Int, NEW target, NEW all, Flat \in Seq(Entry(L))
  PROVE  Prior(target, all) \in RangeSet
<1> DEFINE flat  == Flat
           size  == Len(flat)
           back  == 0..(size - 2)
           found == {i \in back : flat[i + 1].m = Anchor(target)}
           stops == {i \in back : flat[i + 1].m.kind = "marked" \/ Boundary(flat, i)}
           e     == CASE target # NoEp -> IF found = {} THEN 0 ELSE Max(found)
                      [] stops # {} -> IF flat[Max(stops) + 1].m.kind = "marked" THEN Max(stops) + 1 ELSE Max(stops)
                      [] OTHER -> size - 2
           below == {i \in 0..(e - 1) : IsSystem(flat[i + 1].m) \/ flat[i + 1].m.kind = "user"}
           s     == IF all \/ below = {} THEN 1 ELSE Max(below) + 1
<1>1. size \in Nat
  OBVIOUS
<1>2. Prior(target, all) = IF size < 3 \/ s >= e THEN [s |-> 0, e |-> 0] ELSE [s |-> s, e |-> e]
  BY DEF Prior
<1>3. found \in SUBSET (0..size) /\ stops \in SUBSET (0..size)
  BY <1>1
<1> HIDE DEF found, stops, flat, size
<1>4. (found # {} => Max(found) \in 0..size) /\ (stops # {} => Max(stops) \in 0..size)
  BY <1>1, <1>3, GreatestIn
<1>5. e \in Int
  BY <1>1, <1>4
<1> HIDE DEF e
<1>6. ASSUME below # {} PROVE Max(below) \in Nat
  <2>1. e \in Nat /\ below \in SUBSET (0..e) /\ \A i \in below : i \in Nat
    BY <1>5, <1>6
  <2> DEFINE top == Max(below)
  <2> HIDE DEF below
  <2>2. top \in below
    BY <1>6, <2>1, GreatestIn
  <2> HIDE DEF top
  <2> QED
    BY <2>1, <2>2 DEF top
<1> HIDE DEF below
<1>7. s \in Nat
  BY <1>6
<1> QED
  BY <1>2, <1>5, <1>7 DEF RangeSet

\* The sequence r is f with its elements s + 1 to e replaced by x, and c is what they were.
Replaces(f, s, e, x, r, c) ==
    /\ DOMAIN r = 1..Len(f) + 1 - (e - s)
    /\ \A k \in DOMAIN r : r[k] = IF k <= s THEN f[k] ELSE IF k = s + 1 THEN x ELSE f[k - 1 + (e - s)]
    /\ DOMAIN c = 1..e - s /\ \A k \in DOMAIN c : c[k] = f[k + s]

LEMMA RangeReplaced ==
  ASSUME NEW S, NEW flat \in Seq(S), NEW x0 \in S, NEW s \in Nat, NEW e \in Nat, s < e, e <= Len(flat)
  PROVE  LET rest == SubSeq(flat, 1, s) \o <<x0>> \o SubSeq(flat, e + 1, Len(flat))
             cut  == SubSeq(flat, s + 1, e)
         IN  rest \in Seq(S) /\ cut \in Seq(S) /\ Replaces(flat, s, e, x0, rest, cut)
<1> DEFINE n == Len(flat)
           a == SubSeq(flat, 1, s)
           b == SubSeq(flat, e + 1, n)
           c == SubSeq(flat, s + 1, e)
           one == <<x0>>
<1>0. n \in Nat /\ DOMAIN flat = 1..n
  OBVIOUS
<1> HIDE DEF n
<1>1. a \in Seq(S) /\ Len(a) = s /\ \A i \in 1..s : a[i] = flat[i]
  <2>1. a \in Seq(S) /\ Len(a) = s + 1 - 1 /\ \A i \in 1..s + 1 - 1 : a[i] = flat[1 + i - 1]
    BY <1>0, Slice DEF n
  <2> QED
    BY <2>1
<1>2. b \in Seq(S) /\ Len(b) = n - e /\ \A i \in 1..n - e : b[i] = flat[e + i]
  <2>1. e + 1 \in Nat \ {0} /\ e + 1 <= n + 1
    BY <1>0 DEF n
  <2>2. b \in Seq(S) /\ Len(b) = n + 1 - (e + 1) /\ \A i \in 1..n + 1 - (e + 1) : b[i] = flat[e + 1 + i - 1]
    BY <1>0, <2>1, Slice DEF n
  <2> QED
    BY <1>0, <2>2
<1>3. c \in Seq(S) /\ Len(c) = e - s /\ \A i \in 1..e - s : c[i] = flat[i + s]
  <2>1. s + 1 \in Nat \ {0} /\ s + 1 <= e + 1
    OBVIOUS
  <2>2. c \in Seq(S) /\ Len(c) = e + 1 - (s + 1) /\ \A i \in 1..e + 1 - (s + 1) : c[i] = flat[s + 1 + i - 1]
    BY <1>0, <2>1, Slice DEF n
  <2> QED
    BY <2>2
<1> HIDE DEF a, b, c
<1>4. one \in Seq(S) /\ Len(one) = 1 /\ one[1] = x0
  OBVIOUS
<1> HIDE DEF one
<1> DEFINE ab == a \o one
<1>5. ab \in Seq(S) /\ Len(ab) = s + 1 /\ (\A i \in 1..s : ab[i] = flat[i]) /\ ab[s + 1] = x0
  <2>0. a \in Seq(S) /\ one \in Seq(S)
    BY <1>1, <1>4
  <2>1. /\ ab \in Seq(S) /\ Len(ab) = Len(a) + Len(one)
        /\ \A i \in 1..Len(a) : ab[i] = a[i]
        /\ \A i \in Len(a) + 1..Len(a) + Len(one) : ab[i] = one[i - Len(a)]
    BY <2>0, Concatenated
  <2>2. Len(ab) = s + 1 /\ \A i \in 1..s : ab[i] = flat[i]
    BY <1>1, <1>4, <2>1
  <2>3. s + 1 \in s + 1..s + 1 /\ s + 1 - s = 1
    OBVIOUS
  <2>4. ab[s + 1] = x0
    BY <1>1, <1>4, <2>1, <2>3
  <2> QED
    BY <2>1, <2>2, <2>4
<1> HIDE DEF ab
<1> DEFINE r == ab \o b
<1>6. /\ r \in Seq(S) /\ Len(r) = n + 1 - (e - s)
      /\ \A i \in 1..s + 1 : r[i] = ab[i]
      /\ \A i \in s + 2..n + 1 - (e - s) : r[i] = flat[i - 1 + (e - s)]
  <2>0. ab \in Seq(S) /\ b \in Seq(S)
    BY <1>2, <1>5
  <2>1. /\ r \in Seq(S) /\ Len(r) = Len(ab) + Len(b)
        /\ \A i \in 1..Len(ab) : r[i] = ab[i]
        /\ \A i \in Len(ab) + 1..Len(ab) + Len(b) : r[i] = b[i - Len(ab)]
    BY <2>0, Concatenated
  <2>2. Len(r) = n + 1 - (e - s)
    BY <1>0, <1>2, <1>5, <2>1
  <2>3. ASSUME NEW i \in s + 2..n + 1 - (e - s) PROVE r[i] = flat[i - 1 + (e - s)]
    <3>1. i - (s + 1) \in 1..n - e /\ e + (i - (s + 1)) = i - 1 + (e - s)
      BY <1>0
    <3>2. i \in Len(ab) + 1..Len(ab) + Len(b)
      BY <1>0, <1>2, <1>5
    <3>3. r[i] = b[i - (s + 1)]
      BY <1>5, <2>1, <3>2
    <3> QED
      BY <1>2, <3>1, <3>3
  <2> QED
    BY <1>5, <2>1, <2>2, <2>3
<1>7. DOMAIN r = 1..n + 1 - (e - s) /\ DOMAIN c = 1..e - s
  BY <1>3, <1>6
<1>8. ASSUME NEW k \in DOMAIN r
      PROVE  r[k] = IF k <= s THEN flat[k] ELSE IF k = s + 1 THEN x0 ELSE flat[k - 1 + (e - s)]
  <2>1. k \in Int /\ (k \in 1..s \/ k = s + 1 \/ k \in s + 2..n + 1 - (e - s))
    BY <1>0, <1>7
  <2>2. CASE k \in 1..s
    BY <1>5, <1>6, <2>2
  <2>3. CASE k = s + 1
    <3>1. k \in 1..s + 1
      BY <2>3
    <3> QED
      BY <1>5, <1>6, <2>3, <3>1
  <2>4. CASE k \in s + 2..n + 1 - (e - s)
    <3>1. r[k] = flat[k - 1 + (e - s)]
      BY <1>6, <2>4
    <3>2. ~(k <= s) /\ k # s + 1
      BY <2>1, <2>4
    <3> QED
      BY <3>1, <3>2
  <2> QED
    BY <2>1, <2>2, <2>3, <2>4
<1> HIDE DEF r
<1>9. Replaces(flat, s, e, x0, r, c)
  BY <1>3, <1>7, <1>8 DEF Replaces, n
<1> QED
  BY <1>3, <1>6, <1>9 DEF a, b, c, ab, one, n, r

\* A group from i to l that a range s..e does not cut has its calls and results on one side.
LEMMA SameSide ==
  ASSUME NEW s \in Nat, NEW e \in Nat, NEW i \in Nat, NEW j \in Nat, NEW l \in Nat, i < j, j - 1 <= l,
         i - 1 > e - 1 \/ l < s \/ (i - 1 >= s /\ l <= e - 1)
  PROVE  s + 1 <= i /\ i <= e <=> s + 1 <= j /\ j <= e
  OBVIOUS

\* A range that cuts no group: what is taken out is complete, and what stays is matched.
LEMMA RangeOrdered ==
  ASSUME NEW L \in Int, NEW flat \in Seq(Entry(L)), Matched(flat), NEW x0 \in Entry(L), ~Event(x0.m),
         NEW s \in Nat, NEW e \in Nat, s < e, e <= Len(flat), Clean([s |-> s, e |-> e], Groups(flat)),
         NEW rest \in Seq(Entry(L)), DOMAIN rest = 1..Len(flat) + 1 - (e - s),
         \A k \in DOMAIN rest : rest[k] = IF k <= s THEN flat[k] ELSE IF k = s + 1 THEN x0 ELSE flat[k - 1 + (e - s)],
         NEW body \in Seq(Message(L)), DOMAIN body = 1..e - s, \A k \in DOMAIN body : body[k] = flat[k + s].m
  PROVE  Matched(rest) /\ Complete(Loose(body))
<1> DEFINE n == Len(flat)
           r == [s |-> s, e |-> e]
           In(i) == s + 1 <= i /\ i <= e
<1>0. n \in Nat /\ DOMAIN flat = 1..n /\ e <= n
  OBVIOUS
<1> HIDE DEF n
<1>1. ASSUME NEW i \in DOMAIN flat, IsCall(flat[i].m)
      PROVE  /\ \A j \in DOMAIN flat : Answers(flat, i, j) => (In(i) <=> In(j))
             /\ Open(flat, i) => ~In(i)
  <2>1. PICK g \in ToSet(Groups(flat)) :
                /\ g.first = i - 1
                /\ \A j \in DOMAIN flat : Answers(flat, i, j) => j - 1 <= g.last
                /\ Open(flat, i) => g.last = Len(flat)
    BY <1>1, GroupsMade
  <2>2. PICK k \in DOMAIN Groups(flat) : g = Groups(flat)[k]
    BY DEF ToSet
  <2>3. g \in GroupSet /\ Clear(r, g) = r
    BY <2>2, GroupsMade DEF Clean
  <2>4. r \in RangeSet /\ r.s = s /\ r.e = e
    BY DEF RangeSet
  <2>5. g.first > e - 1 \/ g.last < s \/ (g.first >= s /\ g.last <= e - 1)
    <3> HIDE DEF r
    <3>1. r.s >= r.e \/ g.first > r.e - 1 \/ g.last < r.s \/ (g.first >= r.s /\ g.last <= r.e - 1)
      BY <2>3, <2>4, Cleared
    <3> QED
      BY <2>4, <3>1
  <2>6. g.last \in Nat /\ i \in Nat /\ g.first = i - 1
    BY <1>0, <2>1, <2>3 DEF GroupSet
  <2>7. ASSUME NEW j \in DOMAIN flat, Answers(flat, i, j) PROVE In(i) <=> In(j)
    <3>1. i < j /\ j - 1 <= g.last /\ j \in Nat
      BY <1>0, <2>1, <2>7 DEF Answers
    <3>2. PICK l \in Nat : l = g.last
      BY <2>6
    <3>3. i - 1 > e - 1 \/ l < s \/ (i - 1 >= s /\ l <= e - 1)
      BY <2>5, <2>6, <3>2
    <3>4. i \in Nat /\ j \in Nat /\ i < j /\ j - 1 <= l
      BY <2>6, <3>1, <3>2
    <3> QED
      BY <3>3, <3>4, SameSide
  <2>8. ASSUME Open(flat, i) PROVE ~In(i)
    <3>1. g.last = n
      BY <2>1, <2>8 DEF n
    <3> QED
      BY <1>0, <2>5, <2>6, <3>1
  <2> QED
    BY <2>7, <2>8
<1>2. \A i, j \in DOMAIN flat : Answers(flat, i, j) => (In(i) <=> In(j))
  BY <1>1 DEF Answers
<1> DEFINE P == DOMAIN rest \ {s + 1}
           h == [k \in P |-> IF k <= s THEN k ELSE k - 1 + (e - s)]
<1>3. ASSUME NEW k \in P PROVE k \in DOMAIN rest /\ h[k] \in DOMAIN flat /\ rest[k] = flat[h[k]] /\ ~In(h[k])
  <2>1. k \in DOMAIN rest /\ k # s + 1 /\ k \in Nat /\ k <= n + 1 - (e - s) /\ k >= 1
    BY <1>0 DEF n
  <2>2. h[k] = IF k <= s THEN k ELSE k - 1 + (e - s)
    OBVIOUS
  <2>3. rest[k] = flat[h[k]]
    BY <2>1, <2>2
  <2>4. h[k] \in DOMAIN flat /\ ~In(h[k])
    BY <1>0, <2>1, <2>2
  <2> QED
    BY <2>1, <2>3, <2>4
<1>4. ASSUME NEW i \in DOMAIN flat PROVE (\E k \in P : h[k] = i) <=> ~In(i)
  <2>1. CASE i <= s
    <3>1. i \in P /\ h[i] = i
      BY <1>0, <2>1 DEF n
    <3> QED
      BY <1>3, <3>1
  <2>2. CASE i > e
    <3> DEFINE k == i + 1 - (e - s)
    <3>0. k \in Nat /\ k > s + 1 /\ k - 1 + (e - s) = i /\ k <= n + 1 - (e - s)
      <4>1. i \in Nat /\ i <= n /\ n \in Nat /\ e \in Nat /\ s \in Nat /\ i > e
        BY <1>0, <2>2
      <4>2. k - 1 + (e - s) = i
        <5> DEFINE d == e - s
        <5>1. d \in Int
          BY <4>1
        <5> HIDE DEF d
        <5>2. i + 1 - d - 1 + d = i
          BY <4>1, <5>1
        <5> QED
          BY <5>2 DEF d
      <4>3. k > s + 1
        BY <4>1
      <4>4. k <= n + 1 - (e - s)
        BY <4>1
      <4>5. k \in Nat
        BY <4>1, <4>3
      <4> QED
        BY <4>2, <4>3, <4>4, <4>5
    <3>1. k \in P /\ k > s /\ k - 1 + (e - s) = i
      <4> HIDE DEF k
      <4>1. k \in DOMAIN rest /\ k # s + 1
        <5>1. DOMAIN rest = 1..n + 1 - (e - s) /\ n + 1 - (e - s) \in Int
          BY <1>0 DEF n
        <5> QED
          BY <3>0, <5>1
      <4> QED
        BY <3>0, <4>1
    <3>2. h[k] = i
      BY <3>1
    <3> QED
      BY <1>3, <3>1, <3>2
  <2>3. CASE In(i)
    BY <1>3, <2>3
  <2>4. i \in Nat
    BY <1>0
  <2> QED
    BY <2>1, <2>2, <2>3, <2>4
<1>5. \A k, l \in P : k < l => h[k] < h[l]
  BY <1>0
<1>6. Matched(rest)
  <2>1. h \in [P -> DOMAIN flat]
    BY <1>3
  <2>2. \A k \in P : rest[k] = flat[h[k]]
    BY <1>3
  <2>3. \A i, j \in DOMAIN flat : Answers(flat, i, j) => ((\E k \in P : h[k] = i) <=> (\E k \in P : h[k] = j))
    <3> HIDE DEF h, P, In
    <3> QED
      BY <1>2, <1>4
  <2>4. \A k \in DOMAIN rest : k \notin P => ~Event(rest[k].m)
    <3>1. ASSUME NEW k \in DOMAIN rest, k = s + 1 PROVE rest[k] = x0
      BY <3>1
    <3> QED
      BY <3>1
  <2>5. P \subseteq DOMAIN rest
    OBVIOUS
  <2> HIDE DEF h, P
  <2>6. Thins(flat, rest, P, h)
    BY <1>5, <2>1, <2>2, <2>3, <2>4, <2>5 DEF Thins
  <2> QED
    BY <2>2, <2>6, ThinnedMatched
<1>7. Complete(Loose(body))
  <2> DEFINE f == Loose(body)
             q == [k \in 1..e - s |-> k + s]
  <2>1. f \in Seq(Entry(L)) /\ DOMAIN f = 1..e - s /\ \A k \in 1..e - s : f[k].m = flat[k + s].m /\ f[k].ep = NoEp
    BY LooseEntries
  <2> HIDE DEF f
  <2>2. q \in [1..e - s -> DOMAIN flat] /\ \A k \in 1..e - s : q[k] = k + s /\ In(q[k])
    BY <1>0
  <2>3. ASSUME NEW i \in DOMAIN flat PROVE (\E k \in 1..e - s : q[k] = i) <=> In(i)
    <3>1. ASSUME In(i) PROVE i - s \in 1..e - s /\ q[i - s] = i
      BY <1>0, <3>1
    <3> QED
      BY <2>2, <3>1
  <2>4. \A k, l \in 1..e - s : k < l => q[k] < q[l]
    OBVIOUS
  <2>5. \A i, j \in DOMAIN flat : Answers(flat, i, j) => ((\E k \in 1..e - s : q[k] = i) <=> (\E k \in 1..e - s : q[k] = j))
    BY <1>2, <2>3
  <2> HIDE DEF q
  <2>6. Thins(flat, f, 1..e - s, q)
    BY <2>1, <2>2, <2>4, <2>5 DEF Thins
  <2>7. ASSUME NEW k \in 1..e - s, IsCall(flat[q[k]].m) PROVE Answered(flat, q[k])
    <3>1. q[k] \in DOMAIN flat /\ In(q[k])
      BY <2>2
    <3> HIDE DEF In
    <3> QED
      BY <1>1, <2>7, <3>1 DEF Matched
  <2>8. Called(flat)
    BY DEF Matched
  <2> QED
    BY <2>1, <2>6, <2>7, <2>8, ThinnedComplete DEF f
<1> QED
  BY <1>6, <1>7

-----------------------------------------------------------------------------
(* Said and kept: what is said is kept, and each call has its result *)

\* The archives of a disk.
Archives(d, L, R) == \A id \in DOMAIN d : id \in Int /\ d[id] \in Seq(Message(L)) /\ Sound(d[id], R)

\* The conversation is made of messages, its episodes are behind their archives, and each
\* result in it comes after its call.
Conversed(L, R) ==
    /\ episodes \in Seq(EpisodeSet(L)) /\ current \in CurrentSet(L) /\ range \in RangeSet
    /\ original \in Message(L) /\ IsSystem(original)
    /\ index = DOMAIN disk /\ Archives(disk, L, R)
    /\ Behind(episodes, disk, R) /\ Ordered(current.body, R)

\* What was said is in the current episode or in an archive.
Told(R) ==
    \A m \in told : Kept(m, R) => m \in ToSet(current.body) \/ \E id \in DOMAIN disk : m \in ToSet(disk[id])

\* The call that the tool runs for is in the current episode, and has no result yet.
Waits(body, n) == \E i \in DOMAIN body : IsCall(body[i]) /\ body[i].n = n /\ Open(Loose(body), i)
Awaited(R) == R /\ worker \in {"tool", "compress"} /\ held => Waits(current.body, said)

\* Nothing of the next call or result is in the conversation.
Limit == IF worker = "asking" THEN said ELSE said + 1

SaidAt(L, R) == Conversed(L, R) /\ Told(R) /\ Awaited(R)
SaidInv == ArchiveInv /\ \E L \in Int, R \in BOOLEAN : L <= Limit /\ (archived = {} => R) /\ SaidAt(L, R)

LEMMA FlatSent ==
  ASSUME NEW L \in Int, NEW R \in BOOLEAN, Conversed(L, R)
  PROVE  Flat \in Seq(Entry(L)) /\ EntriesBehind(Flat, disk, R) /\ Carries(Flat, current.body)
<1>1. current.body \in Seq(Message(L)) /\ Ordered(current.body, R)
  BY DEF Conversed, CurrentSet
<1>2. episodes \in Seq(EpisodeSet(L)) /\ Behind(episodes, disk, R)
  BY DEF Conversed
<1> QED
  BY <1>1, <1>2, FlatEntries DEF Flat

LEMMA SystemOf ==
  ASSUME NEW L \in Int, NEW flat \in Seq(Entry(L)), {i \in DOMAIN flat : IsSystem(flat[i].m)} # {}
  PROVE  LET p == flat[Min({i \in DOMAIN flat : IsSystem(flat[i].m)})].m IN p \in Message(L) /\ IsSystem(p)
<1> DEFINE sys == {i \in DOMAIN flat : IsSystem(flat[i].m)}
<1>1. sys \in SUBSET Nat
  OBVIOUS
<1>2. Min(sys) \in sys
  BY <1>1, LeastIn
<1>3. flat[Min(sys)] \in Entry(L) /\ IsSystem(flat[Min(sys)].m)
  BY <1>2
<1> QED
  BY <1>3 DEF Entry

\* What a page-out takes out, and what it leaves.
LEMMA PageOutCuts ==
  ASSUME NEW L \in Int, NEW R \in BOOLEAN, NEW flat \in Seq(Entry(L)), NEW d, EntriesBehind(flat, d, R),
         NEW r0 \in RangeSet, NEW r, r = Settled(r0, Groups(flat)), ~(r.s >= r.e \/ r.e > Len(flat)),
         NEW x0 \in Entry(L), ~Event(x0.m), ~Kept(x0.m, R)
  PROVE  LET cut  == Cut(flat, r)
             body == [i \in DOMAIN cut |-> cut[i].m]
             rest == SubSeq(flat, 1, r.s) \o <<x0>> \o SubSeq(flat, r.e + 1, Len(flat))
         IN  /\ rest \in Seq(Entry(L)) /\ EntriesBehind(rest, d, R)
             /\ body \in Seq(Message(L)) /\ Sound(body, R)
             /\ \A x \in ToSet(flat) : x \in ToSet(rest) \/ x.m \in ToSet(body)
<1> DEFINE cut  == Cut(flat, r)
           body == [i \in DOMAIN cut |-> cut[i].m]
           rest == SubSeq(flat, 1, r.s) \o <<x0>> \o SubSeq(flat, r.e + 1, Len(flat))
           s == r.s
           e == r.e
           n == Len(flat)
           E == Entry(L)
<1>1. r \in RangeSet /\ Clean(r, Groups(flat))
  BY GroupsMade, SettledClean
<1>2. s \in Nat /\ e \in Nat /\ s < e /\ e <= n /\ n \in Nat /\ DOMAIN flat = 1..n /\ r = [s |-> s, e |-> e]
  BY <1>1 DEF RangeSet
<1> HIDE DEF s, e
<1>3. /\ rest \in Seq(E) /\ DOMAIN rest = 1..n + 1 - (e - s)
      /\ \A k \in DOMAIN rest : rest[k] = IF k <= s THEN flat[k] ELSE IF k = s + 1 THEN x0 ELSE flat[k - 1 + (e - s)]
      /\ cut \in Seq(E) /\ DOMAIN cut = 1..e - s /\ \A k \in DOMAIN cut : cut[k] = flat[k + s]
  <2> DEFINE c2 == SubSeq(flat, s + 1, e)
             r2 == SubSeq(flat, 1, s) \o <<x0>> \o SubSeq(flat, e + 1, n)
  <2>1. /\ r2 \in Seq(E) /\ DOMAIN r2 = 1..n + 1 - (e - s)
        /\ \A k \in DOMAIN r2 : r2[k] = IF k <= s THEN flat[k] ELSE IF k = s + 1 THEN x0 ELSE flat[k - 1 + (e - s)]
        /\ c2 \in Seq(E) /\ DOMAIN c2 = 1..e - s /\ \A k \in DOMAIN c2 : c2[k] = flat[k + s]
    <3>1. flat \in Seq(E) /\ x0 \in E /\ s \in Nat /\ e \in Nat /\ s < e /\ e <= Len(flat)
      BY <1>2
    <3> HIDE DEF E
    <3>2. r2 \in Seq(E) /\ c2 \in Seq(E) /\ Replaces(flat, s, e, x0, r2, c2)
      BY <3>1, RangeReplaced
    <3> HIDE DEF r2, c2, n
    <3> QED
      BY <3>2 DEF Replaces, n
  <2>2. rest = r2 /\ cut = c2
    BY DEF s, e, Cut
  <2> HIDE DEF c2, r2, rest, cut
  <2> QED
    BY <2>1, <2>2
<1> HIDE DEF rest, cut
<1>4. body \in Seq(Message(L)) /\ DOMAIN body = 1..e - s /\ \A k \in DOMAIN body : body[k] = flat[k + s].m
  <2>1. e - s \in Nat /\ \A i \in 1..e - s : cut[i] \in E
    BY <1>2, <1>3
  <2>2. body \in [1..e - s -> Message(L)]
    BY <1>3, <2>1 DEF Entry
  <2> QED
    BY <1>3, <2>1, <2>2, FunctionIsSeq
<1> HIDE DEF body
<1>5. R => Matched(rest) /\ Complete(Loose(body))
  <2> SUFFICES ASSUME R PROVE Matched(rest) /\ Complete(Loose(body))
    OBVIOUS
  <2>1. Matched(flat) /\ Clean([s |-> s, e |-> e], Groups(flat))
    BY <1>1, <1>2 DEF EntriesBehind
  <2>2. s \in Nat /\ e \in Nat /\ s < e /\ e <= Len(flat)
    BY <1>2
  <2>3. /\ rest \in Seq(Entry(L)) /\ DOMAIN rest = 1..Len(flat) + 1 - (e - s)
        /\ \A k \in DOMAIN rest : rest[k] = IF k <= s THEN flat[k] ELSE IF k = s + 1 THEN x0 ELSE flat[k - 1 + (e - s)]
    BY <1>3
  <2> QED
    BY <1>4, <2>1, <2>2, <2>3, RangeOrdered
<1>6. \A x \in ToSet(rest) : x \in ToSet(flat) \/ x = x0
  <2> SUFFICES ASSUME NEW k \in DOMAIN rest PROVE rest[k] \in ToSet(flat) \/ rest[k] = x0
    BY DEF ToSet
  <2>1. k \in Nat /\ 1 <= k /\ k <= n + 1 - (e - s)
    BY <1>2, <1>3
  <2>2. CASE k <= s
    <3>1. rest[k] = flat[k] /\ k \in 1..n
      BY <1>2, <1>3, <2>1, <2>2
    <3> QED
      BY <1>2, <3>1 DEF ToSet
  <2>3. CASE k = s + 1
    <3>1. ~(k <= s)
      BY <1>2, <2>1, <2>3
    <3>2. rest[k] = IF k <= s THEN flat[k] ELSE IF k = s + 1 THEN x0 ELSE flat[k - 1 + (e - s)]
      BY <1>3
    <3> QED
      BY <2>3, <3>1, <3>2
  <2>4. CASE k > s + 1
    <3>1. k - 1 + (e - s) \in 1..n
      BY <1>2, <2>1, <2>4
    <3>2. rest[k] = flat[k - 1 + (e - s)]
      BY <1>2, <1>3, <2>1, <2>4
    <3> QED
      BY <1>2, <3>1, <3>2 DEF ToSet
  <2> QED
    BY <1>2, <2>1, <2>2, <2>3, <2>4
<1>7. EntriesBehind(rest, d, R)
  BY <1>5, <1>6 DEF EntriesBehind
<1>8. ASSUME NEW x \in ToSet(flat) PROVE x \in ToSet(rest) \/ x.m \in ToSet(body)
  <2>1. PICK i \in 1..n : x = flat[i]
    BY <1>2 DEF ToSet
  <2>2. CASE i <= s
    <3>0. i \in 1..n + 1 - (e - s)
      BY <1>2, <2>2
    <3>1. i \in DOMAIN rest /\ rest[i] = x
      BY <1>3, <2>1, <2>2, <3>0
    <3> QED
      BY <3>1 DEF ToSet
  <2>3. CASE s < i /\ i <= e
    <3> DEFINE k == i - s
    <3>1. k \in 1..e - s /\ k + s = i
      BY <1>2, <2>3
    <3> HIDE DEF k
    <3>2. k \in DOMAIN body /\ body[k] = x.m
      BY <1>4, <2>1, <3>1
    <3> QED
      BY <3>2 DEF ToSet
  <2>4. CASE e < i
    <3> DEFINE d0 == e - s
               k == i + 1 - d0
    <3>1. d0 \in Nat /\ s + d0 = e
      BY <1>2
    <3>2. k - 1 + d0 = i /\ k > s + 1 /\ k \in 1..n + 1 - d0
      <4> HIDE DEF d0
      <4> QED
        BY <1>2, <2>4, <3>1
    <3> HIDE DEF k
    <3>3. k \in DOMAIN rest /\ rest[k] = flat[k - 1 + d0]
      <4>1. ~(k <= s) /\ k # s + 1
        BY <1>2, <3>2
      <4> QED
        BY <1>3, <3>2, <4>1
    <3>4. rest[k] = x
      BY <2>1, <3>2, <3>3
    <3> QED
      BY <3>3, <3>4 DEF ToSet
  <2> QED
    BY <1>2, <2>2, <2>3, <2>4
<1> QED
  BY <1>3, <1>4, <1>5, <1>7, <1>8 DEF Sound, body, rest, cut

\* A page-out archives what it takes out of the conversation.
LEMMA PageOutSaid ==
  ASSUME NEW L \in Int, NEW R \in BOOLEAN, Conversed(L, R), Told(R), NEW r0 \in RangeSet, NEW exiting,
         PageOut(r0, exiting), nextSeq \in Nat, ArchivesStay, UNCHANGED told, range' \in RangeSet
  PROVE  Conversed(L, R)' /\ Told(R)' /\ (held' => held /\ current' = current)
<1> DEFINE flat == Flat
           r    == Settled(r0, Groups(flat))
           cut  == Cut(flat, r)
           body == [i \in DOMAIN cut |-> cut[i].m]
           x0   == [m |-> Anchor(nextSeq), ep |-> nextSeq, level |-> PagedOut]
           rest == SubSeq(flat, 1, r.s) \o <<x0>> \o SubSeq(flat, r.e + 1, Len(flat))
<1>1. flat \in Seq(Entry(L)) /\ EntriesBehind(flat, disk, R) /\ Carries(flat, current.body)
  BY FlatSent
<1>2. CASE UNCHANGED <<conv, index, disk, held, queue>>
  BY <1>2 DEF Conversed, Told, conv
<1>3. CASE ~(UNCHANGED <<conv, index, disk, held, queue>>)
  <2>1. /\ ~(r.s >= r.e \/ r.e > Len(flat))
        /\ disk' = [id \in DOMAIN disk \union {nextSeq} |-> IF id = nextSeq THEN body ELSE disk[id]]
        /\ index' = index \union {nextSeq}
        /\ Rebuilt(rest, index', nextSeq + 1) /\ held' = FALSE
    <3> HIDE DEF flat
    <3> QED
      BY <1>3 DEF PageOut, flat
  <2> HIDE DEF flat
  <2>2. x0 \in Entry(L) /\ ~Kept(x0.m, R) /\ ~Event(x0.m)
    BY DEF Entry, Anchor, Msg, Message, Kept, Said, Event, IsCall, IsResult, Compactions
  <2> HIDE DEF x0
  <2>3. /\ rest \in Seq(Entry(L)) /\ EntriesBehind(rest, disk, R)
        /\ body \in Seq(Message(L)) /\ Sound(body, R)
        /\ \A x \in ToSet(flat) : x \in ToSet(rest) \/ x.m \in ToSet(body)
    BY <1>1, <2>1, <2>2, PageOutCuts
  <2> HIDE DEF rest, cut, body, r
  <2>4. nextSeq \in DOMAIN disk' /\ disk'[nextSeq] = body
    BY <2>1
  <2>5. index' = DOMAIN disk' /\ Archives(disk', L, R)
    BY <2>1, <2>3 DEF Conversed, Archives
  <2>6. \A id, m : InArchive(disk, id, m) => InArchive(disk', id, m)
    BY DEF ArchivesStay, Superset, InArchive
  <2>7. EntriesBehind(rest, disk', R)
    BY <2>3, <2>6 DEF EntriesBehind
  <2>8. episodes' = EpisodesOf(rest) /\ current' = CurrentOf(rest)
    BY <2>1 DEF Rebuilt
  <2>9. episodes' \in Seq(EpisodeSet(L)) /\ Behind(episodes', disk', R)
    BY <2>3, <2>7, <2>8, EpisodesMade
  <2>10. /\ current' \in CurrentSet(L) /\ Ordered(current'.body, R)
         /\ \A x \in ToSet(rest) : x.ep = NoEp => x.m \in ToSet(current'.body)
    BY <2>3, <2>8, CurrentMade DEF Ordered, EntriesBehind
  <2>11. original' \in Message(L) /\ IsSystem(original')
    <3> DEFINE sys == {i \in DOMAIN rest : IsSystem(rest[i].m)}
    <3>1. original' = IF sys = {} THEN original ELSE rest[Min(sys)].m
      BY <2>1 DEF Rebuilt
    <3>2. sys # {} => rest[Min(sys)].m \in Message(L) /\ IsSystem(rest[Min(sys)].m)
      BY <2>3, SystemOf
    <3> HIDE DEF sys
    <3> QED
      BY <3>1, <3>2 DEF Conversed
  <2>12. Conversed(L, R)'
    BY <2>5, <2>9, <2>10, <2>11 DEF Conversed
  <2>13. ASSUME NEW m \in told, Kept(m, R) PROVE m \in ToSet(current'.body) \/ \E id \in DOMAIN disk' : m \in ToSet(disk'[id])
    <3>1. CASE m \in ToSet(current.body)
      <4>1. PICK x \in ToSet(flat) : x.m = m /\ x.ep = NoEp
        BY <1>1, <3>1 DEF Carries
      <4>2. CASE x \in ToSet(rest)
        BY <2>10, <4>1, <4>2
      <4>3. CASE m \in ToSet(body)
        BY <2>4, <4>3
      <4> QED
        BY <2>3, <4>1, <4>2, <4>3
    <3>2. CASE \E id \in DOMAIN disk : m \in ToSet(disk[id])
      BY <2>6, <3>2 DEF InArchive
    <3> QED
      BY <2>13, <3>1, <3>2 DEF Told
  <2> QED
    BY <2>1, <2>12, <2>13 DEF Told
<1> QED
  BY <1>2, <1>3

\* What is no call and no result makes no difference.
LEMMA SameEvents ==
  ASSUME NEW f, NEW g, DOMAIN g = DOMAIN f,
         \A i \in DOMAIN f : g[i].ep = f[i].ep /\ (g[i].m = f[i].m \/ (~Event(g[i].m) /\ ~Event(f[i].m)))
  PROVE  /\ Matched(f) => Matched(g)
         /\ Complete(f) => Complete(g)
         /\ \A i \in DOMAIN f : IsCall(f[i].m) /\ Open(f, i) => Open(g, i) /\ g[i].m = f[i].m
<1>1. \A i \in DOMAIN f : /\ IsCall(f[i].m) <=> IsCall(g[i].m)
                          /\ IsResult(f[i].m) <=> IsResult(g[i].m)
                          /\ Event(f[i].m) => g[i].m = f[i].m
                          /\ Event(g[i].m) => g[i].m = f[i].m
  BY DEF Event
<1>2. ASSUME NEW i \in DOMAIN f, NEW j \in DOMAIN f, Answers(f, i, j) PROVE Answers(g, i, j)
  <2>1. g[i].m = f[i].m /\ g[j].m = f[j].m /\ g[i].ep = g[j].ep
    BY <1>1, <1>2 DEF Answers, Event
  <2>2. ASSUME NEW k \in DOMAIN g, i < k, k < j, Event(g[k].m) PROVE g[k].m.n # g[i].m.n
    BY <1>1, <1>2, <2>1, <2>2 DEF Answers
  <2> QED
    BY <1>2, <2>1, <2>2 DEF Answers
<1>3. ASSUME NEW i \in DOMAIN f, IsCall(f[i].m), Open(f, i) PROVE Open(g, i) /\ g[i].m = f[i].m
  <2>1. g[i].m = f[i].m /\ g[i].ep = NoEp
    BY <1>1, <1>3 DEF Open, Event
  <2>2. ASSUME NEW k \in DOMAIN g, i < k, Event(g[k].m) PROVE g[k].m.n # g[i].m.n
    BY <1>1, <1>3, <2>1, <2>2 DEF Open
  <2> QED
    BY <2>1, <2>2 DEF Open
<1>4. Called(f) => Called(g)
  BY <1>1, <1>2 DEF Called
<1>5. \A i \in DOMAIN f : Answered(f, i) => Answered(g, i)
  BY <1>2 DEF Answered
<1>6. Matched(f) => Matched(g)
  BY <1>1, <1>3, <1>4, <1>5 DEF Matched
<1>7. Complete(f) => Complete(g)
  BY <1>1, <1>4, <1>5 DEF Complete
<1> QED
  BY <1>3, <1>6, <1>7

\* An entry x at the end.
LEMMA EntryAdded ==
  ASSUME NEW S, NEW f \in Seq(S), NEW g \in Seq(S), Len(g) = Len(f) + 1, \A i \in 1..Len(f) : g[i] = f[i]
  PROVE  LET n == Len(g)  x == g[n] IN
         /\ \A i \in DOMAIN f : Open(f, i) /\ (Event(x.m) => x.m.n # f[i].m.n) => Open(g, i)
         /\ Matched(f) /\ ~Event(x.m) => Matched(g)
         /\ Matched(f) /\ IsCall(x.m) /\ x.ep = NoEp /\ (\A i \in DOMAIN f : Event(f[i].m) => f[i].m.n # x.m.n)
              => Matched(g) /\ Open(g, n)
         /\ Matched(f) /\ IsResult(x.m) /\ x.ep = NoEp /\ (\E i \in DOMAIN f : IsCall(f[i].m) /\ f[i].m.n = x.m.n /\ Open(f, i))
              => Matched(g)
<1> DEFINE n == Len(g)
           x == g[n]
<1>1. DOMAIN f = 1..n - 1 /\ DOMAIN g = 1..n /\ n \in Nat /\ n >= 1 /\ Len(f) = n - 1
  OBVIOUS
<1> HIDE DEF n
<1>2. /\ n \in DOMAIN g /\ \A i \in DOMAIN f : i \in DOMAIN g /\ g[i] = f[i] /\ i < n /\ i \in Int
      /\ \A i \in DOMAIN g : i \in DOMAIN f \/ i = n
  BY <1>1
<1> HIDE DEF x
<1>3. ASSUME NEW i \in DOMAIN f, Open(f, i), Event(x.m) => x.m.n # f[i].m.n PROVE Open(g, i)
  BY <1>2, <1>3 DEF Open, x
<1>4. ASSUME NEW i \in DOMAIN f, NEW j \in DOMAIN f, Answers(f, i, j) PROVE Answers(g, i, j)
  <2>1. ASSUME NEW k \in DOMAIN g, i < k, k < j PROVE k \in DOMAIN f /\ g[k] = f[k]
    <3>1. j < n /\ j \in Int /\ n \in Int
      BY <1>1, <1>2
    <3>2. k # n
      BY <2>1, <3>1
    <3> QED
      BY <1>2, <3>2
  <2> QED
    BY <1>2, <1>4, <2>1 DEF Answers
<1>5. \A i \in DOMAIN f : Answered(f, i) => Answered(g, i)
  BY <1>4 DEF Answered, Answers
<1>6. ASSUME Called(f), NEW j \in DOMAIN f, IsResult(g[j].m) PROVE \E i \in DOMAIN g : Answers(g, i, j)
  <2>1. PICK i \in DOMAIN f : Answers(f, i, j)
    BY <1>2, <1>6 DEF Called
  <2> QED
    BY <1>2, <1>4, <2>1
<1>7. ASSUME Matched(f), ~Event(x.m) PROVE Matched(g)
  <2>1. Called(g)
    BY <1>2, <1>6, <1>7 DEF Called, Matched, Event, x
  <2>2. ASSUME NEW i \in DOMAIN g, IsCall(g[i].m) PROVE Answered(g, i) \/ Open(g, i)
    <3>1. i \in DOMAIN f /\ IsCall(f[i].m)
      BY <1>2, <1>7, <2>2 DEF Event, x
    <3> QED
      BY <1>3, <1>5, <1>7, <3>1 DEF Matched
  <2> QED
    BY <2>1, <2>2 DEF Matched
<1>8. ASSUME Matched(f), IsCall(x.m), x.ep = NoEp, \A i \in DOMAIN f : Event(f[i].m) => f[i].m.n # x.m.n
      PROVE  Matched(g) /\ Open(g, n)
  <2>0. ~IsResult(x.m)
    BY <1>8 DEF IsCall, IsResult
  <2>1. Called(g)
    BY <1>2, <1>6, <1>8, <2>0 DEF Called, Matched, x
  <2>2. Open(g, n)
    <3>1. \A k \in DOMAIN g : ~(n < k)
      BY <1>1
    <3> QED
      BY <1>8, <3>1 DEF Open, x
  <2>3. ASSUME NEW i \in DOMAIN f, IsCall(g[i].m) PROVE Answered(g, i) \/ Open(g, i)
    <3>1. IsCall(f[i].m) /\ x.m.n # f[i].m.n
      BY <1>2, <1>8, <2>3 DEF Event
    <3> QED
      BY <1>3, <1>5, <1>8, <3>1 DEF Matched
  <2> QED
    BY <1>2, <2>1, <2>2, <2>3 DEF Matched
<1>9. ASSUME Matched(f), IsResult(x.m), x.ep = NoEp,
             NEW i0 \in DOMAIN f, IsCall(f[i0].m), f[i0].m.n = x.m.n, Open(f, i0)
      PROVE  Matched(g)
  <2>1. Answers(g, i0, n)
    <3>1. ASSUME NEW k \in DOMAIN g, i0 < k, k < n, Event(g[k].m) PROVE g[k].m.n # g[i0].m.n
      <4>1. k \in DOMAIN f /\ g[k] = f[k]
        BY <1>1, <1>2, <3>1
      <4> QED
        BY <1>2, <1>9, <3>1, <4>1 DEF Open
    <3> QED
      BY <1>2, <1>9, <3>1 DEF Answers, Open, x
  <2>2. Called(g)
    BY <1>2, <1>6, <1>9, <2>1 DEF Called, Matched
  <2>3. ASSUME NEW i \in DOMAIN f, IsCall(f[i].m) PROVE Answered(g, i) \/ Open(g, i)
    <3>1. CASE Answered(f, i)
      BY <1>5, <3>1
    <3>2. CASE i = i0
      BY <1>2, <2>1, <3>2 DEF Answered
    <3>3. CASE Open(f, i) /\ i # i0
      <4>1. i < i0 \/ i0 < i
        BY <1>2, <3>3
      <4>2. f[i].m.n # f[i0].m.n
        BY <1>9, <2>3, <3>3, <4>1 DEF Open, Event
      <4> QED
        BY <1>3, <1>9, <3>3, <4>2
    <3> QED
      BY <1>9, <2>3, <3>1, <3>2, <3>3 DEF Matched
  <2>4. ~IsCall(x.m)
    BY <1>9 DEF IsCall, IsResult
  <2>5. ASSUME NEW i \in DOMAIN g, IsCall(g[i].m) PROVE Answered(g, i) \/ Open(g, i)
    BY <1>2, <2>3, <2>4, <2>5 DEF x
  <2> QED
    BY <2>2, <2>5 DEF Matched
<1> QED
  BY <1>3, <1>7, <1>8, <1>9 DEF n, x

\* A message at the end of the current episode.
LEMMA BodyAdded ==
  ASSUME NEW L \in Int, NEW body \in Seq(Message(L)), NEW m \in Message(L)
  PROVE  LET b == Append(body, m) IN
         /\ ~Event(m) => (Matched(Loose(body)) => Matched(Loose(b))) /\ \A n : Waits(body, n) => Waits(b, n)
         /\ IsCall(m) /\ Matched(Loose(body)) /\ (\A i \in DOMAIN body : Event(body[i]) => body[i].n < m.n)
              => Matched(Loose(b)) /\ Waits(b, m.n)
         /\ IsResult(m) /\ Matched(Loose(body)) /\ Waits(body, m.n) => Matched(Loose(b))
<1> DEFINE b == Append(body, m)
           f == Loose(body)
           g == Loose(b)
           n == Len(g)
           x == g[n]
           E == Entry(L)
<1>1. b \in Seq(Message(L)) /\ Len(b) = Len(body) + 1 /\ b[Len(b)] = m /\ \A i \in 1..Len(body) : b[i] = body[i]
  BY Appended
<1> HIDE DEF b
<1>2. /\ f \in Seq(E) /\ Len(f) = Len(body) /\ DOMAIN f = DOMAIN body
      /\ \A i \in DOMAIN body : f[i].m = body[i] /\ f[i].ep = NoEp
  BY LooseEntries
<1>3. /\ g \in Seq(E) /\ n = Len(b) /\ DOMAIN g = DOMAIN b
      /\ \A i \in DOMAIN b : g[i].m = b[i] /\ g[i].ep = NoEp
  BY <1>1, LooseEntries
<1>4. Len(body) \in Nat /\ DOMAIN body = 1..Len(body) /\ DOMAIN b = 1..Len(body) + 1 /\ n = Len(body) + 1
  BY <1>1, <1>3
<1>5. x.m = m /\ x.ep = NoEp /\ n \in DOMAIN b
  BY <1>1, <1>3, <1>4
<1>6. \A i \in 1..Len(f) : g[i] = f[i]
  BY <1>1, <1>2, <1>4 DEF f, g, Loose
<1> HIDE DEF f, g, n, x, E
<1>7. /\ \A i \in DOMAIN f : Open(f, i) /\ (Event(x.m) => x.m.n # f[i].m.n) => Open(g, i)
      /\ Matched(f) /\ ~Event(x.m) => Matched(g)
      /\ Matched(f) /\ IsCall(x.m) /\ x.ep = NoEp /\ (\A i \in DOMAIN f : Event(f[i].m) => f[i].m.n # x.m.n)
              => Matched(g) /\ Open(g, n)
      /\ Matched(f) /\ IsResult(x.m) /\ x.ep = NoEp /\ (\E i \in DOMAIN f : IsCall(f[i].m) /\ f[i].m.n = x.m.n /\ Open(f, i))
              => Matched(g)
  <2>1. Len(g) = Len(f) + 1
    BY <1>2, <1>4 DEF n
  <2> QED
    BY <1>2, <1>3, <1>6, <2>1, EntryAdded DEF n, x
<1>8. ASSUME ~Event(m), NEW l, Waits(body, l) PROVE Waits(b, l)
  <2>1. PICK i \in DOMAIN body : IsCall(body[i]) /\ body[i].n = l /\ Open(f, i)
    BY <1>8 DEF Waits, f
  <2>2. Open(g, i)
    BY <1>2, <1>5, <1>7, <1>8, <2>1
  <2>3. i \in DOMAIN b /\ b[i] = body[i]
    BY <1>1, <1>4
  <2> QED
    BY <2>1, <2>2, <2>3 DEF Waits, g
<1>9. ASSUME IsCall(m), Matched(f), \A i \in DOMAIN body : Event(body[i]) => body[i].n < m.n
      PROVE  Matched(g) /\ Waits(b, m.n)
  <2>1. \A i \in DOMAIN f : Event(f[i].m) => f[i].m.n # x.m.n
    <3>1. m.n \in Int
      BY DEF Message
    <3> QED
      BY <1>2, <1>5, <1>9, <3>1
  <2>2. Matched(g) /\ Open(g, n)
    BY <1>5, <1>7, <1>9, <2>1
  <2>3. b[n] = m
    BY <1>1, <1>3
  <2> QED
    BY <1>5, <1>9, <2>2, <2>3 DEF Waits, g
<1>10. ASSUME IsResult(m), Matched(f), Waits(body, m.n) PROVE Matched(g)
  <2>1. PICK i \in DOMAIN body : IsCall(body[i]) /\ body[i].n = m.n /\ Open(f, i)
    BY <1>10 DEF Waits, f
  <2> QED
    BY <1>2, <1>5, <1>7, <1>10, <2>1
<1> QED
  BY <1>5, <1>7, <1>8, <1>9, <1>10 DEF b, f, g

\* The empty turn that the answer takes the place of.
LEMMA TurnRemoved ==
  ASSUME NEW L \in Int, NEW body \in Seq(Message(L)), NEW turn, ~Event(turn)
  PROVE  LET a == RemoveFirst(body, turn) IN
         /\ a \in Seq(Message(L)) /\ ToSet(a) \subseteq ToSet(body)
         /\ \A y \in ToSet(body) : y # turn => y \in ToSet(a)
         /\ Matched(Loose(body)) => Matched(Loose(a))
         /\ \A n : Waits(body, n) => Waits(a, n)
<1> DEFINE a == RemoveFirst(body, turn)
           M == Message(L)
<1>1. /\ a \in Seq(Message(L)) /\ ToSet(a) \subseteq ToSet(body)
      /\ \A y \in ToSet(body) : y # turn => y \in ToSet(a)
  BY FirstRemoved
<1>2. CASE ~(\E i \in 1..Len(body) : body[i] = turn)
  <2>1. a = body
    BY <1>2 DEF RemoveFirst
  <2> QED
    BY <1>1, <2>1
<1>3. CASE \E i \in 1..Len(body) : body[i] = turn
  <2>1. PICK k \in 1..Len(body) : body[k] = turn /\ a = RemoveAt(body, k)
    BY <1>3, FirstAt
  <2>2. Len(a) = Len(body) - 1 /\ \A j \in 1..Len(body) - 1 : a[j] = IF j < k THEN body[j] ELSE body[j + 1]
    <3> HIDE DEF a, M
    <3>1. body \in Seq(M)
      BY DEF M
    <3> QED
      BY <2>1, <3>1, TakenOut
  <2> HIDE DEF a
  <2> DEFINE f == Loose(body)
             g == Loose(a)
             P == DOMAIN a
             h == [j \in P |-> IF j < k THEN j ELSE j + 1]
  <2>3. /\ f \in Seq(Entry(L)) /\ DOMAIN f = DOMAIN body
        /\ \A i \in DOMAIN body : f[i].m = body[i] /\ f[i].ep = NoEp
    BY LooseEntries
  <2>4. /\ g \in Seq(Entry(L)) /\ DOMAIN g = DOMAIN a
        /\ \A i \in DOMAIN a : g[i].m = a[i] /\ g[i].ep = NoEp
    BY <1>1, LooseEntries
  <2>5. /\ Len(body) \in Nat /\ DOMAIN body = 1..Len(body) /\ DOMAIN a = 1..Len(body) - 1
        /\ k \in Nat /\ 1 <= k /\ k <= Len(body)
    BY <1>1, <2>2
  <2> HIDE DEF f, g
  <2>6. ASSUME NEW j \in P PROVE h[j] \in DOMAIN f /\ h[j] # k /\ a[j] = body[h[j]]
    BY <2>2, <2>3, <2>5
  <2>7. ASSUME NEW i \in DOMAIN f, i # k PROVE \E j \in P : h[j] = i
    <3>1. CASE i < k
      <4>1. i \in P /\ h[i] = i
        BY <2>3, <2>5, <3>1
      <4> QED
        BY <4>1
    <3>2. CASE i > k
      <4>1. i - 1 \in P /\ h[i - 1] = i
        BY <2>3, <2>5, <3>2
      <4> QED
        BY <4>1
    <3> QED
      BY <2>3, <2>5, <2>7, <3>1, <3>2
  <2>8. \A j, l \in P : j < l => h[j] < h[l]
    BY <2>5
  <2>9. h \in [P -> DOMAIN f]
    BY <2>6
  <2> HIDE DEF h
  <2>10. \A i, j \in DOMAIN f : Answers(f, i, j) => i # k /\ j # k
    BY <2>1, <2>3, <2>5 DEF Answers, Event
  <2>11. \A i, j \in DOMAIN f : Answers(f, i, j) => ((\E p \in P : h[p] = i) <=> (\E p \in P : h[p] = j))
    BY <2>7, <2>10
  <2>12. \A j \in P : g[j].m = f[h[j]].m /\ g[j].ep = NoEp
    BY <2>3, <2>4, <2>6
  <2>13. Thins(f, g, P, h)
    BY <2>4, <2>8, <2>9, <2>11, <2>12 DEF Thins
  <2>14. Matched(f) => Matched(g)
    BY <2>3, <2>4, <2>12, <2>13, ThinnedMatched
  <2>15. ASSUME NEW n, Waits(body, n) PROVE Waits(a, n)
    <3>1. PICK i \in DOMAIN body : IsCall(body[i]) /\ body[i].n = n /\ Open(f, i)
      BY <2>15 DEF Waits, f
    <3>2. PICK j \in P : h[j] = i
      BY <2>1, <2>3, <2>7, <3>1 DEF Event
    <3>3. Open(g, j)
      BY <2>3, <2>4, <2>12, <2>13, <3>1, <3>2, ThinnedOpen
    <3>4. a[j] = body[i]
      BY <2>6, <3>2
    <3> QED
      BY <3>1, <3>2, <3>3, <3>4 DEF Waits, g
  <2> QED
    BY <1>1, <2>14, <2>15 DEF f, g, a
<1> QED
  BY <1>2, <1>3

\* An episode that changes its state is still behind its archive.
LEMMA InStateBehind ==
  ASSUME NEW L \in Int, NEW R \in BOOLEAN, NEW eps \in Seq(EpisodeSet(L)), Behind(eps, disk, R), NEW id,
         NEW level \in Compactions, Archives(disk, L, R)
  PROVE  InState(eps, id, level) \in Seq(EpisodeSet(L)) /\ Behind(InState(eps, id, level), disk, R)
<1> DEFINE new == InState(eps, id, level)
<1>0. Len(eps) \in Nat /\ DOMAIN eps = 1..Len(eps) /\ \A i \in DOMAIN eps : eps[i] \in EpisodeSet(L)
  OBVIOUS
<1>1. CASE \E i \in DOMAIN eps : eps[i].id = id
  <2> DEFINE I == {i \in DOMAIN eps : eps[i].id = id}
             P(i) == eps[i].id = id /\ \A j \in 1..(i - 1) : eps[j].id # id
             i == CHOOSE j \in DOMAIN eps : P(j)
             body == CASE eps[i].level = PagedOut /\ level # PagedOut /\ id \in DOMAIN disk -> disk[id]
                       [] eps[i].level # PagedOut /\ level = PagedOut -> <<>>
                       [] OTHER -> eps[i].body
             ep == [id |-> id, level |-> level, body |-> body]
  <2>1. \E j \in DOMAIN eps : P(j)
    <3>1. I \in SUBSET Nat /\ I # {}
      BY <1>0, <1>1
    <3>2. PICK k \in I : \A j \in I : k <= j
      BY <3>1, LeastNumber
    <3>3. \A j \in 1..(k - 1) : eps[j].id # id
      BY <1>0, <3>2
    <3> QED
      BY <3>2, <3>3
  <2>2. i \in DOMAIN eps /\ eps[i].id = id
    BY <2>1
  <2>3. new = [eps EXCEPT ![i] = ep]
    BY <1>1 DEF InState
  <2> HIDE DEF i, P
  <2>4. eps[i] \in EpisodeSet(L)
    BY <2>2
  <2>5. body \in Seq(Message(L)) /\ Backed(ep, disk, R)
    <3>1. CASE eps[i].level = PagedOut /\ level # PagedOut /\ id \in DOMAIN disk
      <4>1. body = disk[id]
        BY <3>1
      <4>2. ep.body = disk[id] /\ ep.id = id
        BY <4>1
      <4> HIDE DEF ep, body
      <4> QED
        BY <3>1, <4>1, <4>2 DEF InArchive, Backed, Archives
    <3>2. CASE eps[i].level # PagedOut /\ level = PagedOut
      <4>1. body = <<>>
        BY <3>2
      <4>2. <<>> \in Seq(Message(L)) /\ ToSet(<<>>) = {} /\ Complete(Loose(<<>>))
        BY DEF ToSet, Complete, Called, Loose
      <4>3. ep.body = <<>>
        BY <4>1
      <4> HIDE DEF ep, body
      <4> QED
        BY <4>1, <4>2, <4>3 DEF Backed, Sound
    <3>3. CASE /\ ~(eps[i].level = PagedOut /\ level # PagedOut /\ id \in DOMAIN disk)
               /\ ~(eps[i].level # PagedOut /\ level = PagedOut)
      <4>1. body = eps[i].body
        BY <3>3
      <4>2. ep.body = eps[i].body /\ ep.id = eps[i].id
        BY <2>2, <4>1
      <4> HIDE DEF ep, body
      <4> QED
        BY <2>2, <2>4, <4>1, <4>2 DEF Backed, Behind, EpisodeSet
    <3> QED
      BY <3>1, <3>2, <3>3
  <2> HIDE DEF body
  <2>6. ep \in EpisodeSet(L)
    BY <2>2, <2>4, <2>5 DEF EpisodeSet
  <2>7. new \in [1..Len(eps) -> EpisodeSet(L)]
    BY <1>0, <2>2, <2>3, <2>6
  <2>8. new \in Seq(EpisodeSet(L))
    BY <1>0, <2>7, FunctionIsSeq
  <2>9. \A j \in DOMAIN eps : new[j] = IF j = i THEN ep ELSE eps[j]
    BY <2>2, <2>3
  <2>10. Behind(new, disk, R)
    <3> HIDE DEF new, ep
    <3> QED
      BY <1>0, <2>5, <2>7, <2>9 DEF Behind
  <2> QED
    BY <2>8, <2>10
<1>2. CASE ~(\E i \in DOMAIN eps : eps[i].id = id) /\ id \in DOMAIN disk
  <2> DEFINE ep == [id |-> id, level |-> level, body |-> disk[id]]
  <2>1. new = Append(eps, ep)
    BY <1>2 DEF InState
  <2>2. ep \in EpisodeSet(L)
    BY <1>2 DEF EpisodeSet, Archives
  <2>3. Backed(ep, disk, R)
    BY <1>2 DEF InArchive, Archives, Backed
  <2> HIDE DEF ep
  <2>4. new \in Seq(EpisodeSet(L)) /\ Len(new) = Len(eps) + 1 /\ new[Len(eps) + 1] = ep /\ \A i \in 1..Len(eps) : new[i] = eps[i]
    BY <2>1, <2>2, Appended
  <2> HIDE DEF new
  <2>5. \A i \in DOMAIN new : i \in DOMAIN eps \/ i = Len(eps) + 1
    BY <1>0, <2>4
  <2>6. Behind(new, disk, R)
    <3>1. ASSUME NEW i \in DOMAIN new PROVE Backed(new[i], disk, R)
      <4>1. CASE i \in DOMAIN eps
        <5>1. new[i] = eps[i]
          BY <1>0, <2>4, <4>1
        <5> QED
          BY <4>1, <5>1 DEF Behind
      <4>2. CASE i = Len(eps) + 1
        BY <2>3, <2>4, <4>2
      <4> QED
        BY <2>5, <4>1, <4>2
    <3> QED
      BY <3>1 DEF Behind
  <2> QED
    BY <2>4, <2>6 DEF new
<1>3. CASE ~(\E i \in DOMAIN eps : eps[i].id = id) /\ id \notin DOMAIN disk
  BY <1>3 DEF InState
<1> QED
  BY <1>1, <1>2, <1>3

\* Archives loaded at a restart.
LEMMA PagedInBehind ==
  ASSUME NEW L \in Int, NEW R \in BOOLEAN, NEW eps \in Seq(EpisodeSet(L)), Behind(eps, disk, R), NEW count \in Nat,
         Archives(disk, L, R)
  PROVE  PagedIn(eps, count) \in Seq(EpisodeSet(L)) /\ Behind(PagedIn(eps, count), disk, R)
<1> DEFINE newest == SetToSortSeq(Absent(eps), LAMBDA a, b : NumberOf(a) > NumberOf(b))
           Good == {e \in Seq(EpisodeSet(L)) : Behind(e, disk, R)}
           Loads(f) == f = [k \in 0..count |-> IF k = 0 THEN eps ELSE InState(f[k - 1], newest[k], 1)]
           F == [k \in 1..count |-> [e \in Good |-> InState(e, newest[k], 1)]]
<1>0. PagedIn(eps, count) = (CHOOSE f : Loads(f))[count]
  BY DEF PagedIn
<1> HIDE DEF newest
<1>1. \A k \in 1..count, e \in Good : InState(e, newest[k], 1) \in Good
  BY InStateBehind DEF Compactions
<1>2. eps \in Good
  OBVIOUS
<1> HIDE DEF Good
<1>3. F \in [1..count -> [Good -> Good]]
  BY <1>1
<1>4. \A k \in 1..count, e \in Good : F[k][e] = InState(e, newest[k], 1)
  OBVIOUS
<1> HIDE DEF F
<1>5. PICK f : Along(f, Good, count, eps, F)
  BY <1>2, <1>3, Recursion
<1>6. \A k \in 1..count : f[k] = InState(f[k - 1], newest[k], 1)
  <2>1. \A k \in 1..count : k - 1 \in 0..count
    OBVIOUS
  <2> QED
    BY <1>4, <1>5, <2>1 DEF Along
<1>7. Loads(f)
  BY <1>5, <1>6 DEF Along
<1> DEFINE c == CHOOSE h : Loads(h)
<1>8. Loads(c)
  BY <1>7
<1>9. PagedIn(eps, count) = c[count]
  BY <1>0
<1> HIDE DEF c
<1>10. c[0] \in Good /\ \A k \in 1..count : c[k - 1] \in Good => c[k] \in Good
  BY <1>1, <1>2, <1>8
<1>11. \A k \in 0..count : c[k] \in Good
  BY <1>10, StaysIn
<1>12. c[count] \in Good
  BY <1>11
<1> QED
  BY <1>9, <1>12 DEF Good

\* A new system prompt takes the place of a system message, and of nothing else.
LEMMA PromptedBody ==
  ASSUME NEW L \in Int, NEW b \in Seq(Message(L)), HasSystem(b), NEW p \in Message(L), IsSystem(p)
  PROVE  /\ Prompted(b, p) \in Seq(Message(L))
         /\ \A R \in BOOLEAN : \A m : Kept(m, R) => (m \in ToSet(b) <=> m \in ToSet(Prompted(b, p)))
         /\ Matched(Loose(b)) => Matched(Loose(Prompted(b, p)))
         /\ Complete(Loose(b)) => Complete(Loose(Prompted(b, p)))
         /\ \A n : Waits(b, n) => Waits(Prompted(b, p), n)
<1> DEFINE sys == {i \in DOMAIN b : IsSystem(b[i])}
           k   == Min(sys)
<1>1. sys \in SUBSET Nat /\ sys # {}
  BY DEF HasSystem
<1>2. k \in sys
  BY <1>1, LeastIn
<1>3. k \in DOMAIN b /\ IsSystem(b[k])
  BY <1>2
<1>4. Prompted(b, p) = [b EXCEPT ![k] = p]
  BY DEF Prompted
<1> HIDE DEF k
<1> DEFINE new == [b EXCEPT ![k] = p]
<1>5. new \in Seq(Message(L)) /\ DOMAIN new = DOMAIN b /\ \A i \in DOMAIN b : new[i] = IF i = k THEN p ELSE b[i]
  BY <1>3
<1> HIDE DEF new
<1>6. \A m : IsSystem(m) => ~Event(m) /\ \A R \in BOOLEAN : ~Kept(m, R)
  BY DEF IsSystem, Kept, Said, IsResult, IsCall, Event
<1>7. \A R \in BOOLEAN : \A m : Kept(m, R) => (m \in ToSet(b) <=> m \in ToSet(new))
  BY <1>3, <1>5, <1>6 DEF ToSet
<1> DEFINE f == Loose(b)
           g == Loose(new)
<1>8. DOMAIN f = DOMAIN b /\ \A i \in DOMAIN b : f[i].m = b[i] /\ f[i].ep = NoEp
  BY LooseEntries
<1>9. DOMAIN g = DOMAIN b /\ \A i \in DOMAIN b : g[i].m = new[i] /\ g[i].ep = NoEp
  BY <1>5, LooseEntries
<1> HIDE DEF f, g
<1>10. \A i \in DOMAIN f : g[i].ep = f[i].ep /\ (g[i].m = f[i].m \/ (~Event(g[i].m) /\ ~Event(f[i].m)))
  BY <1>3, <1>5, <1>6, <1>8, <1>9
<1>11. /\ Matched(f) => Matched(g)
       /\ Complete(f) => Complete(g)
       /\ \A i \in DOMAIN f : IsCall(f[i].m) /\ Open(f, i) => Open(g, i) /\ g[i].m = f[i].m
  BY <1>8, <1>9, <1>10, SameEvents
<1>12. ASSUME NEW n, Waits(b, n) PROVE Waits(new, n)
  <2>1. PICK i \in DOMAIN b : IsCall(b[i]) /\ b[i].n = n /\ Open(f, i)
    BY <1>12 DEF Waits, f
  <2>2. Open(g, i) /\ new[i] = b[i]
    BY <1>8, <1>9, <1>11, <2>1
  <2> QED
    BY <1>5, <2>1, <2>2 DEF Waits, g
<1> QED
  BY <1>4, <1>5, <1>7, <1>11, <1>12 DEF new, f, g

LEMMA PromptInSaid ==
  ASSUME NEW L \in Int, NEW R \in BOOLEAN, NEW eps \in Seq(EpisodeSet(L)), NEW cur \in CurrentSet(L),
         Behind(eps, disk, R), Ordered(cur.body, R), NEW p \in Message(L), IsSystem(p)
  PROVE  LET out == PromptIn(eps, cur, p) IN
         /\ out.eps \in Seq(EpisodeSet(L)) /\ Behind(out.eps, disk, R)
         /\ out.cur \in CurrentSet(L) /\ Ordered(out.cur.body, R)
         /\ \A m \in ToSet(cur.body) : Kept(m, R) => m \in ToSet(out.cur.body)
         /\ \A n : Waits(cur.body, n) => Waits(out.cur.body, n)
<1> DEFINE out == PromptIn(eps, cur, p)
<1>0. cur.id \in Int /\ cur.body \in Seq(Message(L)) /\ cur = [id |-> cur.id, body |-> cur.body]
  BY DEF CurrentSet
<1>1. CASE HasSystem(cur.body)
  <2> DEFINE b == Prompted(cur.body, p)
  <2>1. out = [eps |-> eps, cur |-> [cur EXCEPT !.body = b]]
    BY <1>1 DEF PromptIn
  <2>2. /\ b \in Seq(Message(L))
        /\ \A m : Kept(m, R) => (m \in ToSet(cur.body) <=> m \in ToSet(b))
        /\ Matched(Loose(cur.body)) => Matched(Loose(b))
        /\ \A n : Waits(cur.body, n) => Waits(b, n)
    BY <1>0, <1>1, PromptedBody
  <2> HIDE DEF b
  <2>3. out.cur = [id |-> cur.id, body |-> b] /\ out.eps = eps
    BY <1>0, <2>1
  <2> HIDE DEF out
  <2> QED
    BY <1>0, <2>2, <2>3 DEF CurrentSet, Ordered, out
<1>2. CASE ~HasSystem(cur.body)
  <2> DEFINE withSys == {i \in DOMAIN eps : HasSystem(eps[i].body)}
             k == Min(withSys)
  <2>1. out = [eps |-> IF withSys = {} THEN eps ELSE [eps EXCEPT ![k].body = Prompted(@, p)], cur |-> cur]
    BY <1>2 DEF PromptIn
  <2>2. CASE withSys = {}
    BY <2>1, <2>2
  <2>3. CASE withSys # {}
    <3>1. k \in withSys
      <4>1. withSys \in SUBSET Nat
        OBVIOUS
      <4> HIDE DEF withSys
      <4> QED
        BY <2>3, <4>1, LeastIn
    <3>2. k \in DOMAIN eps /\ HasSystem(eps[k].body) /\ eps[k] \in EpisodeSet(L) /\ Backed(eps[k], disk, R)
      BY <3>1 DEF Behind
    <3>3. out.eps = [eps EXCEPT ![k].body = Prompted(@, p)] /\ out.cur = cur
      BY <2>1, <2>3
    <3> HIDE DEF k, withSys, out
    <3> DEFINE b == Prompted(eps[k].body, p)
               ep == [id |-> eps[k].id, level |-> eps[k].level, body |-> b]
    <3>4. /\ b \in Seq(Message(L)) /\ \A m : Kept(m, R) => (m \in ToSet(eps[k].body) <=> m \in ToSet(b))
          /\ Complete(Loose(eps[k].body)) => Complete(Loose(b))
      BY <3>2, PromptedBody DEF EpisodeSet
    <3>5. out.eps = [eps EXCEPT ![k] = [eps[k] EXCEPT !.body = b]]
      BY <3>2, <3>3
    <3> HIDE DEF b
    <3>6. [eps[k] EXCEPT !.body = b] = ep /\ ep \in EpisodeSet(L)
      BY <3>2, <3>4 DEF EpisodeSet
    <3>7. out.eps = [eps EXCEPT ![k] = ep]
      BY <3>5, <3>6
    <3>8. Backed(ep, disk, R)
      BY <3>2, <3>4 DEF Backed, Sound
    <3> HIDE DEF ep
    <3>9. out.eps \in Seq(EpisodeSet(L))
      BY <3>2, <3>6, <3>7
    <3>10. DOMAIN out.eps = DOMAIN eps /\ \A i \in DOMAIN eps : out.eps[i] = IF i = k THEN ep ELSE eps[i]
      BY <3>2, <3>7
    <3>11. Behind(out.eps, disk, R)
      BY <3>8, <3>10 DEF Behind
    <3> QED
      BY <3>3, <3>9, <3>11 DEF out
  <2> QED
    BY <2>2, <2>3
<1> QED
  BY <1>1, <1>2

\* The parts of load_active_state's repair: the results of a call that are not taken, those
\* that are taken up to each place, and what is put after a call.
LaterIn(flat, i, taken) ==
    {j \in (i + 1)..Len(flat) : j \notin taken /\ IsResult(flat[j].m) /\ flat[j].m.n = flat[i].m.n}
Uses(f, flat) ==
    f = [k \in 0..Len(flat) |->
           IF k = 0 THEN {}
           ELSE f[k - 1] \union (IF IsCall(flat[k].m) /\ LaterIn(flat, k, f[k - 1]) # {}
                                 THEN {Min(LaterIn(flat, k, f[k - 1]))} ELSE {})]
UsedIn(flat) == CHOOSE f : Uses(f, flat)
AnswerOf(flat, i) ==
    IF LaterIn(flat, i, UsedIn(flat)[i - 1]) = {} THEN [m |-> Msg("result", flat[i].m.n), ep |-> NoEp, level |-> 0]
    ELSE flat[Min(LaterIn(flat, i, UsedIn(flat)[i - 1]))]
TakenBefore(flat, i, taken) == \A j \in taken : \E h \in DOMAIN flat : h < i /\ Answers(flat, h, j)

LEMMA Repair ==
  ASSUME NEW flat
  PROVE  Normalized(flat) = FlattenSeq([i \in DOMAIN flat |-> CASE IsResult(flat[i].m) -> <<>>
                                            [] IsCall(flat[i].m)   -> <<flat[i], AnswerOf(flat, i)>>
                                            [] OTHER               -> <<flat[i]>>])
BY DEF Normalized, LaterIn, Uses, UsedIn, AnswerOf

\* A call is given its own result, as long as the calls before it were.
LEMMA OwnResult ==
  ASSUME NEW L \in Int, NEW flat \in Seq(Entry(L)), NEW i \in DOMAIN flat, IsCall(flat[i].m), NEW taken,
         TakenBefore(flat, i, taken)
  PROVE  /\ \A j \in DOMAIN flat : Answers(flat, i, j) => j \in LaterIn(flat, i, taken) /\ Min(LaterIn(flat, i, taken)) = j
         /\ Open(flat, i) => LaterIn(flat, i, taken) = {}
<1> DEFINE later == LaterIn(flat, i, taken)
<1>0. Len(flat) \in Nat /\ DOMAIN flat = 1..Len(flat) /\ i \in Nat
  OBVIOUS
<1>1. /\ later \in SUBSET Nat
      /\ \A j : j \in later <=> j \in DOMAIN flat /\ i < j /\ j \notin taken /\ IsResult(flat[j].m) /\ flat[j].m.n = flat[i].m.n
  BY <1>0 DEF LaterIn
<1> HIDE DEF later
<1>2. ASSUME NEW j \in DOMAIN flat, Answers(flat, i, j) PROVE j \in later /\ Min(later) = j
  <2>1. j \notin taken
    <3> SUFFICES ASSUME j \in taken PROVE FALSE
      OBVIOUS
    <3>1. PICK h \in DOMAIN flat : h < i /\ Answers(flat, h, j)
      BY DEF TakenBefore
    <3> QED
      BY <1>2, <3>1 DEF Answers, Event
  <2>2. j \in later
    BY <1>1, <1>2, <2>1 DEF Answers
  <2>3. \A k \in later : ~(k < j)
    BY <1>1, <1>2 DEF Answers, Event
  <2>4. Min(later) \in later /\ Min(later) <= j
    BY <1>1, <2>2, LeastIn
  <2>5. ~(Min(later) < j) /\ Min(later) \in Nat /\ j \in Nat
    BY <1>1, <2>2, <2>3, <2>4
  <2> QED
    BY <2>2, <2>4, <2>5
<1>3. Open(flat, i) => later = {}
  BY <1>1 DEF Open, Event
<1> QED
  BY <1>2, <1>3 DEF later

LEMMA UsedUp ==
  ASSUME NEW L \in Int, NEW flat \in Seq(Entry(L))
  PROVE  Matched(flat) => \A i \in DOMAIN flat : TakenBefore(flat, i, UsedIn(flat)[i - 1])
<1> DEFINE n == Len(flat)
           Next1(k, U) == IF IsCall(flat[k].m) /\ LaterIn(flat, k, U) # {} THEN {Min(LaterIn(flat, k, U))} ELSE {}
           S == SUBSET (1..n)
           F == [k \in 1..n |-> [U \in S |-> U \union Next1(k, U)]]
<1>0. n \in Nat /\ DOMAIN flat = 1..n
  OBVIOUS
<1>1. ASSUME NEW k \in 1..n, NEW U \in S PROVE Next1(k, U) \in S
  <2>1. LaterIn(flat, k, U) \in SUBSET Nat /\ LaterIn(flat, k, U) \subseteq 1..n
    BY <1>0 DEF LaterIn
  <2>2. LaterIn(flat, k, U) # {} => Min(LaterIn(flat, k, U)) \in 1..n
    BY <2>1, LeastIn
  <2> QED
    BY <2>2
<1> HIDE DEF Next1, n
<1>2. F \in [1..n -> [S -> S]]
  BY <1>1
<1>3. \A k \in 1..n, U \in S : F[k][U] = U \union Next1(k, U)
  OBVIOUS
<1>4. {} \in S
  OBVIOUS
<1> HIDE DEF F, S
<1>5. PICK f : Along(f, S, n, {}, F)
  BY <1>0, <1>2, <1>4, Recursion
<1>6. \A k \in 1..n : f[k] = f[k - 1] \union Next1(k, f[k - 1])
  <2>1. \A k \in 1..n : k - 1 \in 0..n
    BY <1>0
  <2> QED
    BY <1>3, <1>5, <2>1 DEF Along
<1> DEFINE Fills(g) == g = [k \in 0..n |-> IF k = 0 THEN {} ELSE g[k - 1] \union Next1(k, g[k - 1])]
<1>a. \A g : Uses(g, flat) <=> Fills(g)
  BY DEF Uses, Next1, n
<1>b. Fills(f)
  BY <1>0, <1>5, <1>6 DEF Along, S
<1> HIDE DEF Fills
<1>7. Uses(f, flat)
  BY <1>a, <1>b
<1> DEFINE c == UsedIn(flat)
<1>8. Uses(c, flat)
  BY <1>7 DEF UsedIn
<1> HIDE DEF c
<1>9. c[0] = {} /\ \A k \in 1..n : c[k] = c[k - 1] \union Next1(k, c[k - 1])
  <2>1. Fills(c)
    BY <1>8, <1>a
  <2>2. c = [k \in 0..n |-> IF k = 0 THEN {} ELSE c[k - 1] \union Next1(k, c[k - 1])]
    BY <2>1 DEF Fills
  <2>3. 0 \in 0..n /\ \A k \in 1..n : k \in 0..n /\ k # 0
    BY <1>0
  <2>4. \A k \in 0..n : c[k] = IF k = 0 THEN {} ELSE c[k - 1] \union Next1(k, c[k - 1])
    BY <2>2
  <2> QED
    BY <2>3, <2>4
<1> SUFFICES ASSUME Matched(flat) PROVE \A i \in DOMAIN flat : TakenBefore(flat, i, c[i - 1])
  BY DEF c
<1> DEFINE T == {k \in 0..n : TakenBefore(flat, k + 1, c[k])}
<1>10. 0 \in T
  BY <1>0, <1>9 DEF TakenBefore
<1>11. ASSUME NEW k \in 1..n, k - 1 \in T PROVE k \in T
  <2>1. k \in DOMAIN flat /\ k \in 0..n /\ k - 1 + 1 = k
    BY <1>0
  <2>2. TakenBefore(flat, k, c[k - 1])
    BY <1>11, <2>1
  <2>3. \A j \in Next1(k, c[k - 1]) : Answers(flat, k, j)
    <3> SUFFICES ASSUME IsCall(flat[k].m), LaterIn(flat, k, c[k - 1]) # {}
                 PROVE  Answers(flat, k, Min(LaterIn(flat, k, c[k - 1])))
      BY DEF Next1
    <3>1. ~Open(flat, k)
      BY <2>1, <2>2, OwnResult
    <3>2. PICK j \in DOMAIN flat : Answers(flat, k, j)
      BY <2>1, <3>1 DEF Matched, Answered
    <3> QED
      BY <2>1, <2>2, <3>2, OwnResult
  <2>4. ASSUME NEW j \in c[k] PROVE \E h \in DOMAIN flat : h < k + 1 /\ Answers(flat, h, j)
    <3>1. CASE j \in c[k - 1]
      <4>1. PICK h \in DOMAIN flat : h < k /\ Answers(flat, h, j)
        BY <2>2, <3>1 DEF TakenBefore
      <4>2. h < k + 1
        BY <1>0, <4>1
      <4> QED
        BY <4>1, <4>2
    <3>2. CASE j \in Next1(k, c[k - 1])
      BY <1>0, <2>1, <2>3, <3>2
    <3> QED
      BY <1>9, <2>4, <3>1, <3>2
  <2> QED
    BY <2>1, <2>4 DEF TakenBefore
<1>12. \A k \in 0..n : k \in T
  <2> HIDE DEF T
  <2> QED
    BY <1>0, <1>10, <1>11, CountingUp
<1>13. ASSUME NEW i \in DOMAIN flat PROVE TakenBefore(flat, i, c[i - 1])
  <2>1. i - 1 \in 0..n /\ i - 1 + 1 = i
    BY <1>0
  <2>2. i - 1 \in T
    BY <1>12, <2>1
  <2> QED
    BY <2>1, <2>2
<1> QED
  BY <1>13

\* What is put after a call is a result with its number, its own one if it has one.
LEMMA AnswerMade ==
  ASSUME NEW L \in Int, NEW flat \in Seq(Entry(L)), NEW i \in DOMAIN flat, IsCall(flat[i].m)
  PROVE  LET a == AnswerOf(flat, i) IN
         /\ a \in Entry(L) /\ IsResult(a.m) /\ a.m.n = flat[i].m.n
         /\ a.ep = NoEp \/ a \in ToSet(flat)
         /\ Matched(flat) => a.ep = flat[i].ep /\ \A j \in DOMAIN flat : Answers(flat, i, j) => a = flat[j]
<1> DEFINE taken == UsedIn(flat)[i - 1]
           later == LaterIn(flat, i, taken)
           a == AnswerOf(flat, i)
           x == Msg("result", flat[i].m.n)
<1>0. Len(flat) \in Nat /\ DOMAIN flat = 1..Len(flat) /\ flat[i] \in Entry(L)
  OBVIOUS
<1> HIDE DEF taken
<1>1. a = IF later = {} THEN [m |-> x, ep |-> NoEp, level |-> 0] ELSE flat[Min(later)]
  BY DEF AnswerOf, taken
<1>2. Matched(flat) => TakenBefore(flat, i, taken)
  BY UsedUp DEF taken
<1>3. later \in SUBSET Nat /\ \A j \in later : j \in DOMAIN flat /\ IsResult(flat[j].m) /\ flat[j].m.n = flat[i].m.n
  BY <1>0 DEF LaterIn
<1>4. Matched(flat) => /\ \A j \in DOMAIN flat : Answers(flat, i, j) => j \in later /\ Min(later) = j
                       /\ Open(flat, i) => later = {}
  BY <1>2, OwnResult
<1> HIDE DEF later, a
<1>5. later # {} => Min(later) \in later
  BY <1>3, LeastIn
<1>6. x \in Message(L) /\ IsResult(x) /\ x.n = flat[i].m.n
  BY <1>0 DEF Entry, Message, Msg, Event, IsResult
<1> HIDE DEF x
<1>7. CASE later = {}
  <2>1. a = [m |-> x, ep |-> NoEp, level |-> 0]
    BY <1>1, <1>7
  <2>2. a \in Entry(L) /\ IsResult(a.m) /\ a.m.n = flat[i].m.n /\ a.ep = NoEp
    BY <1>6, <2>1 DEF Entry, NoEp, Compactions
  <2>3. ASSUME Matched(flat) PROVE flat[i].ep = NoEp /\ \A j \in DOMAIN flat : ~Answers(flat, i, j)
    <3>1. \A j \in DOMAIN flat : ~Answers(flat, i, j)
      BY <1>4, <1>7, <2>3
    <3> QED
      BY <2>3, <3>1 DEF Matched, Answered, Open
  <2> QED
    BY <2>2, <2>3 DEF a
<1>8. CASE later # {}
  <2>1. Min(later) \in DOMAIN flat /\ a = flat[Min(later)] /\ IsResult(a.m) /\ a.m.n = flat[i].m.n
    BY <1>1, <1>3, <1>5, <1>8
  <2>2. a \in Entry(L) /\ a \in ToSet(flat)
    BY <2>1 DEF ToSet
  <2>3. ASSUME Matched(flat) PROVE a.ep = flat[i].ep /\ \A j \in DOMAIN flat : Answers(flat, i, j) => a = flat[j]
    <3>1. PICK j \in DOMAIN flat : Answers(flat, i, j)
      BY <1>4, <1>8, <2>3 DEF Matched, Answered
    <3>2. \A k \in DOMAIN flat : Answers(flat, i, k) => a = flat[k]
      BY <1>4, <2>1, <2>3
    <3> QED
      BY <3>1, <3>2 DEF Answers
  <2> QED
    BY <2>1, <2>2, <2>3 DEF a
<1> QED
  BY <1>7, <1>8

\* The repair leaves each call with its result next to it, and loses nothing.
LEMMA NormalizedSaid ==
  ASSUME NEW L \in Int, NEW R \in BOOLEAN, NEW flat \in Seq(Entry(L)), NEW d, EntriesBehind(flat, d, R)
  PROVE  LET norm == Normalized(flat) IN
         /\ norm \in Seq(Entry(L)) /\ EntriesBehind(norm, d, R)
         /\ \A x \in ToSet(flat) : Kept(x.m, R) => x \in ToSet(norm)
<1> DEFINE two(i) == <<flat[i], AnswerOf(flat, i)>>
           one(i) == <<flat[i]>>
           ss == [i \in DOMAIN flat |-> CASE IsResult(flat[i].m) -> <<>>
                                          [] IsCall(flat[i].m)   -> two(i)
                                          [] OTHER               -> one(i)]
           n == Len(flat)
           norm == FlattenSeq(ss)
<1>1. Normalized(flat) = norm
  BY Repair
<1>2. n \in Nat /\ DOMAIN flat = 1..n /\ \A i \in 1..n : flat[i] \in Entry(L)
  OBVIOUS
<1>3. \A i \in 1..n : IsCall(flat[i].m) => ~IsResult(flat[i].m)
  BY DEF IsCall, IsResult
<1>4. ASSUME NEW i \in 1..n
      PROVE  /\ IsResult(flat[i].m) => ss[i] = <<>>
             /\ IsCall(flat[i].m) => ss[i] = two(i)
             /\ ~Event(flat[i].m) => ss[i] = one(i)
  BY <1>2, <1>3 DEF Event
<1>5. ASSUME NEW i \in 1..n, IsCall(flat[i].m)
      PROVE  /\ two(i) \in Seq(Entry(L)) /\ ToSet(two(i)) = {flat[i], AnswerOf(flat, i)}
             /\ Len(two(i)) = 2 /\ DOMAIN two(i) = {1, 2} /\ two(i)[1] = flat[i] /\ two(i)[2] = AnswerOf(flat, i)
  <2>1. AnswerOf(flat, i) \in Entry(L)
    BY <1>2, <1>5, AnswerMade
  <2> QED
    BY <1>2, <2>1 DEF ToSet
<1>6. \A i \in 1..n : one(i) \in Seq(Entry(L)) /\ ToSet(one(i)) = {flat[i]} /\ \A p \in DOMAIN one(i) : one(i)[p] = flat[i]
  BY <1>2 DEF ToSet
<1>7. <<>> \in Seq(Entry(L)) /\ ToSet(<<>>) = {} /\ \A p : p \notin DOMAIN <<>>
  BY DEF ToSet
<1> HIDE DEF two, one
<1>8. ASSUME NEW i \in 1..n
      PROVE  /\ ss[i] \in Seq(Entry(L))
             /\ \A x \in ToSet(ss[i]) : x = flat[i] \/ (IsCall(flat[i].m) /\ x = AnswerOf(flat, i))
             /\ ~IsResult(flat[i].m) => flat[i] \in ToSet(ss[i])
             /\ IsCall(flat[i].m) => AnswerOf(flat, i) \in ToSet(ss[i])
             /\ \A p \in DOMAIN ss[i] : IsCall(flat[i].m) \/ ~Event(ss[i][p].m)
  <2>1. CASE IsResult(flat[i].m)
    BY <1>3, <1>4, <1>7, <2>1
  <2>2. CASE IsCall(flat[i].m)
    BY <1>4, <1>5, <2>2
  <2>3. CASE ~Event(flat[i].m)
    BY <1>4, <1>6, <2>3 DEF Event
  <2> QED
    BY <2>1, <2>2, <2>3 DEF Event
<1>9. ss \in [1..n -> Seq(Entry(L))]
  BY <1>2, <1>8
<1> HIDE DEF ss, n
<1>10. norm \in Seq(Entry(L)) /\ \A x : x \in ToSet(norm) <=> \E i \in 1..n : x \in ToSet(ss[i])
  BY <1>2, <1>9, Flattened
<1>11. PICK start : Begins(ss, n, start, norm)
  BY <1>2, <1>9, Laid
<1> HIDE DEF norm
<1>12. ASSUME Matched(flat) PROVE Complete(norm)
  <2>1. ASSUME NEW i \in 1..n, IsCall(flat[i].m)
        PROVE  /\ start[i] + 1 \in DOMAIN norm /\ norm[start[i] + 1] = flat[i]
               /\ start[i] + 2 \in DOMAIN norm /\ norm[start[i] + 2] = AnswerOf(flat, i)
               /\ Answers(norm, start[i] + 1, start[i] + 2)
    <3>1. ss[i] = two(i) /\ DOMAIN ss[i] = {1, 2} /\ ss[i][1] = flat[i] /\ ss[i][2] = AnswerOf(flat, i)
      BY <1>4, <1>5, <2>1
    <3>2. /\ start[i] + 1 \in DOMAIN norm /\ norm[start[i] + 1] = flat[i]
          /\ start[i] + 2 \in DOMAIN norm /\ norm[start[i] + 2] = AnswerOf(flat, i)
      BY <1>11, <3>1 DEF Begins
    <3>3. start[i] \in Nat
      BY <1>11 DEF Begins
    <3>4. \A k \in DOMAIN norm : ~(start[i] + 1 < k /\ k < start[i] + 2)
      BY <1>10, <3>3
    <3>5. LET a == AnswerOf(flat, i) IN IsResult(a.m) /\ a.m.n = flat[i].m.n /\ a.ep = flat[i].ep
      BY <1>2, <1>12, <2>1, AnswerMade
    <3>6. Answers(norm, start[i] + 1, start[i] + 2)
      BY <2>1, <3>2, <3>3, <3>4, <3>5 DEF Answers
    <3> QED
      BY <3>2, <3>6
  <2>2. ASSUME NEW q \in DOMAIN norm, Event(norm[q].m)
        PROVE  \E i \in 1..n : IsCall(flat[i].m) /\ (q = start[i] + 1 \/ q = start[i] + 2)
    <3>1. PICK i \in 1..n : \E p \in DOMAIN ss[i] : q = start[i] + p
      BY <1>11 DEF Begins
    <3>2. PICK p \in DOMAIN ss[i] : q = start[i] + p
      BY <3>1
    <3>3. norm[q] = ss[i][p]
      BY <1>11, <3>2 DEF Begins
    <3>4. IsCall(flat[i].m)
      BY <1>8, <2>2, <3>3
    <3>5. p \in {1, 2}
      BY <1>4, <1>5, <3>4
    <3> QED
      BY <3>2, <3>4, <3>5
  <2>3. ASSUME NEW q \in DOMAIN norm, IsResult(norm[q].m) PROVE \E k \in DOMAIN norm : Answers(norm, k, q)
    <3>1. PICK i \in 1..n : IsCall(flat[i].m) /\ (q = start[i] + 1 \/ q = start[i] + 2)
      BY <2>2, <2>3 DEF Event
    <3>2. q = start[i] + 2
      BY <1>3, <2>1, <2>3, <3>1
    <3> QED
      BY <2>1, <3>1, <3>2
  <2>4. ASSUME NEW q \in DOMAIN norm, IsCall(norm[q].m) PROVE Answered(norm, q)
    <3>1. PICK i \in 1..n : IsCall(flat[i].m) /\ (q = start[i] + 1 \/ q = start[i] + 2)
      BY <2>2, <2>4 DEF Event
    <3>2. IsResult(AnswerOf(flat, i).m)
      BY <1>2, <3>1, AnswerMade
    <3>3. q = start[i] + 1
      BY <2>1, <2>4, <3>1, <3>2 DEF IsCall, IsResult
    <3> QED
      BY <2>1, <3>1, <3>3 DEF Answered
  <2> QED
    BY <2>3, <2>4 DEF Complete, Called
<1>13. EntriesBehind(norm, d, R)
  <2>1. R => Matched(norm)
    BY <1>12, CompleteMatched DEF EntriesBehind
  <2>2. ASSUME NEW x \in ToSet(norm), Kept(x.m, R), x.ep # NoEp PROVE InArchive(d, x.ep, x.m)
    <3>1. PICK i \in 1..n : x = flat[i] \/ (IsCall(flat[i].m) /\ x = AnswerOf(flat, i))
      BY <1>8, <1>10
    <3>2. x \in ToSet(flat)
      <4>1. CASE x = flat[i]
        BY <1>2, <4>1 DEF ToSet
      <4>2. CASE IsCall(flat[i].m) /\ x = AnswerOf(flat, i)
        BY <1>2, <2>2, <4>2, AnswerMade
      <4> QED
        BY <3>1, <4>1, <4>2
    <3> QED
      BY <2>2, <3>2 DEF EntriesBehind
  <2> QED
    BY <2>1, <2>2 DEF EntriesBehind
<1>14. ASSUME NEW x \in ToSet(flat), Kept(x.m, R) PROVE x \in ToSet(norm)
  <2>1. PICK i \in 1..n : x = flat[i]
    BY <1>2 DEF ToSet
  <2>2. CASE ~IsResult(x.m)
    BY <1>8, <1>10, <2>1, <2>2
  <2>3. CASE IsResult(x.m)
    <3>1. R
      BY <1>14, <2>3 DEF Kept, Said, IsResult
    <3>2. PICK h \in DOMAIN flat : Answers(flat, h, i)
      BY <1>2, <2>1, <2>3, <3>1 DEF EntriesBehind, Matched, Called
    <3>3. IsCall(flat[h].m) /\ AnswerOf(flat, h) = x
      <4>1. IsCall(flat[h].m) /\ Matched(flat) /\ i \in DOMAIN flat
        BY <1>2, <3>1, <3>2 DEF Answers, EntriesBehind
      <4> QED
        BY <2>1, <3>2, <4>1, AnswerMade
    <3>4. h \in 1..n
      BY <1>2
    <3> QED
      BY <1>8, <1>10, <3>3, <3>4
  <2> QED
    BY <2>2, <2>3
<1> QED
  BY <1>1, <1>10, <1>13, <1>14

-----------------------------------------------------------------------------
(* Said and kept: the steps *)

LEMMA BehindGrows ==
  ASSUME NEW eps, NEW R, Behind(eps, disk, R), ArchivesStay
  PROVE  Behind(eps, disk', R)
<1>1. \A id, m : InArchive(disk, id, m) => InArchive(disk', id, m)
  BY DEF ArchivesStay, Superset, InArchive
<1> QED
  BY <1>1 DEF Backed, Behind

\* What has no number from L on has none from a later M on.
LEMMA MoreNumbers ==
  ASSUME NEW L \in Int, NEW M \in Int, L <= M, NEW R \in BOOLEAN, Conversed(L, R)
  PROVE  Conversed(M, R)
<1>1. Message(L) \subseteq Message(M)
  BY DEF Message
<1>2. ASSUME NEW s \in Seq(Message(L)) PROVE s \in Seq(Message(M))
  <2>1. Len(s) \in Nat /\ s \in [1..Len(s) -> Message(M)]
    BY <1>1
  <2> QED
    BY <2>1, FunctionIsSeq
<1>3. EpisodeSet(L) \subseteq EpisodeSet(M) /\ CurrentSet(L) \subseteq CurrentSet(M)
  BY <1>2 DEF EpisodeSet, CurrentSet
<1>4. ASSUME NEW s \in Seq(EpisodeSet(L)) PROVE s \in Seq(EpisodeSet(M))
  <2>1. Len(s) \in Nat /\ s \in [1..Len(s) -> EpisodeSet(M)]
    BY <1>3
  <2> QED
    BY <2>1, FunctionIsSeq
<1>5. Archives(disk, M, R)
  BY <1>2 DEF Conversed, Archives
<1> QED
  BY <1>1, <1>3, <1>4, <1>5 DEF Conversed

LEMMA LessFollowed ==
  ASSUME NEW L \in Int, NEW R \in BOOLEAN, Conversed(L, R), Told(R)
  PROVE  Conversed(L, FALSE) /\ Told(FALSE)
<1>1. \A m : Kept(m, FALSE) => Kept(m, R)
  BY DEF Kept
<1>2. Archives(disk, L, FALSE)
  BY DEF Conversed, Archives, Sound
<1>3. Behind(episodes, disk, FALSE)
  BY <1>1 DEF Conversed, Behind, Backed, Sound
<1>4. Conversed(L, FALSE)
  BY <1>2, <1>3 DEF Conversed, Ordered
<1>5. Told(FALSE)
  BY <1>1 DEF Told
<1> QED
  BY <1>4, <1>5

\* A step that writes to the current episode.
LEMMA CurrentSaid ==
  ASSUME NEW L \in Int, NEW R \in BOOLEAN, Conversed(L, R), Told(R),
         UNCHANGED <<episodes, original, index, disk, range>>,
         current' \in CurrentSet(L), Ordered(current'.body, R),
         \A m \in ToSet(current.body) : Kept(m, R) => m \in ToSet(current'.body),
         \A m \in told' : m \in told \/ m \in ToSet(current'.body)
  PROVE  Conversed(L, R)' /\ Told(R)'
<1>1. Conversed(L, R)'
  BY DEF Conversed
<1>2. Told(R)'
  BY DEF Told
<1> QED
  BY <1>1, <1>2

LEMMA AskSaid ==
  ASSUME NEW L \in Int, NEW R \in BOOLEAN, SaidAt(L, R), Ask, said \in Nat PROVE SaidAt(L, R)'
<1> DEFINE m == Msg("user", said + 1)
<1>0. Conversed(L, R) /\ Told(R)
  BY DEF SaidAt
<1>1. /\ UNCHANGED <<episodes, original, index, disk, range>> /\ told' = told \union {m} /\ worker' = "ready"
      /\ current' = IF current = None THEN [id |-> -(said + 1), body |-> <<m>>] ELSE [current EXCEPT !.body = Append(@, m)]
  BY DEF Ask, UnchangedByLoop
<1>2. m \in Message(L) /\ ~Event(m)
  BY DEF Msg, Message, Event, IsCall, IsResult
<1> HIDE DEF m
<1>3. /\ current.id \in Int /\ current.body \in Seq(Message(L)) /\ current = [id |-> current.id, body |-> current.body]
      /\ Ordered(current.body, R)
  BY <1>0 DEF Conversed, CurrentSet
<1>4. CASE current = None
  <2>1. current' = [id |-> -(said + 1), body |-> <<m>>] /\ <<m>> \in Seq(Message(L)) /\ ToSet(<<m>>) = {m}
    BY <1>1, <1>2, <1>4 DEF ToSet
  <2>2. ToSet(current.body) = {}
    BY <1>4 DEF None, ToSet
  <2>3. current' \in CurrentSet(L) /\ current'.body = <<m>>
    BY <2>1 DEF CurrentSet
  <2>4. Ordered(<<m>>, R)
    <3>1. DOMAIN Loose(<<m>>) = {1} /\ Loose(<<m>>)[1].m = m
      BY DEF Loose
    <3> QED
      BY <1>2, <3>1 DEF Ordered, Matched, Called, Event
  <2>5. Conversed(L, R)' /\ Told(R)'
    BY <1>0, <1>1, <2>1, <2>2, <2>3, <2>4, CurrentSaid
  <2> QED
    BY <1>1, <2>5 DEF SaidAt, Awaited
<1>5. CASE current # None
  <2> DEFINE b == Append(current.body, m)
  <2>1. b \in Seq(Message(L)) /\ ToSet(b) = ToSet(current.body) \union {m}
    BY <1>2, <1>3, Appended
  <2>2. current' = [id |-> current.id, body |-> b]
    BY <1>1, <1>3, <1>5
  <2>3. Ordered(b, R)
    BY <1>2, <1>3, BodyAdded DEF Ordered
  <2> HIDE DEF b
  <2>4. current' \in CurrentSet(L) /\ current'.body = b
    BY <1>3, <2>1, <2>2 DEF CurrentSet
  <2>5. Conversed(L, R)' /\ Told(R)'
    BY <1>0, <1>1, <2>1, <2>3, <2>4, CurrentSaid
  <2> QED
    BY <1>1, <2>5 DEF SaidAt, Awaited
<1> QED
  BY <1>4, <1>5

LEMMA RequestSaid ==
  ASSUME NEW L \in Int, NEW R \in BOOLEAN, SaidAt(L, R), AsksModel, said \in Nat PROVE SaidAt(L, R)'
<1> DEFINE m == Msg("partial", said + 1)
           b == Append(current.body, m)
<1>0. Conversed(L, R) /\ Told(R)
  BY DEF SaidAt
<1>1. /\ UNCHANGED <<episodes, original, index, disk, range, told>> /\ worker' = "asking"
      /\ current' = [current EXCEPT !.body = Append(@, m)]
  BY DEF AsksModel, UnchangedByLoop
<1>2. m \in Message(L) /\ ~Event(m)
  BY DEF Msg, Message, Event, IsCall, IsResult
<1> HIDE DEF m
<1>3. /\ current.id \in Int /\ current.body \in Seq(Message(L)) /\ current = [id |-> current.id, body |-> current.body]
      /\ Ordered(current.body, R)
  BY <1>0 DEF Conversed, CurrentSet
<1>4. b \in Seq(Message(L)) /\ ToSet(b) = ToSet(current.body) \union {m}
  BY <1>2, <1>3, Appended
<1>5. current' = [id |-> current.id, body |-> b]
  BY <1>1, <1>3
<1>6. Ordered(b, R)
  BY <1>2, <1>3, BodyAdded DEF Ordered
<1> HIDE DEF b
<1>7. current' \in CurrentSet(L) /\ current'.body = b
  BY <1>3, <1>4, <1>5 DEF CurrentSet
<1>8. Conversed(L, R)' /\ Told(R)'
  BY <1>0, <1>1, <1>4, <1>6, <1>7, CurrentSaid
<1> QED
  BY <1>1, <1>8 DEF SaidAt, Awaited

\* What the run loop writes: the empty turn goes, nothing that was said does.  A call has
\* a new number, and a result answers the call that waits for it.
LEMMA WrittenSaid ==
  ASSUME NEW L \in Int, NEW R \in BOOLEAN, current \in CurrentSet(L), Ordered(current.body, R),
         NEW m \in Message(L), Written(m),
         \/ ~Event(m)
         \/ IsCall(m) /\ \A x \in ToSet(current.body) : Event(x) => x.n < m.n
         \/ IsResult(m) /\ (R /\ held => Waits(current.body, m.n))
  PROVE  /\ current' \in CurrentSet(L) /\ Ordered(current'.body, R)
         /\ \A x \in ToSet(current.body) : Kept(x, R) => x \in ToSet(current'.body)
         /\ \A x \in told' : x \in told \/ x \in ToSet(current'.body)
         /\ R /\ held /\ IsCall(m) => Waits(current'.body, m.n)
<1>1. CASE ~held
  BY <1>1 DEF Written
<1>2. CASE held
  <2> DEFINE turn == Msg("partial", m.n)
             a == RemoveFirst(current.body, turn)
             b == Append(a, m)
  <2>1. current.id \in Int /\ current.body \in Seq(Message(L)) /\ current = [id |-> current.id, body |-> current.body]
    BY DEF CurrentSet
  <2>2. current' = [current EXCEPT !.body = b] /\ told' = told \union {m}
    BY <1>2 DEF Written
  <2>3. ~Kept(turn, R) /\ ~Event(turn)
    BY DEF Kept, Said, Event, IsResult, IsCall, Msg
  <2> HIDE DEF turn
  <2>4. /\ a \in Seq(Message(L)) /\ ToSet(a) \subseteq ToSet(current.body)
        /\ \A x \in ToSet(current.body) : x # turn => x \in ToSet(a)
        /\ Matched(Loose(current.body)) => Matched(Loose(a))
        /\ \A n : Waits(current.body, n) => Waits(a, n)
    BY <2>1, <2>3, TurnRemoved
  <2> HIDE DEF a
  <2>5. b \in Seq(Message(L)) /\ ToSet(b) = ToSet(a) \union {m}
    BY <2>4, Appended
  <2>6. /\ ~Event(m) => (Matched(Loose(a)) => Matched(Loose(b))) /\ \A n : Waits(a, n) => Waits(b, n)
        /\ IsCall(m) /\ Matched(Loose(a)) /\ (\A i \in DOMAIN a : Event(a[i]) => a[i].n < m.n)
              => Matched(Loose(b)) /\ Waits(b, m.n)
        /\ IsResult(m) /\ Matched(Loose(a)) /\ Waits(a, m.n) => Matched(Loose(b))
    BY <2>4, BodyAdded
  <2> HIDE DEF b
  <2>7. current' = [id |-> current.id, body |-> b]
    BY <2>1, <2>2
  <2>8. current' \in CurrentSet(L) /\ current'.body = b
    BY <2>1, <2>5, <2>7 DEF CurrentSet
  <2>9. ASSUME R PROVE Matched(Loose(b)) /\ (IsCall(m) => Waits(b, m.n))
    <3>1. Matched(Loose(a))
      BY <2>4, <2>9 DEF Ordered
    <3>2. CASE ~Event(m)
      BY <2>6, <3>1, <3>2 DEF Event
    <3>3. CASE IsCall(m) /\ \A x \in ToSet(current.body) : Event(x) => x.n < m.n
      <4>1. \A i \in DOMAIN a : a[i] \in ToSet(current.body)
        BY <2>4 DEF ToSet
      <4> QED
        BY <2>6, <3>1, <3>3, <4>1
    <3>4. CASE IsResult(m) /\ (R /\ held => Waits(current.body, m.n))
      <4>1. ~IsCall(m)
        BY <3>4 DEF IsCall, IsResult
      <4> QED
        BY <1>2, <2>4, <2>6, <2>9, <3>1, <3>4, <4>1
    <3> QED
      BY <3>2, <3>3, <3>4
  <2> QED
    BY <2>2, <2>3, <2>4, <2>5, <2>8, <2>9 DEF Ordered
<1> QED
  BY <1>1, <1>2

LEMMA AnswerSaid ==
  ASSUME NEW L \in Int, NEW R \in BOOLEAN, SaidAt(L, R), said \in Nat, Answer PROVE SaidAt(L, R)'
<1> DEFINE m == Msg("answer", said)
<1>0. Conversed(L, R) /\ Told(R) /\ current \in CurrentSet(L) /\ Ordered(current.body, R)
  BY DEF SaidAt, Conversed
<1>1. Written(m) /\ UNCHANGED <<episodes, original, index, disk, range>> /\ worker' = "idle"
  BY DEF Answer, UnchangedByLoop
<1>2. m \in Message(L) /\ ~Event(m)
  BY DEF Msg, Message, Event, IsCall, IsResult
<1> HIDE DEF m
<1>3. /\ current' \in CurrentSet(L) /\ Ordered(current'.body, R)
      /\ \A x \in ToSet(current.body) : Kept(x, R) => x \in ToSet(current'.body)
      /\ \A x \in told' : x \in told \/ x \in ToSet(current'.body)
  BY <1>0, <1>1, <1>2, WrittenSaid
<1>4. Conversed(L, R)' /\ Told(R)'
  BY <1>0, <1>1, <1>3, CurrentSaid
<1> QED
  BY <1>1, <1>4 DEF SaidAt, Awaited

LEMMA CallSaid ==
  ASSUME NEW L \in Int, NEW M \in Int, NEW R \in BOOLEAN, SaidAt(L, R), said \in Nat, L <= said, M = said + 1, Call
  PROVE  SaidAt(M, R)'
<1> DEFINE m == Msg("call", said)
<1>0. Conversed(M, R) /\ Told(R) /\ current \in CurrentSet(M) /\ Ordered(current.body, R)
  <2>1. Conversed(M, R)
    BY MoreNumbers DEF SaidAt
  <2> QED
    BY <2>1 DEF SaidAt, Conversed
<1>1. Written(m) /\ UNCHANGED <<episodes, original, index, disk, range, said, held>> /\ worker' = "tool"
  BY DEF Call, UnchangedByLoop
<1>2. m \in Message(M) /\ IsCall(m) /\ m.n = said
  BY DEF Msg, Message, Event, IsCall, IsResult
<1>3. \A x \in ToSet(current.body) : Event(x) => x.n < m.n
  <2>1. current.body \in Seq(Message(L))
    BY DEF SaidAt, Conversed, CurrentSet
  <2>2. \A x \in ToSet(current.body) : x \in Message(L)
    BY <2>1 DEF ToSet
  <2> QED
    BY <1>2, <2>2 DEF Message
<1> HIDE DEF m
<1>4. /\ current' \in CurrentSet(M) /\ Ordered(current'.body, R)
      /\ \A x \in ToSet(current.body) : Kept(x, R) => x \in ToSet(current'.body)
      /\ \A x \in told' : x \in told \/ x \in ToSet(current'.body)
      /\ R /\ held /\ IsCall(m) => Waits(current'.body, m.n)
  BY <1>0, <1>1, <1>2, <1>3, WrittenSaid
<1>5. Conversed(M, R)' /\ Told(R)'
  BY <1>0, <1>1, <1>4, CurrentSaid
<1>6. Awaited(R)'
  BY <1>1, <1>2, <1>4 DEF Awaited
<1> QED
  BY <1>5, <1>6 DEF SaidAt

LEMMA ResultSaid ==
  ASSUME NEW L \in Int, NEW M \in Int, NEW R \in BOOLEAN, SaidAt(L, R), said \in Nat, L <= M, M = said + 1, ToolEnds
  PROVE  SaidAt(M, R)'
<1> DEFINE m == Msg("result", said)
<1>0. Conversed(M, R) /\ Told(R) /\ Awaited(R) /\ current \in CurrentSet(M) /\ Ordered(current.body, R)
  <2>1. Conversed(M, R)
    BY MoreNumbers DEF SaidAt
  <2> QED
    BY <2>1 DEF SaidAt, Conversed
<1>1. Written(m) /\ UNCHANGED <<episodes, original, index, disk, range>> /\ worker = "tool" /\ worker' = "ready"
  BY DEF ToolEnds, UnchangedByLoop
<1>2. m \in Message(M) /\ IsResult(m) /\ m.n = said
  BY DEF Msg, Message, Event, IsCall, IsResult
<1> HIDE DEF m
<1>3. R /\ held => Waits(current.body, m.n)
  BY <1>0, <1>1, <1>2 DEF Awaited
<1>4. /\ current' \in CurrentSet(M) /\ Ordered(current'.body, R)
      /\ \A x \in ToSet(current.body) : Kept(x, R) => x \in ToSet(current'.body)
      /\ \A x \in told' : x \in told \/ x \in ToSet(current'.body)
  BY <1>0, <1>1, <1>2, <1>3, WrittenSaid
<1>5. Conversed(M, R)' /\ Told(R)'
  BY <1>0, <1>1, <1>4, CurrentSaid
<1> QED
  BY <1>1, <1>5 DEF SaidAt, Awaited

\* agent_mark_episode archives the current episode; results are not followed any more,
\* unless there was none.
LEMMA MarkSaid ==
  ASSUME NEW L \in Int, NEW M \in Int, NEW R \in BOOLEAN, SaidAt(L, R), said \in Nat, nextSeq \in Nat, L <= M, M = said + 1,
         held => current # None, ToolMarks, ArchivesStay
  PROVE  (archived' = archived /\ SaidAt(M, R)') \/ (archived' # {} /\ SaidAt(M, FALSE)')
<1> DEFINE m == Msg("marked", said)
<1>0. Conversed(M, R) /\ Told(R)
  BY MoreNumbers DEF SaidAt
<1>1. UNCHANGED <<episodes, original, range>> /\ Snapshot /\ Written(m) /\ worker' = "ready"
  BY DEF ToolMarks
<1>2. CASE current = None
  <2>1. UNCHANGED <<index, disk, archived, current, told>>
    BY <1>1, <1>2 DEF Snapshot, Written
  <2> QED
    BY <1>0, <1>1, <2>1 DEF SaidAt, Conversed, Told, Awaited
<1>3. CASE current # None
  <2> DEFINE id == IF current.id = Active THEN nextSeq ELSE current.id
  <2>1. /\ disk' = [e \in DOMAIN disk \union {id} |-> IF e = id THEN current.body ELSE disk[e]]
        /\ index' = index \union {id} /\ archived' = archived \union {id}
    BY <1>1, <1>3 DEF Snapshot
  <2>2. Conversed(M, FALSE) /\ Told(FALSE)
    BY <1>0, LessFollowed
  <2>3. current \in CurrentSet(M) /\ current.body \in Seq(Message(M)) /\ id \in Int
    BY <2>2 DEF Conversed, CurrentSet
  <2> HIDE DEF id
  <2>4. m \in Message(M) /\ IsResult(m)
    BY DEF Msg, Message, Event, IsCall, IsResult
  <2> HIDE DEF m
  <2>5. /\ current' \in CurrentSet(M) /\ Ordered(current'.body, FALSE)
        /\ \A x \in ToSet(current.body) : Kept(x, FALSE) => x \in ToSet(current'.body)
        /\ \A x \in told' : x \in told \/ x \in ToSet(current'.body)
    BY <1>1, <2>3, <2>4, WrittenSaid DEF Ordered
  <2>6. index' = DOMAIN disk' /\ Archives(disk', M, FALSE)
    BY <2>1, <2>2, <2>3 DEF Conversed, Archives, Sound
  <2>7. Conversed(M, FALSE)'
    BY <1>1, <2>2, <2>5, <2>6, BehindGrows DEF Conversed
  <2>8. \A e \in DOMAIN disk : e \in DOMAIN disk' /\ ToSet(disk[e]) \subseteq ToSet(disk'[e])
    BY DEF ArchivesStay, Superset
  <2>9. Told(FALSE)'
    BY <2>2, <2>5, <2>8 DEF Told
  <2> QED
    BY <2>1, <2>7, <2>9 DEF SaidAt, Awaited
<1> QED
  BY <1>2, <1>3

\* What leaves the tool's call where it is leaves it waiting.
LEMMA StillAwaited ==
  ASSUME NEW R, Awaited(R), UNCHANGED said, held' => held /\ current' = current,
         worker' \in {"tool", "compress"} => worker \in {"tool", "compress"}
  PROVE  Awaited(R)'
  BY DEF Awaited

LEMMA SetStateSaid ==
  ASSUME NEW L \in Int, NEW R \in BOOLEAN, SaidAt(L, R), NEW id, NEW level \in Compactions, SetState(id, level),
         UNCHANGED <<worker, held, range>>
  PROVE  SaidAt(L, R)'
<1>0. Conversed(L, R) /\ Told(R) /\ Awaited(R)
  BY DEF SaidAt
<1>1. /\ episodes' = InState(episodes, id, level)
      /\ UNCHANGED <<current, original, index, disk, said, told>>
  BY DEF SetState
<1>2. episodes \in Seq(EpisodeSet(L)) /\ Behind(episodes, disk, R) /\ Archives(disk, L, R)
  BY <1>0 DEF Conversed
<1>3. episodes' \in Seq(EpisodeSet(L)) /\ Behind(episodes', disk, R)
  BY <1>1, <1>2, InStateBehind
<1>4. Conversed(L, R)'
  BY <1>0, <1>1, <1>3 DEF Conversed
<1>5. Told(R)'
  BY <1>0, <1>1 DEF Told
<1>6. Awaited(R)'
  BY <1>0, <1>1, StillAwaited
<1> QED
  BY <1>4, <1>5, <1>6 DEF SaidAt

LEMMA FamilySaid ==
  ASSUME NEW L \in Int, NEW R \in BOOLEAN, SaidAt(L, R), FamilyChanges PROVE SaidAt(L, R)'
<1> DEFINE out == PromptIn(episodes, current, original)
<1>0. Conversed(L, R) /\ Told(R) /\ Awaited(R)
  BY DEF SaidAt
<1>1. /\ episodes' = out.eps /\ current' = out.cur
      /\ UNCHANGED <<original, index, disk, range, told, said, worker, held>>
  BY DEF FamilyChanges
<1>2. /\ episodes \in Seq(EpisodeSet(L)) /\ current \in CurrentSet(L) /\ Behind(episodes, disk, R)
      /\ Ordered(current.body, R) /\ original \in Message(L) /\ IsSystem(original)
  BY <1>0 DEF Conversed
<1>3. /\ out.eps \in Seq(EpisodeSet(L)) /\ Behind(out.eps, disk, R) /\ out.cur \in CurrentSet(L) /\ Ordered(out.cur.body, R)
      /\ \A m \in ToSet(current.body) : Kept(m, R) => m \in ToSet(out.cur.body)
      /\ \A n : Waits(current.body, n) => Waits(out.cur.body, n)
  BY <1>2, PromptInSaid
<1> HIDE DEF out
<1>4. Conversed(L, R)'
  BY <1>0, <1>1, <1>3 DEF Conversed
<1>5. Told(R)'
  BY <1>0, <1>1, <1>3 DEF Told
<1>6. Awaited(R)'
  BY <1>0, <1>1, <1>3 DEF Awaited
<1> QED
  BY <1>4, <1>5, <1>6 DEF SaidAt

LEMMA ChooseSaid ==
  ASSUME NEW L \in Int, NEW R \in BOOLEAN, SaidAt(L, R), NEW target, NEW all, ToolChooses(target, all)
  PROVE  SaidAt(L, R)'
<1>0. Conversed(L, R) /\ Told(R) /\ Awaited(R)
  BY DEF SaidAt
<1>1. /\ range' = Prior(target, all) /\ UNCHANGED <<episodes, current, original, index, disk, told, said, held>>
      /\ worker = "tool"
  BY DEF ToolChooses, conv
<1>2. range' \in RangeSet
  BY <1>0, <1>1, FlatSent, PriorTyped
<1>3. Conversed(L, R)'
  BY <1>0, <1>1, <1>2 DEF Conversed
<1>4. Told(R)'
  BY <1>0, <1>1 DEF Told
<1>5. Awaited(R)'
  BY <1>0, <1>1, StillAwaited
<1> QED
  BY <1>3, <1>4, <1>5 DEF SaidAt

LEMMA CompressSaid ==
  ASSUME NEW L \in Int, NEW R \in BOOLEAN, SaidAt(L, R), ToolCompresses, nextSeq \in Nat, ArchivesStay
  PROVE  SaidAt(L, R)'
<1>0. Conversed(L, R) /\ Told(R) /\ Awaited(R)
  BY DEF SaidAt
<1>1. range' \in RangeSet /\ UNCHANGED <<told, said>> /\ worker = "compress"
  BY DEF ToolCompresses, RangeSet
<1>2. CASE UNCHANGED <<conv, index, disk, held, queue>>
  <2>1. Conversed(L, R)' /\ Told(R)'
    BY <1>0, <1>1, <1>2 DEF Conversed, Told, conv
  <2>2. Awaited(R)'
    BY <1>0, <1>1, <1>2, StillAwaited DEF conv
  <2> QED
    BY <2>1, <2>2 DEF SaidAt
<1>3. CASE PageOut(range, FALSE)
  <2>1. Conversed(L, R)' /\ Told(R)' /\ (held' => held /\ current' = current)
    <3>1. range \in RangeSet
      BY <1>0 DEF Conversed
    <3> QED
      BY <1>0, <1>1, <1>3, <3>1, PageOutSaid
  <2>2. Awaited(R)'
    BY <1>0, <1>1, <2>1, StillAwaited
  <2> QED
    BY <2>1, <2>2 DEF SaidAt
<1> QED
  BY <1>2, <1>3 DEF ToolCompresses

LEMMA CommandSaid ==
  ASSUME NEW L \in Int, NEW R \in BOOLEAN, SaidAt(L, R), NEW s \in Nat, NEW e \in Int, UserPagesOut(s, e),
         nextSeq \in Nat, ArchivesStay
  PROVE  SaidAt(L, R)'
<1>0. Conversed(L, R) /\ Told(R) /\ Awaited(R)
  BY DEF SaidAt
<1>1. PageOut([s |-> s, e |-> e], FALSE) /\ UNCHANGED <<range, told, said, worker>>
  BY DEF UserPagesOut
<1>2. [s |-> s, e |-> e] \in RangeSet /\ range' \in RangeSet
  BY <1>0, <1>1 DEF RangeSet, Conversed
<1>3. Conversed(L, R)' /\ Told(R)' /\ (held' => held /\ current' = current)
  BY <1>0, <1>1, <1>2, PageOutSaid
<1>4. Awaited(R)'
  BY <1>0, <1>1, <1>3, StillAwaited
<1> QED
  BY <1>3, <1>4 DEF SaidAt

LEMMA CloseSaid ==
  ASSUME NEW L \in Int, NEW R \in BOOLEAN, SaidAt(L, R), Close, nextSeq \in Nat, ArchivesStay PROVE SaidAt(L, R)'
<1>0. Conversed(L, R) /\ Told(R)
  BY DEF SaidAt
<1>1. /\ UNCHANGED <<range, told>> /\ worker' = "closed"
      /\ UNCHANGED <<conv, index, disk, held, queue>> \/ PageOut(Prior(NoEp, TRUE), TRUE)
  BY DEF Close
<1>2. Prior(NoEp, TRUE) \in RangeSet /\ range' \in RangeSet
  BY <1>0, <1>1, FlatSent, PriorTyped DEF Conversed
<1>3. CASE UNCHANGED <<conv, index, disk, held, queue>>
  BY <1>0, <1>1, <1>3 DEF Conversed, Told, conv, SaidAt, Awaited
<1>4. CASE PageOut(Prior(NoEp, TRUE), TRUE)
  <2>1. Conversed(L, R)' /\ Told(R)'
    BY <1>0, <1>1, <1>2, <1>4, PageOutSaid
  <2> QED
    BY <1>1, <2>1 DEF SaidAt, Awaited
<1> QED
  BY <1>1, <1>3, <1>4

\* load_active_state has what close saved, repairs it, and loads archives on top of it.
LEMMA RestartSaid ==
  ASSUME ArchiveInv, NEW L \in Int, NEW R \in BOOLEAN, SaidAt(L, R), NEW count \in Nat, Restart(count)
  PROVE  SaidAt(L, R)'
<1> DEFINE norm == Normalized(Flat)
           same == norm = Flat
           eps  == IF same THEN episodes ELSE EpisodesOf(norm)
           cur  == IF same THEN current ELSE CurrentOf(norm)
           sys  == {i \in DOMAIN norm : IsSystem(norm[i].m)}
           orig == IF same \/ sys = {} THEN Prompt ELSE norm[Min(sys)].m
           out  == PromptIn(PagedIn(eps, count), cur, orig)
<1>0. Conversed(L, R) /\ Told(R)
  BY DEF SaidAt
<1>1. saved = [episodes |-> episodes, current |-> current, nextSeq |-> nextSeq] /\ saved # Unsaved
  <2>1. saved = [episodes |-> episodes, current |-> current, nextSeq |-> nextSeq]
    BY DEF Restart, ArchiveInv, Shaped
  <2>2. nextSeq # 0
    BY DEF ArchiveInv, Numbered
  <2>3. saved.nextSeq # Unsaved.nextSeq
    BY <2>1, <2>2 DEF Unsaved
  <2> QED
    BY <2>1, <2>3
<1>2. saved.episodes = episodes /\ saved.current = current
  BY <1>1
<1>3. /\ episodes' = out.eps /\ current' = out.cur /\ original' = orig
      /\ UNCHANGED <<disk, told>> /\ index' = DOMAIN disk /\ range' = [s |-> 0, e |-> 0] /\ worker' = "idle"
  <2> HIDE DEF Normalized, PagedIn
  <2> QED
    BY <1>1, <1>2 DEF Restart, Flat
<1> HIDE DEF norm
<1>4. /\ Flat \in Seq(Entry(L)) /\ EntriesBehind(Flat, disk, R) /\ Carries(Flat, current.body)
  BY <1>0, FlatSent
<1>5. /\ norm \in Seq(Entry(L)) /\ EntriesBehind(norm, disk, R)
      /\ \A x \in ToSet(Flat) : Kept(x.m, R) => x \in ToSet(norm)
  BY <1>4, NormalizedSaid DEF norm
<1>6. eps \in Seq(EpisodeSet(L)) /\ Behind(eps, disk, R)
  BY <1>0, <1>5, EpisodesMade DEF Conversed
<1>7. cur \in CurrentSet(L) /\ Ordered(cur.body, R) /\ \A m \in ToSet(current.body) : Kept(m, R) => m \in ToSet(cur.body)
  <2>1. CASE same
    BY <1>0, <2>1 DEF Conversed
  <2>2. CASE ~same
    <3>1. /\ CurrentOf(norm) \in CurrentSet(L)
          /\ Matched(norm) => Matched(Loose(CurrentOf(norm).body))
          /\ \A x \in ToSet(norm) : x.ep = NoEp => x.m \in ToSet(CurrentOf(norm).body)
      BY <1>5, CurrentMade
    <3>2. cur = CurrentOf(norm)
      BY <2>2
    <3> HIDE DEF cur
    <3>3. Ordered(cur.body, R)
      BY <1>5, <3>1, <3>2 DEF EntriesBehind, Ordered
    <3>4. ASSUME NEW m \in ToSet(current.body), Kept(m, R) PROVE m \in ToSet(cur.body)
      <4>1. PICK x \in ToSet(Flat) : x.m = m /\ x.ep = NoEp
        BY <1>4 DEF Carries
      <4> QED
        BY <1>5, <3>1, <3>2, <3>4, <4>1
    <3> QED
      BY <3>1, <3>2, <3>3, <3>4
  <2> QED
    BY <2>1, <2>2
<1>8. orig \in Message(L) /\ IsSystem(orig)
  <2>1. Prompt \in Message(L) /\ IsSystem(Prompt)
    BY DEF Prompt, Msg, Message, IsSystem, Event, IsCall, IsResult
  <2>2. sys # {} => norm[Min(sys)].m \in Message(L) /\ IsSystem(norm[Min(sys)].m)
    BY <1>5, SystemOf
  <2> HIDE DEF sys
  <2> QED
    BY <2>1, <2>2
<1>9. Archives(disk, L, R)
  BY <1>0 DEF Conversed
<1> HIDE DEF eps, cur, orig
<1>10. PagedIn(eps, count) \in Seq(EpisodeSet(L)) /\ Behind(PagedIn(eps, count), disk, R)
  BY <1>6, <1>9, PagedInBehind
<1>11. /\ out.eps \in Seq(EpisodeSet(L)) /\ Behind(out.eps, disk, R)
       /\ out.cur \in CurrentSet(L) /\ Ordered(out.cur.body, R)
       /\ \A m \in ToSet(cur.body) : Kept(m, R) => m \in ToSet(out.cur.body)
  BY <1>7, <1>8, <1>10, PromptInSaid
<1> HIDE DEF out
<1>12. Conversed(L, R)'
  BY <1>3, <1>8, <1>9, <1>11 DEF Conversed, RangeSet
<1>13. Told(R)'
  BY <1>0, <1>3, <1>7, <1>11 DEF Told
<1> QED
  BY <1>3, <1>12, <1>13 DEF SaidAt, Awaited

\* Where nothing is said and nothing marked, the numbers that are free stay so.
Quiet == UNCHANGED <<said, archived>> /\ (worker' = "asking" => worker = "asking")
SaidBelow == \E L \in Int, R \in BOOLEAN : L <= Limit /\ (archived = {} => R) /\ SaidAt(L, R)

LEMMA QuietSaid ==
  ASSUME NEW L \in Int, NEW R \in BOOLEAN, L <= Limit, archived = {} => R, said \in Nat, Quiet, SaidAt(L, R)'
  PROVE  SaidBelow'
<1>1. L <= Limit'
  BY DEF Limit, Quiet
<1>2. archived' = {} => R
  BY DEF Quiet
<1> QED
  BY <1>1, <1>2 DEF SaidBelow

LEMMA SaidStep ==
  ASSUME SaidInv, [PagingNext]_pagingVars PROVE SaidInv'
<1>0. ArchiveInv /\ said \in Nat /\ nextSeq \in Nat /\ (held => current # None)
  BY DEF SaidInv, ArchiveInv, Numbered, Shaped
<1>1. ArchiveInv' /\ ArchivesStay
  BY <1>0, ArchiveStep
<1> SUFFICES SaidBelow'
  BY <1>1 DEF SaidInv, SaidBelow
<1>2. PICK L \in Int, R \in BOOLEAN : L <= Limit /\ (archived = {} => R) /\ SaidAt(L, R)
  BY DEF SaidInv
<1>25. PICK M \in Int : M = said + 1
  BY <1>0
<1>3. L <= M
  BY <1>0, <1>2, <1>25 DEF Limit
<1>4. ASSUME Ask \/ AsksModel \/ RequestAdrift, SaidAt(L, R)' PROVE SaidBelow'
  <2>1. said' = said + 1 /\ archived' = archived
    BY <1>4 DEF Ask, AsksModel, RequestAdrift, UnchangedByLoop
  <2>2. L <= Limit'
    BY <1>0, <1>3, <1>25, <2>1 DEF Limit
  <2> QED
    BY <1>2, <1>4, <2>1, <2>2 DEF SaidBelow
<1>5. CASE Ask
  BY <1>0, <1>2, <1>4, <1>5, AskSaid
<1>6. CASE AsksModel
  BY <1>0, <1>2, <1>4, <1>6, RequestSaid
<1>7. CASE RequestAdrift
  <2>1. UNCHANGED <<episodes, current, original, index, disk, range, told>> /\ worker' = "asking"
    BY <1>7 DEF RequestAdrift, UnchangedByLoop
  <2>2. SaidAt(L, R)'
    BY <1>2, <2>1 DEF SaidAt, Conversed, Told, Awaited
  <2> QED
    BY <1>4, <1>7, <2>2
<1>8. ASSUME Call \/ ToolEnds, SaidAt(M, R)' PROVE SaidBelow'
  <2>1. said' = said /\ archived' = archived /\ worker' # "asking"
    BY <1>8 DEF Call, ToolEnds, UnchangedByLoop
  <2>2. M <= Limit'
    BY <1>25, <2>1 DEF Limit
  <2> QED
    BY <1>2, <1>8, <2>1, <2>2 DEF SaidBelow
<1>9. CASE Answer
  <2>1. Quiet
    BY <1>9 DEF Answer, UnchangedByLoop, Quiet
  <2>2. SaidAt(L, R)'
    BY <1>0, <1>2, <1>9, AnswerSaid
  <2> QED
    BY <1>0, <1>2, <2>1, <2>2, QuietSaid
<1>10. CASE Call
  <2>1. L <= said
    BY <1>2, <1>10 DEF Call, Limit
  <2>2. SaidAt(M, R)'
    BY <1>0, <1>2, <1>3, <1>10, <1>25, <2>1, CallSaid
  <2> QED
    BY <1>8, <1>10, <2>2
<1>11. CASE ToolEnds
  <2>1. SaidAt(M, R)'
    BY <1>0, <1>2, <1>3, <1>11, <1>25, ResultSaid
  <2> QED
    BY <1>8, <1>11, <2>1
<1>12. CASE ToolMarks
  <2>1. said' = said /\ worker' # "asking"
    BY <1>12 DEF ToolMarks
  <2>2. M <= Limit'
    BY <1>25, <2>1 DEF Limit
  <2>3. (archived' = archived /\ SaidAt(M, R)') \/ (archived' # {} /\ SaidAt(M, FALSE)')
    BY <1>0, <1>1, <1>2, <1>3, <1>12, <1>25, MarkSaid
  <2>4. CASE archived' = archived /\ SaidAt(M, R)'
    BY <1>2, <2>2, <2>4 DEF SaidBelow
  <2>5. CASE archived' # {} /\ SaidAt(M, FALSE)'
    BY <2>2, <2>5 DEF SaidBelow
  <2> QED
    BY <2>3, <2>4, <2>5
<1>13. ASSUME NEW target, NEW all, ToolChooses(target, all) PROVE SaidBelow'
  <2>1. Quiet
    BY <1>13 DEF ToolChooses, Quiet
  <2>2. SaidAt(L, R)'
    BY <1>2, <1>13, ChooseSaid
  <2> QED
    BY <1>0, <1>2, <2>1, <2>2, QuietSaid
<1>14. CASE ToolCompresses
  <2>1. Quiet
    BY <1>14 DEF ToolCompresses, Quiet
  <2>2. SaidAt(L, R)'
    BY <1>0, <1>1, <1>2, <1>14, CompressSaid
  <2> QED
    BY <1>0, <1>2, <2>1, <2>2, QuietSaid
<1>15. CASE FamilyChanges
  <2>1. Quiet
    BY <1>15 DEF FamilyChanges, Quiet
  <2>2. SaidAt(L, R)'
    BY <1>2, <1>15, FamilySaid
  <2> QED
    BY <1>0, <1>2, <2>1, <2>2, QuietSaid
<1>16. ASSUME NEW id, NEW level \in Compactions, SetState(id, level), UNCHANGED <<worker, held, range>> PROVE SaidBelow'
  <2>1. Quiet
    BY <1>16 DEF SetState, Quiet
  <2>2. SaidAt(L, R)'
    BY <1>2, <1>16, SetStateSaid
  <2> QED
    BY <1>0, <1>2, <2>1, <2>2, QuietSaid
<1>17. ASSUME NEW id, NEW level \in Levels \union {PagedOut}, ToolRestores(id, level) \/ UserSetsState(id, level)
       PROVE  SaidBelow'
  BY <1>16, <1>17 DEF ToolRestores, UserSetsState, Compactions
<1>18. ASSUME NEW id, Compact(id) PROVE SaidBelow'
  <2>1. UNCHANGED <<worker, held, range>> /\ \E level \in (Levels \ {0}) \union {PagedOut} : SetState(id, level)
    BY <1>18 DEF Compact
  <2> QED
    BY <1>16, <2>1 DEF Compactions
<1>19. ASSUME NEW s \in 1..2, NEW e \in 2..Len(Flat), UserPagesOut(s, e) PROVE SaidBelow'
  <2>1. Quiet
    BY <1>19 DEF UserPagesOut, Quiet
  <2>2. s \in Nat /\ e \in Int
    OBVIOUS
  <2>3. SaidAt(L, R)'
    BY <1>0, <1>1, <1>2, <1>19, <2>2, CommandSaid
  <2> QED
    BY <1>0, <1>2, <2>1, <2>3, QuietSaid
<1>20. CASE Summarize
  <2>1. Quiet
    BY <1>20 DEF Summarize, Quiet
  <2>2. SaidAt(L, R)'
    BY <1>2, <1>20 DEF Summarize, conv, SaidAt, Conversed, Told, Awaited
  <2> QED
    BY <1>0, <1>2, <2>1, <2>2, QuietSaid
<1>21. CASE Close
  <2>1. Quiet
    BY <1>21 DEF Close, Quiet
  <2>2. SaidAt(L, R)'
    BY <1>0, <1>1, <1>2, <1>21, CloseSaid
  <2> QED
    BY <1>0, <1>2, <2>1, <2>2, QuietSaid
<1>22. ASSUME NEW count \in 0..2, Restart(count) PROVE SaidBelow'
  <2>1. Quiet
    BY <1>22 DEF Restart, Quiet
  <2>2. SaidAt(L, R)'
    BY <1>0, <1>2, <1>22, RestartSaid
  <2> QED
    BY <1>0, <1>2, <2>1, <2>2, QuietSaid
<1>23. CASE UNCHANGED pagingVars
  <2>1. Quiet
    BY <1>23 DEF pagingVars, Quiet
  <2>2. SaidAt(L, R)'
    BY <1>2, <1>23 DEF pagingVars, conv, SaidAt, Conversed, Told, Awaited
  <2> QED
    BY <1>0, <1>2, <2>1, <2>2, QuietSaid
<1> QED
  BY <1>5, <1>6, <1>7, <1>9, <1>10, <1>11, <1>12, <1>13, <1>14, <1>15, <1>17, <1>18, <1>19, <1>20, <1>21, <1>22, <1>23
     DEF PagingNext

LEMMA SaidInit == PagingInit => SaidInv
<1> SUFFICES ASSUME PagingInit PROVE SaidInv
  OBVIOUS
<1>1. /\ episodes = <<>> /\ current = [id |-> 1, body |-> <<Prompt>>] /\ original = Prompt
      /\ index = {} /\ disk = <<>> /\ range = [s |-> 0, e |-> 0] /\ told = {} /\ said = 0 /\ held = FALSE /\ worker = "idle"
  BY DEF PagingInit
<1>2. Prompt \in Message(0) /\ IsSystem(Prompt) /\ ~Event(Prompt)
  BY DEF Prompt, Msg, Message, IsSystem, Event, IsCall, IsResult
<1>3. <<Prompt>> \in Seq(Message(0))
  BY <1>2
<1>4. Ordered(<<Prompt>>, TRUE)
  <2>1. DOMAIN Loose(<<Prompt>>) = {1} /\ Loose(<<Prompt>>)[1].m = Prompt
    BY DEF Loose
  <2> QED
    BY <1>2, <2>1 DEF Ordered, Matched, Called, Event
<1>5. Conversed(0, TRUE)
  <2>1. current \in CurrentSet(0) /\ Ordered(current.body, TRUE)
    <3> DEFINE b == <<Prompt>>
    <3>1. b \in Seq(Message(0)) /\ Ordered(b, TRUE) /\ current = [id |-> 1, body |-> b]
      BY <1>1, <1>3, <1>4
    <3> HIDE DEF b
    <3>2. current.body = b /\ current \in CurrentSet(0)
      BY <3>1 DEF CurrentSet
    <3> QED
      BY <3>1, <3>2
  <2>2. episodes \in Seq(EpisodeSet(0)) /\ Behind(episodes, disk, TRUE)
    BY <1>1 DEF Behind
  <2>3. range \in RangeSet /\ original \in Message(0) /\ IsSystem(original)
    BY <1>1, <1>2 DEF RangeSet
  <2>4. DOMAIN disk = {} /\ index = {}
    BY <1>1
  <2> QED
    BY <2>1, <2>2, <2>3, <2>4 DEF Conversed, Archives
<1>6. Told(TRUE) /\ Awaited(TRUE)
  BY <1>1 DEF Told, Awaited
<1>7. 0 <= Limit
  BY <1>1 DEF Limit
<1>8. SaidAt(0, TRUE)
  BY <1>5, <1>6 DEF SaidAt
<1>9. ArchiveInv
  BY ArchiveInit
<1> HIDE DEF ArchiveInv, SaidAt, Limit
<1>10. \E L \in Int, R \in BOOLEAN : L <= Limit /\ (archived = {} => R) /\ SaidAt(L, R)
  <2>1. 0 \in Int /\ TRUE \in BOOLEAN
    OBVIOUS
  <2>2. 0 <= Limit /\ (archived = {} => TRUE) /\ SaidAt(0, TRUE)
    BY <1>7, <1>8
  <2> HIDE DEF Limit, SaidAt
  <2> WITNESS 0 \in Int, TRUE \in BOOLEAN
  <2> QED
    BY <2>2
<1> QED
  BY <1>9, <1>10 DEF SaidInv

\* What is kept in mind in a state of the proof.
LEMMA KeptRemembered ==
  ASSUME NEW L \in Int, NEW R \in BOOLEAN, SaidAt(L, R), NEW m \in told, Kept(m, R) PROVE m \in Remembered
<1>1. m \in ToSet(current.body) \/ \E id \in index : m \in ToSet(disk[id])
  BY DEF SaidAt, Conversed, Told
<1> DEFINE onDisk == UNION {ToSet(disk[id]) : id \in index}
           shown  == UNION {ToSet(episodes[i].body) : i \in DOMAIN episodes}
<1>2. m \in ToSet(current.body) \/ m \in onDisk
  BY <1>1
<1>3. Remembered = ToSet(current.body) \union shown \union onDisk
  BY DEF Remembered
<1> HIDE DEF onDisk, shown
<1> QED
  BY <1>2, <1>3

\* NothingSaidLost: for any conversation and limits, while sessions are closed and not killed,
\* what the user, the model and its calls said is in the conversation or in an archive of the
\* index, however it was paged out, compacted, restored, closed and loaded again
\* (ai_agent.cpp, page_out_context, set_episode_state, close and load_active_state).
THEOREM NothingSaidIsLost == PagingSpec => []NothingSaidLost
<1>1. ASSUME SaidInv PROVE NothingSaidLost
  <2>1. PICK L \in Int, R \in BOOLEAN : SaidAt(L, R)
    BY <1>1 DEF SaidInv
  <2> QED
    BY <2>1, KeptRemembered DEF NothingSaidLost, Kept
<1> QED
  BY <1>1, SaidInit, SaidStep, PTL DEF PagingSpec

\* ResultsKept: for any conversation and limits, as long as agent_mark_episode archived
\* nothing, so is the result of each tool call: what load_active_state drops as a result
\* without a call it finds again behind its call, since each call in what is sent has the
\* next event of its number in its episode as its answer (ai_agent.cpp, page_out_context,
\* the normalization of load_active_state).
THEOREM ResultsAreKept == PagingSpec => []ResultsKept
<1>1. ASSUME SaidInv PROVE ResultsKept
  <2>1. PICK L \in Int, R \in BOOLEAN : (archived = {} => R) /\ SaidAt(L, R)
    BY <1>1 DEF SaidInv
  <2> QED
    BY <2>1, KeptRemembered DEF ResultsKept, Kept
<1> QED
  BY <1>1, SaidInit, SaidStep, PTL DEF PagingSpec

\* GroupsWhole: under the same condition each result in what is sent to the model comes
\* after its call, wherever the range of a page-out began and ended, and whatever was
\* restored (ai_agent.cpp, the loop of page_out_context that settles the range).
THEOREM GroupsStayWhole == PagingSpec => []GroupsWhole
<1>1. ASSUME SaidInv PROVE GroupsWhole
  <2>1. PICK L \in Int, R \in BOOLEAN : (archived = {} => R) /\ SaidAt(L, R)
    BY <1>1 DEF SaidInv
  <2>2. Flat \in Seq(Entry(L)) /\ EntriesBehind(Flat, disk, R)
    BY <2>1, FlatSent DEF SaidAt
  <2> SUFFICES ASSUME archived = {}, NEW j \in DOMAIN Flat, IsResult(Flat[j].m)
               PROVE  \E i \in 1..(j - 1) : IsCall(Flat[i].m) /\ Flat[i].m.n = Flat[j].m.n
    BY DEF GroupsWhole
  <2>3. Called(Flat)
    BY <2>1, <2>2 DEF EntriesBehind, Matched
  <2>4. PICK i \in DOMAIN Flat : Answers(Flat, i, j)
    BY <2>3 DEF Called
  <2>5. i < j /\ IsCall(Flat[i].m) /\ Flat[i].m.n = Flat[j].m.n
    BY <2>4 DEF Answers
  <2>6. i \in 1..(j - 1)
    BY <2>2, <2>5
  <2> QED
    BY <2>5, <2>6
<1> QED
  BY <1>1, SaidInit, SaidStep, PTL DEF PagingSpec

-----------------------------------------------------------------------------
(* Review comments: a comment stays on the line object it was made on *)

RowSet == [line : Nat, text : Seq(Nat)]
CommentSet ==
    [on : Nat, text : Seq(Nat), line : Nat, state : {"new", "confirmed", "resolved", "verified-fixed", "stale"}]

\* Line objects are numbered as they are made, and no two rows share one.
LinesOwn(rs, n) ==
    /\ \A y \in DOMAIN rs : rs[y].line \in 1..n
    /\ \A y, z \in DOMAIN rs : rs[y].line = rs[z].line => y = z

LinesMade(cs, n) == \A k \in DOMAIN cs : cs[k].line <= n

\* CommentFollows, of any rows and comments.
Follows(rs, cs) ==
    \A k \in DOMAIN cs : cs[k].line # 0 =>
        IF Live(cs[k]) THEN cs[k].on \in DOMAIN rs /\ rs[cs[k].on].line = cs[k].line
        ELSE \A y \in DOMAIN rs : rs[y].line # cs[k].line

\* Everything said of rows and comments that commands change together.
Placed(rs, cs, n) ==
    /\ rs \in Seq(RowSet) /\ cs \in Seq(CommentSet) /\ n \in Nat
    /\ LinesOwn(rs, n) /\ LinesMade(cs, n) /\ Follows(rs, cs)

ReviewInv ==
    /\ Placed(rows, comments, made)
    /\ earlier \in Seq(RowSet) /\ LinesOwn(earlier, made)
    /\ file \in Seq(Seq(Nat)) /\ review \in Seq(CommentSet)

LEMMA RowTakenOut ==
  ASSUME NEW rs \in Seq(RowSet), NEW y \in 1..Len(rs)
  PROVE  /\ RowOut(rs, y) \in Seq(RowSet) /\ Len(RowOut(rs, y)) = Len(rs) - 1
         /\ \A i \in 1..Len(rs) - 1 : RowOut(rs, y)[i] = IF i < y THEN rs[i] ELSE rs[i + 1]
<1> DEFINE a == SubSeq(rs, 1, y - 1)
           b == SubSeq(rs, y + 1, Len(rs))
<1>1. a \in Seq(RowSet) /\ Len(a) = y - 1 /\ \A i \in 1..y - 1 : a[i] = rs[i]
  BY SubSeqProperties
<1>2. b \in Seq(RowSet) /\ Len(b) = Len(rs) - y /\ \A i \in 1..Len(rs) - y : b[i] = rs[y + i]
  BY SubSeqProperties
<1> HIDE DEF a, b
<1>3. a \o b \in Seq(RowSet) /\ Len(a \o b) = Len(rs) - 1
  <2>1. a \o b \in Seq(RowSet) /\ Len(a \o b) = Len(a) + Len(b)
    BY <1>1, <1>2, Concatenated
  <2> QED
    BY <2>1, <1>1, <1>2
<1>4. \A i \in 1..Len(rs) - 1 : (a \o b)[i] = IF i < y THEN rs[i] ELSE rs[i + 1]
  BY <1>1, <1>2, Concatenated
<1> QED
  BY <1>3, <1>4 DEF RowOut, a, b

LEMMA RowPutIn ==
  ASSUME NEW rs \in Seq(RowSet), NEW y \in 1..Len(rs) + 1, NEW row \in RowSet
  PROVE  /\ RowIn(rs, y, row) \in Seq(RowSet) /\ Len(RowIn(rs, y, row)) = Len(rs) + 1
         /\ \A i \in 1..Len(rs) + 1 :
              RowIn(rs, y, row)[i] = IF i < y THEN rs[i] ELSE IF i = y THEN row ELSE rs[i - 1]
<1> DEFINE a == SubSeq(rs, 1, y - 1)
           b == SubSeq(rs, y, Len(rs))
           c == a \o <<row>>
<1>1. a \in Seq(RowSet) /\ Len(a) = y - 1 /\ \A i \in 1..y - 1 : a[i] = rs[i]
  BY SubSeqProperties
<1>2. b \in Seq(RowSet) /\ Len(b) = Len(rs) - y + 1 /\ \A i \in 1..Len(rs) - y + 1 : b[i] = rs[y + i - 1]
  BY SubSeqProperties
<1> HIDE DEF a, b
<1>3. c \in Seq(RowSet) /\ Len(c) = y /\ c[y] = row /\ \A i \in 1..y - 1 : c[i] = rs[i]
  BY <1>1, AppendProperties, AppendIsConcat
<1> HIDE DEF c
<1>4. c \o b \in Seq(RowSet) /\ Len(c \o b) = Len(rs) + 1
  <2>1. c \o b \in Seq(RowSet) /\ Len(c \o b) = Len(c) + Len(b)
    BY <1>2, <1>3, Concatenated
  <2> QED
    BY <2>1, <1>2, <1>3
<1>5. \A i \in 1..Len(rs) + 1 : (c \o b)[i] = IF i < y THEN rs[i] ELSE IF i = y THEN row ELSE rs[i - 1]
  <2>1. /\ \A i \in 1..Len(c) : (c \o b)[i] = c[i]
        /\ \A i \in Len(c) + 1..Len(c) + Len(b) : (c \o b)[i] = b[i - Len(c)]
    BY <1>2, <1>3, Concatenated
  <2>2. y \in Nat /\ Len(rs) \in Nat
    OBVIOUS
  <2> QED
    BY <2>1, <2>2, <1>2, <1>3
<1> QED
  BY <1>4, <1>5 DEF RowIn, a, b, c

\* A row leaves, and the manager is told.
LEMMA DeletionFollowed ==
  ASSUME NEW rs, NEW cs, NEW n, Placed(rs, cs, n), NEW y \in 1..Len(rs)
  PROVE  Placed(RowOut(rs, y), LineDeleted(cs, y), n)
<1> DEFINE r == RowOut(rs, y)
           d == LineDeleted(cs, y)
<1>0. rs \in Seq(RowSet) /\ cs \in Seq(CommentSet) /\ n \in Nat /\ LinesOwn(rs, n) /\ LinesMade(cs, n) /\ Follows(rs, cs)
  BY DEF Placed
<1>1. /\ r \in Seq(RowSet) /\ DOMAIN r = 1..Len(rs) - 1 /\ Len(rs) \in Nat /\ DOMAIN rs = 1..Len(rs)
      /\ \A i \in 1..Len(rs) - 1 : r[i] = IF i < y THEN rs[i] ELSE rs[i + 1]
  <2>1. /\ r \in Seq(RowSet) /\ Len(r) = Len(rs) - 1
        /\ \A i \in 1..Len(rs) - 1 : r[i] = IF i < y THEN rs[i] ELSE rs[i + 1]
    BY <1>0, RowTakenOut
  <2> HIDE DEF r
  <2>2. DOMAIN r = 1..Len(r) /\ DOMAIN rs = 1..Len(rs) /\ Len(rs) \in Nat
    BY <1>0, <2>1, LenProperties
  <2> QED
    BY <2>1, <2>2
<1>2. /\ DOMAIN d = DOMAIN cs
      /\ \A k \in DOMAIN cs : /\ cs[k] \in CommentSet /\ d[k] \in CommentSet /\ d[k].line = cs[k].line
                              /\ ~Live(cs[k]) => d[k] = cs[k]
                              /\ Live(cs[k]) /\ cs[k].on = y => ~Live(d[k])
                              /\ Live(cs[k]) /\ cs[k].on < y => d[k] = cs[k]
                              /\ Live(cs[k]) /\ cs[k].on > y => Live(d[k]) /\ d[k].on = cs[k].on - 1
  <2> SUFFICES ASSUME NEW k \in DOMAIN cs
               PROVE  /\ cs[k] \in CommentSet /\ d[k] \in CommentSet /\ d[k].line = cs[k].line
                      /\ ~Live(cs[k]) => d[k] = cs[k]
                      /\ Live(cs[k]) /\ cs[k].on = y => ~Live(d[k])
                      /\ Live(cs[k]) /\ cs[k].on < y => d[k] = cs[k]
                      /\ Live(cs[k]) /\ cs[k].on > y => Live(d[k]) /\ d[k].on = cs[k].on - 1
    BY DEF LineDeleted
  <2>1. cs[k] \in CommentSet
    BY <1>0
  <2>2. d[k] = IF ~Live(cs[k]) \/ cs[k].on < y THEN cs[k]
               ELSE IF cs[k].on = y THEN [cs[k] EXCEPT !.state = "stale"]
               ELSE [cs[k] EXCEPT !.on = @ - 1]
    BY DEF LineDeleted
  <2> QED
    BY <2>1, <2>2, <1>1 DEF CommentSet, Live
<1>3. d \in Seq(CommentSet)
  <2>1. cs \in [1..Len(cs) -> CommentSet] /\ Len(cs) \in Nat
    BY <1>0
  <2>2. d \in [1..Len(cs) -> CommentSet]
    BY <1>2, <2>1 DEF LineDeleted
  <2> HIDE DEF d
  <2> QED
    BY <2>1, <2>2, FunctionIsSeq
<1>4. LinesOwn(r, n)
  <2>1. ASSUME NEW i \in DOMAIN r, NEW j \in DOMAIN r, r[i].line = r[j].line PROVE i = j
    <3> DEFINE from(x) == IF x < y THEN x ELSE x + 1
    <3>1. from(i) \in DOMAIN rs /\ from(j) \in DOMAIN rs /\ r[i] = rs[from(i)] /\ r[j] = rs[from(j)]
      BY <1>1
    <3>2. from(i) = from(j)
      BY <3>1, <2>1, <1>0 DEF LinesOwn
    <3> QED
      BY <3>2, <1>1
  <2>2. ASSUME NEW i \in DOMAIN r PROVE r[i].line \in 1..n
    <3> HIDE DEF r
    <3>1. \E j \in DOMAIN rs : r[i] = rs[j]
      BY <1>1
    <3> QED
      BY <1>0, <3>1 DEF LinesOwn
  <2> QED
    BY <2>1, <2>2 DEF LinesOwn
<1>5. LinesMade(d, n)
  BY <1>0, <1>2 DEF LinesMade
<1>6. Follows(r, d)
  <2> SUFFICES ASSUME NEW k \in DOMAIN cs, d[k].line # 0
               PROVE  IF Live(d[k]) THEN d[k].on \in DOMAIN r /\ r[d[k].on].line = d[k].line
                      ELSE \A z \in DOMAIN r : r[z].line # d[k].line
    BY <1>2 DEF Follows
  <2>0. cs[k].line # 0 /\ d[k].line = cs[k].line /\ cs[k].on \in Nat
    BY <1>2 DEF CommentSet
  <2>1. CASE ~Live(cs[k])
    <3>1. \A z \in DOMAIN rs : rs[z].line # cs[k].line
      BY <2>0, <2>1, <1>0 DEF Follows
    <3>2. ~Live(d[k])
      BY <2>1, <1>2
    <3>3. ASSUME NEW z \in DOMAIN r PROVE r[z].line # d[k].line
      <4>1. \E w \in DOMAIN rs : r[z] = rs[w]
        <5>1. z \in 1..Len(rs) - 1 /\ r[z] = IF z < y THEN rs[z] ELSE rs[z + 1]
          BY <1>1
        <5>2. z \in DOMAIN rs /\ z + 1 \in DOMAIN rs
          BY <1>1, <5>1
        <5> HIDE DEF r
        <5> QED
          BY <5>1, <5>2
      <4> QED
        BY <2>0, <3>1, <4>1
    <3> QED
      BY <3>2, <3>3
  <2>2. CASE Live(cs[k])
    <3>1. cs[k].on \in DOMAIN rs /\ rs[cs[k].on].line = cs[k].line
      BY <2>0, <2>2, <1>0 DEF Follows
    <3>2. CASE cs[k].on = y
      <4>1. \A z \in DOMAIN r : r[z].line # rs[y].line
        <5> SUFFICES ASSUME NEW z \in DOMAIN r PROVE r[z].line # rs[y].line
          OBVIOUS
        <5>1. PICK w \in DOMAIN rs : w # y /\ r[z] = rs[w]
          BY <1>1
        <5> QED
          BY <5>1, <1>0, <1>1 DEF LinesOwn
      <4> QED
        BY <4>1, <3>1, <3>2, <2>0, <2>2, <1>2
    <3>3. CASE cs[k].on < y
      BY <3>1, <3>3, <2>0, <2>2, <1>1, <1>2
    <3>4. CASE cs[k].on > y
      BY <3>1, <3>4, <2>0, <2>2, <1>1, <1>2
    <3> QED
      BY <3>2, <3>3, <3>4, <2>0, <1>1
  <2> QED
    BY <2>1, <2>2
<1> QED
  BY <1>0, <1>1, <1>3, <1>4, <1>5, <1>6 DEF Placed

\* A row of a new line object comes, and the manager is told.
LEMMA InsertionFollowed ==
  ASSUME NEW rs, NEW cs, NEW n, Placed(rs, cs, n), NEW y \in 1..Len(rs) + 1, NEW t \in Seq(Nat)
  PROVE  Placed(RowIn(rs, y, Row(n + 1, t)), LineInserted(cs, y), n + 1)
<1> DEFINE r == RowIn(rs, y, Row(n + 1, t))
           d == LineInserted(cs, y)
<1>0. rs \in Seq(RowSet) /\ cs \in Seq(CommentSet) /\ n \in Nat /\ LinesOwn(rs, n) /\ LinesMade(cs, n) /\ Follows(rs, cs)
  BY DEF Placed
<1>1. /\ r \in Seq(RowSet) /\ DOMAIN r = 1..Len(rs) + 1 /\ Len(rs) \in Nat /\ DOMAIN rs = 1..Len(rs)
      /\ \A i \in 1..Len(rs) + 1 : r[i] = IF i < y THEN rs[i] ELSE IF i = y THEN Row(n + 1, t) ELSE rs[i - 1]
  <2>1. Row(n + 1, t) \in RowSet
    BY <1>0 DEF Row, RowSet
  <2>2. /\ r \in Seq(RowSet) /\ Len(r) = Len(rs) + 1
        /\ \A i \in 1..Len(rs) + 1 : r[i] = IF i < y THEN rs[i] ELSE IF i = y THEN Row(n + 1, t) ELSE rs[i - 1]
    BY <1>0, <2>1, RowPutIn
  <2> HIDE DEF r
  <2> QED
    BY <1>0, <2>2
<1>2. /\ DOMAIN d = DOMAIN cs
      /\ \A k \in DOMAIN cs : /\ cs[k] \in CommentSet /\ d[k] \in CommentSet /\ d[k].line = cs[k].line
                              /\ Live(d[k]) = Live(cs[k])
                              /\ Live(cs[k]) => d[k].on = IF cs[k].on >= y THEN cs[k].on + 1 ELSE cs[k].on
  <2> SUFFICES ASSUME NEW k \in DOMAIN cs
               PROVE  /\ cs[k] \in CommentSet /\ d[k] \in CommentSet /\ d[k].line = cs[k].line
                      /\ Live(d[k]) = Live(cs[k])
                      /\ Live(cs[k]) => d[k].on = IF cs[k].on >= y THEN cs[k].on + 1 ELSE cs[k].on
    BY DEF LineInserted
  <2>1. cs[k] \in CommentSet
    BY <1>0
  <2>2. d[k] = IF Live(cs[k]) /\ cs[k].on >= y THEN [cs[k] EXCEPT !.on = @ + 1] ELSE cs[k]
    BY DEF LineInserted
  <2>3. CASE Live(cs[k]) /\ cs[k].on >= y
    <3> DEFINE c == cs[k]
    <3>1. c \in CommentSet /\ Live(c)
      BY <2>1, <2>3
    <3>2. d[k] = [on |-> c.on + 1, text |-> c.text, line |-> c.line, state |-> c.state]
      <4> HIDE DEF c, d
      <4>1. d[k] = [c EXCEPT !.on = @ + 1]
        BY <2>2, <2>3 DEF c
      <4> QED
        BY <3>1, <4>1 DEF CommentSet
    <3> HIDE DEF c, d
    <3> QED
      BY <2>1, <2>3, <3>1, <3>2 DEF CommentSet, Live, c
  <2>4. CASE ~(Live(cs[k]) /\ cs[k].on >= y)
    <3>1. d[k] = cs[k]
      BY <2>2, <2>4
    <3> HIDE DEF d
    <3> QED
      BY <2>1, <2>4, <3>1
  <2> QED
    BY <2>3, <2>4
<1>3. d \in Seq(CommentSet)
  <2>1. cs \in [1..Len(cs) -> CommentSet] /\ Len(cs) \in Nat
    BY <1>0
  <2>2. d \in [1..Len(cs) -> CommentSet]
    BY <1>2, <2>1 DEF LineInserted
  <2> HIDE DEF d
  <2> QED
    BY <2>1, <2>2, FunctionIsSeq
<1> HIDE DEF r, d
<1>4. LinesOwn(r, n + 1)
  <2> DEFINE from(x) == IF x < y THEN x ELSE x - 1
  <2>0. \A i \in DOMAIN r : \/ i = y /\ r[i].line = n + 1
                            \/ i # y /\ from(i) \in DOMAIN rs /\ r[i] = rs[from(i)]
    BY <1>1 DEF Row
  <2>1. ASSUME NEW i \in DOMAIN r, NEW j \in DOMAIN r, r[i].line = r[j].line PROVE i = j
    <3>1. \A x \in DOMAIN rs : rs[x].line # n + 1
      BY <1>0 DEF LinesOwn
    <3>2. CASE i # y /\ j # y
      <4>1. from(i) = from(j)
        BY <2>0, <2>1, <3>2, <1>0 DEF LinesOwn
      <4> QED
        BY <4>1, <3>2, <1>1
    <3> QED
      BY <2>0, <2>1, <3>1, <3>2
  <2>2. \A i \in DOMAIN r : r[i].line \in 1..n + 1
    BY <1>0, <2>0 DEF LinesOwn
  <2> QED
    BY <2>1, <2>2 DEF LinesOwn
<1>5. LinesMade(d, n + 1)
  BY <1>0, <1>2 DEF LinesMade, CommentSet
<1>6. Follows(r, d)
  <2> SUFFICES ASSUME NEW k \in DOMAIN cs, d[k].line # 0
               PROVE  IF Live(d[k]) THEN d[k].on \in DOMAIN r /\ r[d[k].on].line = d[k].line
                      ELSE \A z \in DOMAIN r : r[z].line # d[k].line
    BY <1>2 DEF Follows
  <2>0. cs[k].line # 0 /\ d[k].line = cs[k].line /\ cs[k].on \in Nat /\ Live(d[k]) = Live(cs[k])
    BY <1>2 DEF CommentSet
  <2>1. CASE ~Live(cs[k])
    <3>1. cs[k].line # n + 1
      BY <1>0, <1>2 DEF LinesMade, CommentSet
    <3>2. \A z \in DOMAIN rs : rs[z].line # cs[k].line
      BY <2>0, <2>1, <1>0 DEF Follows
    <3>3. \A z \in DOMAIN r : r[z].line = n + 1 \/ \E w \in DOMAIN rs : r[z] = rs[w]
      <4>1. \A z \in DOMAIN r : z < y => z \in DOMAIN rs /\ r[z] = rs[z]
        BY <1>1
      <4>2. \A z \in DOMAIN r : z > y => z - 1 \in DOMAIN rs /\ r[z] = rs[z - 1]
        BY <1>1
      <4>3. \A z \in DOMAIN r : z = y => r[z].line = n + 1
        BY <1>1 DEF Row
      <4>4. \A z \in DOMAIN r : z < y \/ z = y \/ z > y
        BY <1>1
      <4> QED
        BY <4>1, <4>2, <4>3, <4>4
    <3> QED
      BY <3>1, <3>2, <3>3, <2>0, <2>1
  <2>2. CASE Live(cs[k])
    <3>1. cs[k].on \in DOMAIN rs /\ rs[cs[k].on].line = cs[k].line
      BY <2>0, <2>2, <1>0 DEF Follows
    <3>2. d[k].on = IF cs[k].on >= y THEN cs[k].on + 1 ELSE cs[k].on
      BY <2>2, <1>2
    <3>3. CASE cs[k].on >= y
      <4>1. d[k].on \in DOMAIN r /\ r[d[k].on] = rs[cs[k].on]
        BY <3>1, <3>2, <3>3, <2>0, <1>1
      <4> QED
        BY <4>1, <3>1, <2>0, <2>2
    <3>4. CASE cs[k].on < y
      <4>1. d[k].on \in DOMAIN r /\ r[d[k].on] = rs[cs[k].on]
        BY <3>1, <3>2, <3>4, <2>0, <1>1
      <4> QED
        BY <4>1, <3>1, <2>0, <2>2
    <3> QED
      BY <3>3, <3>4, <2>0, <1>1
  <2> QED
    BY <2>1, <2>2
<1> QED
  BY <1>0, <1>1, <1>3, <1>4, <1>5, <1>6 DEF Placed, r, d

\* Texts may change at will.
LEMMA TextChanged ==
  ASSUME NEW rs, NEW cs, NEW n, Placed(rs, cs, n), NEW y \in DOMAIN rs, NEW t \in Seq(Nat)
  PROVE  Placed([rs EXCEPT ![y].text = t], cs, n) /\ Len([rs EXCEPT ![y].text = t]) = Len(rs)
<1> DEFINE r == [rs EXCEPT ![y].text = t]
<1>1. rs \in [1..Len(rs) -> RowSet] /\ Len(rs) \in Nat /\ DOMAIN rs = 1..Len(rs)
  BY DEF Placed
<1>2. r \in [1..Len(rs) -> RowSet] /\ \A i \in DOMAIN rs : r[i].line = rs[i].line
  BY <1>1 DEF RowSet
<1> HIDE DEF r
<1>3. r \in Seq(RowSet) /\ Len(r) = Len(rs) /\ DOMAIN r = DOMAIN rs
  BY <1>1, <1>2, FunctionIsSeq
<1>4. LinesOwn(r, n) /\ Follows(r, cs)
  BY <1>2, <1>3 DEF Placed, LinesOwn, Follows
<1>5. Placed(r, cs, n) /\ Len(r) = Len(rs)
  BY <1>3, <1>4 DEF Placed
<1> QED
  BY <1>5 DEF r

\* Comments the manager is not told about are on no line.
LEMMA NobodyTold ==
  ASSUME NEW cs \in Seq(CommentSet)
  PROVE  /\ Untold(cs) \in Seq(CommentSet) /\ DOMAIN Untold(cs) = DOMAIN cs
         /\ \A k \in DOMAIN cs : Untold(cs)[k].line = 0
<1>1. cs \in [1..Len(cs) -> CommentSet] /\ Len(cs) \in Nat /\ DOMAIN cs = 1..Len(cs)
  OBVIOUS
<1>2. /\ Untold(cs) \in [1..Len(cs) -> CommentSet] /\ DOMAIN Untold(cs) = DOMAIN cs
      /\ \A k \in DOMAIN cs : Untold(cs)[k].line = 0
  BY <1>1 DEF Untold, CommentSet
<1> QED
  BY <1>1, <1>2, FunctionIsSeq

\* verify_line_contents puts a comment on a row of the document or on none.
LEMMA VerifiedFollows ==
  ASSUME NEW rs, NEW cs, NEW n, Placed(rs, cs, n)
  PROVE  Placed(rs, Verified(cs, rs), n)
<1> DEFINE d == Verified(cs, rs)
<1>1. /\ cs \in [1..Len(cs) -> CommentSet] /\ Len(cs) \in Nat /\ DOMAIN cs = 1..Len(cs)
      /\ rs \in [1..Len(rs) -> RowSet] /\ Len(rs) \in Nat /\ DOMAIN rs = 1..Len(rs) /\ n \in Nat
  BY DEF Placed
<1>2. ASSUME NEW k \in DOMAIN cs
      PROVE  /\ d[k] \in CommentSet /\ cs[k] \in CommentSet
             /\ \/ d[k] = cs[k]
                \/ d[k].line = 0
                \/ d[k].on = cs[k].on /\ cs[k].on \in DOMAIN rs /\ d[k].line = rs[cs[k].on].line /\ Live(d[k])
  <2>1. cs[k] \in CommentSet
    BY <1>1
  <2>2. \/ d[k] = cs[k]
        \/ /\ Live(cs[k]) /\ cs[k].on \in DOMAIN rs /\ d[k] = [cs[k] EXCEPT !.line = rs[cs[k].on].line]
        \/ d[k] = [cs[k] EXCEPT !.state = "stale", !.line = 0]
    BY DEF Verified
  <2>3. \A i \in DOMAIN rs : rs[i].line \in Nat
    BY <1>1 DEF RowSet
  <2> HIDE DEF d
  <2>4. CASE Live(cs[k]) /\ cs[k].on \in DOMAIN rs /\ d[k] = [cs[k] EXCEPT !.line = rs[cs[k].on].line]
    <3>1. rs[cs[k].on].line \in Nat
      BY <2>3, <2>4
    <3>2. d[k] \in CommentSet /\ d[k].on = cs[k].on /\ d[k].line = rs[cs[k].on].line /\ d[k].state = cs[k].state
      BY <3>1, <2>1, <2>4 DEF CommentSet
    <3> QED
      BY <3>2, <2>1, <2>4 DEF Live
  <2>5. CASE d[k] = [cs[k] EXCEPT !.state = "stale", !.line = 0]
    <3>1. d[k] = [on |-> cs[k].on, text |-> cs[k].text, line |-> 0, state |-> "stale"]
      BY <2>1, <2>5 DEF CommentSet
    <3> QED
      BY <3>1, <2>1 DEF CommentSet
  <2> QED
    BY <2>1, <2>2, <2>4, <2>5
<1>3. d \in [1..Len(cs) -> CommentSet] /\ DOMAIN d = DOMAIN cs
  BY <1>1, <1>2 DEF Verified
<1> HIDE DEF d
<1>4. d \in Seq(CommentSet)
  BY <1>1, <1>3, FunctionIsSeq
<1>5. LinesMade(d, n)
  <2>1. \A i \in DOMAIN rs : rs[i].line <= n
    BY <1>1 DEF Placed, LinesOwn
  <2> QED
    BY <2>1, <1>1, <1>2, <1>3 DEF Placed, LinesMade
<1>6. Follows(rs, d)
  BY <1>2, <1>3 DEF Placed, Follows
<1> QED
  BY <1>4, <1>5, <1>6 DEF Placed, d
\* The rows an external edit removes leave one by one.
LEMMA OneByOne ==
  ASSUME NEW y, NEW n \in 1..2
  PROVE  LET r1 == [rows |-> RowOut(rows, y), comments |-> LineDeleted(comments, y)]
             r2 == [rows |-> RowOut(r1.rows, y), comments |-> LineDeleted(r1.comments, y)]
         IN  RowsOut(y, n) = IF n = 1 THEN r1 ELSE r2
<1> DEFINE r0 == [rows |-> rows, comments |-> comments]
           next(r) == [rows |-> RowOut(r.rows, y), comments |-> LineDeleted(r.comments, y)]
           Out(g) == g = [i \in 0..n |-> IF i = 0 THEN r0 ELSE next(g[i - 1])]
           f == [i \in 0..n |-> IF i = 0 THEN r0 ELSE IF i = 1 THEN next(r0) ELSE next(next(r0))]
<1> HIDE DEF next
<1>1. Out(f)
  <2>1. \A i \in 0..n : i = 0 \/ (i = 1 /\ f[i - 1] = r0) \/ (i = 2 /\ f[i - 1] = next(r0))
    OBVIOUS
  <2>2. \A i \in 0..n : (IF i = 0 THEN r0 ELSE IF i = 1 THEN next(r0) ELSE next(next(r0)))
                        = (IF i = 0 THEN r0 ELSE next(f[i - 1]))
    BY <2>1
  <2> QED
    BY <2>2
<1> DEFINE g == CHOOSE g : Out(g)
<1>2. Out(g)
  BY <1>1
<1>3. RowsOut(y, n) = g[n]
  BY DEF RowsOut, next
<1> HIDE DEF g
<1>4. g[0] = r0 /\ g[1] = next(g[0]) /\ (n = 2 => g[2] = next(g[1]))
  BY <1>2
<1> QED
  BY <1>3, <1>4 DEF next
-----------------------------------------------------------------------------
(* The commands *)

LEMMA CommandFollowed ==
  ASSUME ReviewInv, NEW rs, NEW cs, NEW k \in 0..1, Placed(rs, cs, made + k), Commands(rs, cs, k)
  PROVE  ReviewInv'
<1>1. rows' = rs /\ comments' = cs /\ made' = made + k /\ earlier' = rows /\ UNCHANGED <<file, review>>
  BY DEF Commands
<1>2. LinesOwn(rows, made + k) /\ rows \in Seq(RowSet)
  BY DEF ReviewInv, Placed, LinesOwn
<1> QED
  BY <1>1, <1>2 DEF ReviewInv

LEMMA RowTyped ==
  ASSUME ReviewInv, NEW y \in DOMAIN rows
  PROVE  rows[y].text \in Seq(Nat) /\ y \in 1..Len(rows) /\ Len(rows) \in Nat /\ made + 0 = made
<1>1. rows \in Seq(RowSet) /\ made \in Nat
  BY DEF ReviewInv, Placed
<1>2. y \in 1..Len(rows) /\ Len(rows) \in Nat /\ made + 0 = made
  BY <1>1
<1>3. rows[y] \in RowSet
  BY <1>1, <1>2, ElementOfSeq
<1> QED
  BY <1>2, <1>3 DEF RowSet

LEMMA EditFollowed ==
  ASSUME ReviewInv, NEW y \in DOMAIN rows, NEW t \in {<<>>, NewText \o rows[y].text}, EditsRow(y, t)
  PROVE  ReviewInv'
<1>1. t \in Seq(Nat)
  <2>1. NewText \in Seq(Nat) /\ rows[y].text \in Seq(Nat)
    BY RowTyped DEF NewText
  <2>2. <<>> \in Seq(Nat)
    OBVIOUS
  <2>3. NewText \o rows[y].text \in Seq(Nat)
    BY <2>1, Concatenated
  <2> QED
    BY <2>2, <2>3
<1>2. Placed([rows EXCEPT ![y].text = t], comments, made + 0)
  BY <1>1, TextChanged, RowTyped DEF ReviewInv
<1> QED
  BY <1>2, CommandFollowed DEF EditsRow

LEMMA SplitFollowed ==
  ASSUME ReviewInv, NEW y \in DOMAIN rows, NEW x \in 0..Len(rows[y].text), Splits(y, x)
  PROVE  ReviewInv'
<1> DEFINE t == rows[y].text
           a == SubSeq(t, 1, x)
           b == SubSeq(t, x + 1, Len(t))
           r == [rows EXCEPT ![y].text = a]
<1>1. t \in Seq(Nat) /\ Len(t) \in Nat /\ y \in 1..Len(rows) /\ Len(rows) \in Nat
  BY RowTyped
<1>2. a \in Seq(Nat) /\ b \in Seq(Nat)
  <2>1. x \in Nat /\ x + 1 \in Nat \ {0} /\ 1 <= x + 1 /\ x <= Len(t) /\ x + 1 <= Len(t) + 1
    BY <1>1
  <2> HIDE DEF t
  <2>2. a \in Seq(Nat)
    BY <1>1, <2>1, Slice
  <2>3. b \in Seq(Nat)
    BY <1>1, <2>1, Slice
  <2> QED
    BY <2>2, <2>3
<1>3. Splits(y, x) <=> Commands(RowIn(r, y + 1, Row(made + 1, b)), LineInserted(comments, y + 1), 1)
  BY DEF Splits, NewLine
<1> HIDE DEF a, b
<1>4. Placed(r, comments, made) /\ Len(r) = Len(rows)
  BY <1>2, TextChanged DEF ReviewInv
<1> HIDE DEF r
<1>5. y + 1 \in 1..Len(r) + 1
  BY <1>1, <1>4
<1>6. Placed(RowIn(r, y + 1, Row(made + 1, b)), LineInserted(comments, y + 1), made + 1)
  BY <1>2, <1>4, <1>5, InsertionFollowed
<1> QED
  BY <1>3, <1>6, CommandFollowed

LEMMA JoinFollowed ==
  ASSUME ReviewInv, NEW y \in DOMAIN rows, JoinsRows(y) PROVE ReviewInv'
<1> DEFINE t == rows[y].text \o rows[y + 1].text
           r == [rows EXCEPT ![y].text = t]
<1>1. y + 1 \in DOMAIN rows /\ y \in 1..Len(rows) /\ Len(rows) \in Nat
  BY RowTyped DEF JoinsRows, ReviewInv, Placed
<1>2. t \in Seq(Nat)
  BY <1>1, RowTyped, Concatenated
<1>3. Commands(RowOut(r, y + 1), LineDeleted(comments, y + 1), 0)
  BY DEF JoinsRows
<1> HIDE DEF t
<1>4. Placed(r, comments, made) /\ Len(r) = Len(rows)
  BY <1>2, TextChanged DEF ReviewInv
<1> HIDE DEF r
<1>5. y + 1 \in 1..Len(r)
  BY <1>1, <1>4, RowTyped
<1>6. Placed(RowOut(r, y + 1), LineDeleted(comments, y + 1), made + 0)
  BY <1>4, <1>5, DeletionFollowed, RowTyped
<1> QED
  BY <1>3, <1>6, CommandFollowed

LEMMA DeleteFollowed ==
  ASSUME ReviewInv, NEW y \in DOMAIN rows, DeletesLine(y) PROVE ReviewInv'
<1>1. y \in 1..Len(rows) /\ Len(rows) \in Nat /\ Placed(rows, comments, made) /\ made + 0 = made
  BY RowTyped DEF ReviewInv
<1>2. CASE Len(rows) = 1
  <2>1. 1 \in DOMAIN rows
    BY <1>1, <1>2
  <2>2. Placed([rows EXCEPT ![1].text = <<>>], comments, made + 0)
    <3>1. <<>> \in Seq(Nat)
      BY EmptySeq
    <3>2. Placed([rows EXCEPT ![1].text = <<>>], comments, made)
      BY <1>1, <2>1, <3>1, TextChanged
    <3> QED
      BY <1>1, <3>2
  <2> QED
    BY <1>2, <2>2, CommandFollowed DEF DeletesLine
<1>3. CASE Len(rows) # 1
  <2>1. Placed(RowOut(rows, y), LineDeleted(comments, y), made + 0)
    BY <1>1, DeletionFollowed
  <2> QED
    BY <1>3, <2>1, CommandFollowed DEF DeletesLine
<1> QED
  BY <1>2, <1>3

\* Whatever rows an external edit takes away.
LEMMA RowsLeave ==
  ASSUME ReviewInv, NEW y \in DOMAIN rows, NEW n \in 1..2, y + n - 1 <= Len(rows)
  PROVE  /\ Placed(RowsOut(y, n).rows, RowsOut(y, n).comments, made)
         /\ Len(RowsOut(y, n).rows) = Len(rows) - n
<1>1. y \in 1..Len(rows) /\ Len(rows) \in Nat /\ Placed(rows, comments, made) /\ rows \in Seq(RowSet)
  BY RowTyped DEF ReviewInv, Placed
<1> DEFINE r == RowOut(rows, y)
           c == LineDeleted(comments, y)
<1>2. Placed(r, c, made) /\ r \in Seq(RowSet) /\ Len(r) = Len(rows) - 1
  BY <1>1, DeletionFollowed, RowTakenOut
<1>3. RowsOut(y, n) = IF n = 1 THEN [rows |-> r, comments |-> c]
                      ELSE [rows |-> RowOut(r, y), comments |-> LineDeleted(c, y)]
  BY OneByOne
<1> HIDE DEF r, c
<1>4. CASE n = 1
  BY <1>2, <1>3, <1>4
<1>5. CASE n = 2
  <2>1. y \in 1..Len(r)
    BY <1>1, <1>2, <1>5
  <2>2. Placed(RowOut(r, y), LineDeleted(c, y), made) /\ Len(RowOut(r, y)) = Len(r) - 1
    BY <1>2, <2>1, DeletionFollowed, RowTakenOut
  <2> QED
    BY <2>2, <1>1, <1>2, <1>3, <1>5
<1> QED
  BY <1>4, <1>5

LEMMA AgentFollowed ==
  ASSUME ReviewInv, NEW y \in DOMAIN rows, NEW n \in 1..2, AgentRemoves(y, n) \/ AgentReplaces(y, n, NewText)
  PROVE  ReviewInv'
<1> DEFINE r == RowsOut(y, n)
<1>1. /\ Placed(r.rows, r.comments, made) /\ Len(r.rows) = Len(rows) - n
      /\ y \in 1..Len(rows) /\ Len(rows) \in Nat /\ made + 0 = made /\ y + n - 1 <= Len(rows)
  BY RowsLeave, RowTyped DEF AgentRemoves, AgentReplaces
<1> HIDE DEF r
<1>2. CASE AgentRemoves(y, n)
  BY <1>1, <1>2, CommandFollowed DEF AgentRemoves, r
<1>3. CASE AgentReplaces(y, n, NewText)
  <2>1. y \in 1..Len(r.rows) + 1 /\ NewText \in Seq(Nat)
    BY <1>1 DEF NewText
  <2>2. Placed(RowIn(r.rows, y, Row(made + 1, NewText)), LineInserted(r.comments, y), made + 1)
    BY <1>1, <2>1, InsertionFollowed
  <2>3. Commands(RowIn(r.rows, y, Row(made + 1, NewText)), LineInserted(r.comments, y), 1)
    BY <1>3 DEF AgentReplaces, NewLine, r
  <2> QED
    BY <2>2, <2>3, CommandFollowed
<1> QED
  BY <1>2, <1>3

LEMMA AddFollowed ==
  ASSUME ReviewInv, NEW y \in 1..Len(rows) + 1, AgentAdds(y, NewText) PROVE ReviewInv'
<1>1. NewText \in Seq(Nat)
  BY DEF NewText
<1>2. Placed(RowIn(rows, y, Row(made + 1, NewText)), LineInserted(comments, y), made + 1)
  BY <1>1, InsertionFollowed DEF ReviewInv
<1> QED
  BY <1>2, CommandFollowed DEF AgentAdds, NewLine

LEMMA Guessed ==
  ASSUME NEW rs \in Seq(RowSet), NEW cs \in Seq(CommentSet), NEW n \in Nat, LinesOwn(rs, n)
  PROVE  Placed(rs, Untold(cs), n)
  BY NobodyTold DEF Placed, LinesMade, Follows

LEMMA BlockFollowed ==
  ASSUME ReviewInv, NEW a \in DOMAIN rows, NEW b \in DOMAIN rows, BlockDeletes(a, b) PROVE ReviewInv'
<1> DEFINE c == SubSeq(rows, 1, a)
           d == SubSeq(rows, b + 1, Len(rows))
<1>1. /\ a \in 1..Len(rows) /\ b \in 1..Len(rows) /\ a < b /\ Len(rows) \in Nat /\ DOMAIN rows = 1..Len(rows)
      /\ rows \in Seq(RowSet) /\ LinesOwn(rows, made) /\ comments \in Seq(CommentSet) /\ made \in Nat /\ made + 0 = made
  BY RowTyped DEF BlockDeletes, ReviewInv, Placed
<1>2. c \in Seq(RowSet) /\ Len(c) = a /\ \A i \in 1..a : c[i] = rows[i]
  <2>1. a \in Nat /\ 1 \in Nat \ {0} /\ 1 <= a + 1 /\ a <= Len(rows) /\ a + 1 - 1 = a /\ \A i \in 1..a : 1 + i - 1 = i
    BY <1>1
  <2> QED
    BY <1>1, <2>1, Slice
<1>3. d \in Seq(RowSet) /\ Len(d) = Len(rows) - b /\ \A i \in 1..Len(rows) - b : d[i] = rows[b + i]
  <2> DEFINE m == b + 1
             n == Len(rows)
  <2>1. m \in Nat \ {0} /\ n \in Nat /\ m <= n + 1 /\ n <= Len(rows) /\ rows \in Seq(RowSet)
    BY <1>1
  <2>2. d = SubSeq(rows, m, n)
    OBVIOUS
  <2>3. n + 1 - m = Len(rows) - b /\ \A i \in 1..Len(rows) - b : m + i - 1 = b + i
    BY <1>1
  <2> HIDE DEF d, m, n
  <2>4. d \in Seq(RowSet) /\ Len(d) = n + 1 - m /\ \A i \in 1..n + 1 - m : d[i] = rows[m + i - 1]
    BY <2>1, <2>2, Slice
  <2> QED
    BY <2>3, <2>4
<1>4. Commands(c \o d, Untold(comments), 0)
  BY DEF BlockDeletes
<1> HIDE DEF c, d
<1>5. /\ c \o d \in Seq(RowSet) /\ Len(c \o d) = Len(c) + Len(d)
      /\ \A i \in 1..Len(c) : (c \o d)[i] = c[i]
      /\ \A i \in Len(c) + 1..Len(c) + Len(d) : (c \o d)[i] = d[i - Len(c)]
  <2>1. c \in Seq(RowSet) /\ d \in Seq(RowSet)
    BY <1>2, <1>3
  <2> QED
    BY <2>1, Concatenated
<1> DEFINE e == c \o d
           from(i) == IF i <= a THEN i ELSE i - a + b
<1> HIDE DEF e
<1>6. DOMAIN e = 1..a + Len(rows) - b /\ \A i \in DOMAIN e : from(i) \in DOMAIN rows /\ e[i] = rows[from(i)]
  <2>1. DOMAIN e = 1..a + Len(rows) - b
    BY <1>1, <1>2, <1>3, <1>5 DEF e
  <2>2. ASSUME NEW i \in DOMAIN e, i <= a PROVE from(i) \in DOMAIN rows /\ e[i] = rows[from(i)]
    BY <2>1, <2>2, <1>1, <1>2, <1>5 DEF e
  <2>3. ASSUME NEW i \in DOMAIN e, i > a PROVE from(i) \in DOMAIN rows /\ e[i] = rows[from(i)]
    <3>1. i \in Len(c) + 1..Len(c) + Len(d) /\ i - Len(c) \in 1..Len(rows) - b /\ Len(c) = a
      BY <2>1, <2>3, <1>1, <1>2, <1>3
    <3>2. e[i] = d[i - a]
      BY <3>1, <1>5 DEF e
    <3>3. d[i - a] = rows[b + (i - a)]
      BY <3>1, <1>3
    <3> QED
      BY <3>1, <3>2, <3>3, <2>3, <1>1
  <2> QED
    BY <2>1, <2>2, <2>3, <1>1
<1>7. LinesOwn(e, made)
  <2>1. ASSUME NEW i \in DOMAIN e, NEW j \in DOMAIN e, e[i].line = e[j].line PROVE i = j
    <3>1. from(i) = from(j)
      <4>1. from(i) \in DOMAIN rows /\ from(j) \in DOMAIN rows /\ rows[from(i)].line = rows[from(j)].line
        BY <1>6, <2>1
      <4> HIDE DEF from
      <4> QED
        BY <4>1, <1>1 DEF LinesOwn
    <3> QED
      BY <3>1, <1>1, <1>6
  <2>2. \A i \in DOMAIN e : e[i].line \in 1..made
    BY <1>1, <1>6 DEF LinesOwn
  <2> QED
    BY <2>1, <2>2 DEF LinesOwn
<1>8. Placed(e, Untold(comments), made + 0)
  BY <1>1, <1>5, <1>7, Guessed DEF e
<1> QED
  BY <1>4, <1>8, CommandFollowed DEF e

LEMMA UndoFollowed ==
  ASSUME ReviewInv, TakesBack PROVE ReviewInv'
<1>1. made \in Nat /\ made + 0 = made /\ earlier \in Seq(RowSet) /\ comments \in Seq(CommentSet) /\ LinesOwn(earlier, made)
  BY DEF ReviewInv, Placed
<1>2. Placed(earlier, Untold(comments), made + 0)
  BY <1>1, Guessed
<1> QED
  BY <1>2, CommandFollowed DEF TakesBack
-----------------------------------------------------------------------------
(* The manager's operations and the files *)

\* Comments that are each of the right kind and rightly placed, under the same rows.
LEMMA ManagerFollowed ==
  ASSUME ReviewInv, Placed(rows, comments', made), UNCHANGED <<rows, made, earlier, file>>,
         review' = review \/ review' = comments'
  PROVE  ReviewInv'
  BY DEF ReviewInv, Placed

LEMMA CreateFollowed ==
  ASSUME ReviewInv, NEW y \in 0..Len(file) + 1, NEW given \in Seq(Nat), CreatesComment(y, given)
  PROVE  ReviewInv'
<1> DEFINE text == IF given = <<>> /\ y \in DOMAIN file THEN file[y] ELSE given
           line == IF TextsOf(rows) = file /\ y \in DOMAIN rows THEN rows[y].line ELSE 0
           c == [on |-> y, text |-> text, state |-> "new", line |-> line]
<1>1. /\ comments' = Append(comments, c) /\ review' = comments' /\ UNCHANGED <<rows, made, earlier, file>>
  BY DEF CreatesComment
<1>2. /\ comments \in Seq(CommentSet) /\ rows \in Seq(RowSet) /\ file \in Seq(Seq(Nat)) /\ made \in Nat
      /\ LinesOwn(rows, made) /\ LinesMade(comments, made) /\ Follows(rows, comments)
  BY DEF ReviewInv, Placed
<1>3. text \in Seq(Nat)
  BY <1>2
<1>4. line = 0 \/ (y \in DOMAIN rows /\ line = rows[y].line /\ line \in 1..made)
  BY <1>2 DEF LinesOwn
<1> HIDE DEF text, line
<1>5. c \in CommentSet /\ Live(c) /\ c.line = line /\ c.on = y
  <2>1. y \in Nat /\ line \in Nat
    BY <1>2, <1>4
  <2> QED
    BY <2>1, <1>3 DEF CommentSet, Live
<1> HIDE DEF c
<1> DEFINE cs == Append(comments, c)
<1>6. /\ cs \in Seq(CommentSet) /\ DOMAIN cs = 1..Len(comments) + 1 /\ cs[Len(comments) + 1] = c
      /\ DOMAIN comments = 1..Len(comments) /\ Len(comments) \in Nat /\ \A k \in 1..Len(comments) : cs[k] = comments[k]
  BY <1>2, <1>5
<1> HIDE DEF cs
<1>7. LinesMade(cs, made)
  <2>1. c.line <= made
    BY <1>2, <1>4, <1>5
  <2>2. \A k \in DOMAIN comments : comments[k].line <= made
    BY <1>2 DEF LinesMade
  <2>3. \A k \in DOMAIN cs : k \in DOMAIN comments \/ k = Len(comments) + 1
    BY <1>6
  <2>4. \A k \in DOMAIN cs : cs[k].line <= made
    BY <2>1, <2>2, <2>3, <1>6
  <2> QED
    BY <2>4 DEF LinesMade
<1>8. Follows(rows, cs)
  <2> SUFFICES ASSUME NEW k \in DOMAIN cs, cs[k].line # 0
               PROVE  IF Live(cs[k]) THEN cs[k].on \in DOMAIN rows /\ rows[cs[k].on].line = cs[k].line
                      ELSE \A z \in DOMAIN rows : rows[z].line # cs[k].line
    BY DEF Follows
  <2>1. CASE k \in DOMAIN comments
    BY <2>1, <1>2, <1>6 DEF Follows
  <2>2. CASE k = Len(comments) + 1
    BY <2>2, <1>4, <1>5, <1>6
  <2> QED
    BY <2>1, <2>2, <1>6
<1>9. Placed(rows, cs, made)
  BY <1>2, <1>6, <1>7, <1>8 DEF Placed
<1> QED
  BY <1>1, <1>9, ManagerFollowed DEF cs

LEMMA StateFollowed ==
  ASSUME ReviewInv, NEW k \in DOMAIN comments, NEW state \in {"new", "confirmed", "resolved", "verified-fixed", "stale"},
         Becomes(k, state)
  PROVE  ReviewInv'
<1> DEFINE l == IF Live(comments[k]) /\ state # "stale" THEN comments[k].line ELSE 0
           cs == [comments EXCEPT ![k].state = state, ![k].line = l]
<1>1. /\ comments' = cs /\ review' = comments' /\ UNCHANGED <<rows, made, earlier, file>>
  BY DEF Becomes
<1>2. /\ comments \in [1..Len(comments) -> CommentSet] /\ Len(comments) \in Nat /\ rows \in Seq(RowSet) /\ made \in Nat
      /\ LinesOwn(rows, made) /\ LinesMade(comments, made) /\ Follows(rows, comments)
  BY DEF ReviewInv, Placed
<1>3. l \in Nat /\ (l = 0 \/ (l = comments[k].line /\ Live(comments[k]) /\ state # "stale"))
  BY <1>2 DEF CommentSet
<1> HIDE DEF l
<1>4. /\ DOMAIN cs = DOMAIN comments
      /\ \A j \in DOMAIN cs : j # k => cs[j] = comments[j]
      /\ cs[k] \in CommentSet /\ cs[k].line = l /\ cs[k].state = state /\ cs[k].on = comments[k].on
  <2>1. cs[k] = [comments[k] EXCEPT !.state = state, !.line = l]
    BY <1>2
  <2>2. comments[k] \in CommentSet
    BY <1>2
  <2>3. ASSUME NEW c \in CommentSet, NEW d, d = [c EXCEPT !.state = state, !.line = l]
        PROVE  d \in CommentSet /\ d.line = l /\ d.state = state /\ d.on = c.on
    <3>1. d = [on |-> c.on, text |-> c.text, line |-> l, state |-> state]
      BY <2>3 DEF CommentSet
    <3> QED
      BY <3>1, <1>3 DEF CommentSet
  <2>4. DOMAIN cs = DOMAIN comments /\ \A j \in DOMAIN cs : j # k => cs[j] = comments[j]
    BY <1>2
  <2> HIDE DEF cs
  <2> QED
    BY <2>1, <2>2, <2>3, <2>4, <1>2
<1>5. cs \in [1..Len(comments) -> CommentSet]
  BY <1>2, <1>4
<1> HIDE DEF cs
<1>6. cs \in Seq(CommentSet)
  BY <1>2, <1>5, FunctionIsSeq
<1>7. LinesMade(cs, made)
  <2>1. cs[k].line <= made
    BY <1>2, <1>3, <1>4 DEF LinesMade
  <2> QED
    BY <2>1, <1>2, <1>4 DEF LinesMade
<1>8. Follows(rows, cs)
  <2> SUFFICES ASSUME NEW j \in DOMAIN cs, cs[j].line # 0
               PROVE  IF Live(cs[j]) THEN cs[j].on \in DOMAIN rows /\ rows[cs[j].on].line = cs[j].line
                      ELSE \A z \in DOMAIN rows : rows[z].line # cs[j].line
    BY DEF Follows
  <2>1. CASE j # k
    BY <2>1, <1>2, <1>4 DEF Follows
  <2>2. CASE j = k
    BY <2>2, <1>2, <1>3, <1>4 DEF Follows, Live
  <2> QED
    BY <2>1, <2>2
<1>9. Placed(rows, cs, made)
  BY <1>2, <1>6, <1>7, <1>8 DEF Placed
<1> QED
  BY <1>1, <1>9, ManagerFollowed

LEMMA ClearFollowed ==
  ASSUME ReviewInv, ClearsAll PROVE ReviewInv'
<1>1. comments' = <<>> /\ review' = <<>> /\ UNCHANGED <<rows, made, earlier, file>>
  BY DEF ClearsAll
<1>2. Placed(rows, <<>>, made)
  BY DEF ReviewInv, Placed, LinesMade, Follows
<1> QED
  BY <1>1, <1>2, ManagerFollowed

LEMMA SaveFollowed ==
  ASSUME ReviewInv, SavesRows PROVE ReviewInv'
<1>1. /\ comments' = Verified(comments, rows) /\ file' = TextsOf(rows) /\ UNCHANGED <<rows, made, earlier>>
      /\ review' = comments' \/ review' = review
  BY DEF SavesRows, Verify
<1>2. Placed(rows, comments', made)
  BY <1>1, VerifiedFollows DEF ReviewInv
<1>3. TextsOf(rows) \in Seq(Seq(Nat))
  <2>1. rows \in [1..Len(rows) -> RowSet] /\ Len(rows) \in Nat
    BY DEF ReviewInv, Placed
  <2>2. TextsOf(rows) \in [1..Len(rows) -> Seq(Nat)]
    BY <2>1 DEF TextsOf, RowSet
  <2> QED
    BY <2>1, <2>2, FunctionIsSeq
<1> QED
  BY <1>1, <1>2, <1>3 DEF ReviewInv, Placed

LEMMA FileOpened ==
  ASSUME NEW ts \in Seq(Seq(Nat))
  PROVE  Opened(ts) \in Seq(RowSet) /\ LinesOwn(Opened(ts), Len(ts)) /\ Len(ts) \in Nat
<1>1. ts \in [1..Len(ts) -> Seq(Nat)] /\ Len(ts) \in Nat /\ DOMAIN ts = 1..Len(ts)
  OBVIOUS
<1>2. /\ Opened(ts) \in [1..Len(ts) -> RowSet] /\ DOMAIN Opened(ts) = 1..Len(ts)
      /\ \A y \in 1..Len(ts) : Opened(ts)[y].line = y
  BY <1>1 DEF Opened, RowSet
<1>3. LinesOwn(Opened(ts), Len(ts))
  BY <1>2 DEF LinesOwn
<1> QED
  BY <1>1, <1>2, <1>3, FunctionIsSeq

LEMMA OthersFollowed ==
  ASSUME ReviewInv, NEW y \in DOMAIN file, OthersWrite(y) PROVE ReviewInv'
<1>1. file \in Seq(Seq(Nat)) /\ y \in 1..Len(file) /\ Len(file) \in Nat
  BY DEF ReviewInv
<1>2. SubSeq(file, 1, y - 1) \in Seq(Seq(Nat)) /\ SubSeq(file, y + 1, Len(file)) \in Seq(Seq(Nat))
  BY <1>1, SubSeqProperties
<1>3. RowOut(file, y) \in Seq(Seq(Nat))
  BY <1>2, Concatenated DEF RowOut
<1> QED
  BY <1>3 DEF ReviewInv, OthersWrite

LEMMA LoadFollowed ==
  ASSUME ReviewInv, NEW cs \in Seq(CommentSet), LoadsRows(cs) PROVE ReviewInv'
<1>1. /\ rows' = Opened(file) /\ made' = Len(file) /\ earlier' = Opened(file) /\ file' = file
      /\ comments' = Verified(Untold(cs), Opened(file)) /\ (review' = comments' \/ review' = review)
  BY DEF LoadsRows, Verify
<1>2. file \in Seq(Seq(Nat))
  BY DEF ReviewInv
<1>3. Placed(Opened(file), Untold(cs), Len(file))
  BY <1>2, FileOpened, Guessed
<1>4. Placed(Opened(file), Verified(Untold(cs), Opened(file)), Len(file))
  BY <1>3, VerifiedFollows
<1>5. Placed(rows, comments, made)'
  BY <1>1, <1>4
<1>6. LinesOwn(earlier, made)' /\ earlier' \in Seq(RowSet)
  BY <1>1, <1>2, FileOpened
<1> QED
  BY <1>1, <1>5, <1>6 DEF ReviewInv, Placed

LEMMA ReviewInvInit == ReviewInit => ReviewInv
<1> SUFFICES ASSUME ReviewInit PROVE ReviewInv
  OBVIOUS
<1>1. Placed(rows, <<>>, made) /\ LinesOwn(rows, made) /\ rows \in Seq(RowSet)
  BY ReviewTextAssumption, FileOpened DEF ReviewInit, Placed, LinesMade, Follows
<1> QED
  BY <1>1, ReviewTextAssumption DEF ReviewInit, ReviewInv

LEMMA ReviewStepFollowed ==
  ASSUME ReviewInv, [ReviewNext]_reviewVars PROVE ReviewInv'
<1>1. CASE ManagerNext
  <2>1. ASSUME NEW k \in DOMAIN comments,
               (\E state \in {"new", "stale"} : Updates(k, state)) \/ Confirms(k) \/ Resolves(k)
        PROVE  ReviewInv'
    BY <2>1, StateFollowed DEF Updates, Confirms, Resolves
  <2>2. <<>> \in Seq(Nat) /\ NewText \in Seq(Nat)
    BY DEF NewText
  <2> QED
    BY <1>1, <2>1, <2>2, CreateFollowed, ClearFollowed DEF ManagerNext
<1>2. CASE EditNext
  BY <1>2, EditFollowed, SplitFollowed, JoinFollowed, DeleteFollowed, AgentFollowed, BlockFollowed,
     AddFollowed, UndoFollowed DEF EditNext
<1>3. CASE StoreNext
  <2>1. comments \in Seq(CommentSet) /\ review \in Seq(CommentSet)
    BY DEF ReviewInv, Placed
  <2> QED
    BY <1>3, <2>1, SaveFollowed, LoadFollowed, OthersFollowed DEF StoreNext, ReloadsRows, RestartsEditor
<1>4. CASE UNCHANGED reviewVars
  BY <1>4 DEF reviewVars, ReviewInv, Placed
<1> QED
  BY <1>1, <1>2, <1>3, <1>4 DEF ReviewNext

\* CommentFollows: whatever the file and however many comments, a live comment whose
\* place the manager was told of is on the line object it was made on, and one gone stale
\* that way is on a line that is gone (codereview_manager.cpp, on_line_inserted and
\* on_line_deleted).
THEOREM CommentsFollow == ReviewSpec => []CommentFollows
<1>1. ReviewInv => CommentFollows
  BY DEF ReviewInv, Placed, Follows, CommentFollows
<1> QED
  BY <1>1, ReviewInvInit, ReviewStepFollowed, PTL DEF ReviewSpec
=============================================================================
