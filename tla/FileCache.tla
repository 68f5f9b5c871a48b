------------------------------ MODULE FileCache ------------------------------
(* The cache of mapped files and its readahead thread (mapped_file.cpp): consumers
   check an entry against a stat of the file, a writer's notify_changed drops the entry
   and asks for a prefetch, and the readahead thread fills the cache from a queue. *)
EXTENDS Naturals, Sequences, FiniteSets, SequencesExt, FiniteSetsExt

CONSTANTS Paths,
          Readers,    \* threads that call get_cached
          FileSize,   \* size of each file
          MaxBytes,   \* k_max_cache_total_bytes
          MaxEntries, \* k_max_cache_entries
          Window,     \* k_max_prefetch_window
          MaxWrites,  \* bound: writes of the files
          MaxReads    \* bound: calls of get_cached

ASSUME WindowAssumption == Window \in Nat \ {0}

NoPath == "none"

ASSUME PathsAssumption == NoPath \notin Paths

VARIABLES
  stored,   \* the version of each file; 0 while it does not exist
  writes,   \* versions made so far
  reads,    \* calls so far
  cache,    \* entries_, least recently used first
  ahead,    \* prefetch_queue_
  queued,   \* prefetch_queued_set_
  inFlight, \* in_flight_paths_
  reader,   \* each reader: where it is, its path, the version its stat saw, that of
            \* the file it opened; before: the version when the call began; got
  fetcher,  \* the readahead thread, alike
  closing   \* is_shutting_down_

cacheVars == <<stored, writes, reads, cache, ahead, queued, inFlight, reader, fetcher, closing>>

Entry(p, meta, text, pre, used) == [path |-> p, meta |-> meta, text |-> text, pre |-> pre, used |-> used]
Cached(p)  == \E i \in DOMAIN cache : cache[i].path = p
Without(s, p) ==
    LET at == {i \in DOMAIN s : s[i].path = p}
    IN  IF at = {} THEN s ELSE RemoveAt(s, CHOOSE i \in at : TRUE)
BytesOf(s) == FoldLeft(LAMBDA n, e : n + FileSize[e.path], 0, s)

\* Mutant: an entry is good for its path, whatever the file's mtime is.
MatchesPath(e, p, seen) == e.path = p

\* The device, inode, size and times of the stat stand for the version that was seen: a
\* write that leaves all of them as they were is not modelled.
Matches(e, p, seen) == e.path = p /\ e.meta = seen

\* The entry evicted next: the oldest one a consumer has had, else the oldest.
Victim(s) ==
    LET had == {i \in DOMAIN s : s[i].used \/ ~s[i].pre}
    IN IF had # {} THEN Min(had) ELSE 1

\* As long as one more entry of so many bytes is too many; at most all go.
Evict(s, bytes) ==
    LET Fits(t) == Len(t) < MaxEntries /\ BytesOf(t) + bytes <= MaxBytes
        left[k \in 0..Len(s)] ==
          IF k = 0 THEN s
          ELSE LET t == left[k - 1]
               IN  IF t = <<>> \/ Fits(t) THEN t ELSE RemoveAt(t, Victim(t))
    IN  left[Len(s)]

\* insert_entry_locked
Inserted(e) ==
    IF e.pre /\ \E i \in DOMAIN cache : cache[i].path = e.path /\ cache[i].used THEN cache
    ELSE Append(Evict(Without(cache, e.path), FileSize[e.path]), e)

\* A hit: the entry is the most recent one, and was had.
Touched(p) ==
    LET e == CHOOSE x \in Range(cache) : x.path = p
    IN Append(Without(cache, p), [e EXCEPT !.used = TRUE])

\* Mutant: the path dropped from the full queue stays in the set.
PushFrontKeep(p) ==
    LET full == Len(ahead) >= Window /\ ahead # <<>>
    IN /\ ahead' = <<p>> \o (IF full THEN Front(ahead) ELSE ahead)
       /\ queued' = queued \union {p}

PushFront(p) ==
    LET full == Len(ahead) >= Window /\ ahead # <<>>
    IN /\ ahead' = <<p>> \o (IF full THEN Front(ahead) ELSE ahead)
       /\ queued' = (IF full THEN queued \ {Last(ahead)} ELSE queued) \union {p}

-----------------------------------------------------------------------------
(* Writers of files *)

\* A file is written (not always followed by a notification: other programs).
FileWritten(p) ==
    /\ writes < MaxWrites /\ writes' = writes + 1
    /\ stored' = [stored EXCEPT ![p] = writes + 1]
    /\ UNCHANGED <<reads, cache, ahead, queued, inFlight, reader, fetcher, closing>>

FileDeleted(p) ==
    /\ stored[p] # 0 /\ writes < MaxWrites /\ writes' = writes + 1
    /\ stored' = [stored EXCEPT ![p] = 0]
    /\ UNCHANGED <<reads, cache, ahead, queued, inFlight, reader, fetcher, closing>>

\* notify_changed of a cached path; of another it changes nothing.
NotifyChanged(p) ==
    /\ Cached(p)
    /\ cache' = Without(cache, p)
    /\ IF closing \/ p \in queued \/ p \in inFlight THEN UNCHANGED <<ahead, queued>>
       ELSE PushFront(p)
    /\ UNCHANGED <<stored, writes, reads, inFlight, reader, fetcher, closing>>

Prefetch(p) ==
    /\ ~closing /\ ~Cached(p) /\ p \notin queued \union inFlight /\ Len(ahead) < Window
    /\ ahead' = Append(ahead, p) /\ queued' = queued \union {p}
    /\ UNCHANGED <<stored, writes, reads, cache, inFlight, reader, fetcher, closing>>

-----------------------------------------------------------------------------
(* get_cached *)

NotReading == [at |-> "out", path |-> NoPath, before |-> 0, seen |-> 0, got |-> 0]

ReaderAsks(r, p) ==
    /\ reader[r].at = "out" /\ reads < MaxReads /\ reads' = reads + 1
    /\ reader' = [reader EXCEPT ![r] = [at |-> IF stored[p] = 0 THEN "absent" ELSE "lookup", path |-> p,
                                        before |-> stored[p], seen |-> stored[p], got |-> 0]]
    /\ UNCHANGED <<stored, writes, cache, ahead, queued, inFlight, fetcher, closing>>

\* stat failed: what is cached of it is dropped.
ReaderFindsNone(r) ==
    /\ reader[r].at = "absent"
    /\ cache' = Without(cache, reader[r].path)
    /\ reader' = [reader EXCEPT ![r] = NotReading]
    /\ UNCHANGED <<stored, writes, reads, ahead, queued, inFlight, fetcher, closing>>

Hit(r) == \E i \in DOMAIN cache : Matches(cache[i], reader[r].path, reader[r].seen)

ReaderTakes(r) ==
    /\ reader[r].at \in {"lookup", "miss"} /\ Hit(r)
    /\ cache' = Touched(reader[r].path)
    /\ reader' = [reader EXCEPT ![r].at = "done", ![r].got = Last(Touched(reader[r].path)).text]
    /\ UNCHANGED <<stored, writes, reads, ahead, queued, inFlight, fetcher, closing>>

\* No hit under the shared lock.
ReaderMisses(r) ==
    /\ reader[r].at = "lookup" /\ ~Hit(r)
    /\ reader' = [reader EXCEPT ![r].at = "miss"]
    /\ UNCHANGED <<stored, writes, reads, cache, ahead, queued, inFlight, fetcher, closing>>

\* Nor under the unique lock: a stale entry goes, and so does a pending prefetch,
\* from the set only.
ReaderClaims(r) ==
    /\ reader[r].at = "miss" /\ ~Hit(r)
    /\ cache' = Without(cache, reader[r].path)
    /\ queued' = queued \ {reader[r].path}
    /\ inFlight' = inFlight \union {reader[r].path}
    /\ reader' = [reader EXCEPT ![r].at = "open"]
    /\ UNCHANGED <<stored, writes, reads, ahead, fetcher, closing>>

\* open and fstat
ReaderOpens(r) ==
    /\ reader[r].at = "open"
    /\ IF stored[reader[r].path] = 0
       THEN /\ reader' = [reader EXCEPT ![r] = NotReading]
            /\ inFlight' = inFlight \ {reader[r].path}
       ELSE /\ reader' = [reader EXCEPT ![r].at = "read", ![r].seen = stored[reader[r].path]]
            /\ UNCHANGED inFlight
    /\ UNCHANGED <<stored, writes, reads, cache, ahead, queued, fetcher, closing>>

\* What a read of an opened file finds: what it was opened at, or what was written since.
Contents(p, seen) == IF stored[p] > seen THEN stored[p] ELSE seen

ReaderKeeps(r) ==
    /\ reader[r].at = "read"
    /\ LET p == reader[r].path  text == Contents(p, reader[r].seen) IN
       /\ cache' = Inserted(Entry(p, reader[r].seen, text, FALSE, TRUE))
       /\ inFlight' = inFlight \ {p}
       /\ reader' = [reader EXCEPT ![r].at = "done", ![r].got = text]
    /\ UNCHANGED <<stored, writes, reads, ahead, queued, fetcher, closing>>

ReaderDone(r) ==
    /\ reader[r].at = "done" /\ reader' = [reader EXCEPT ![r] = NotReading]
    /\ UNCHANGED <<stored, writes, reads, cache, ahead, queued, inFlight, fetcher, closing>>

-----------------------------------------------------------------------------
(* The readahead thread *)

\* What one turn of its loop takes off the queue: paths that were cancelled, are being
\* opened or are cached go from the front; then the middle one is tried.
Dud(p, marked) == p \notin marked \/ p \in inFlight \/ Cached(p)

Tried(t) ==
    LET k == IF Dud(Head(t.q), t.s) THEN 1 ELSE Len(t.q) \div 2 + 1
    IN  [path |-> IF Dud(t.q[k], t.s) THEN NoPath ELSE t.q[k],
         q |-> RemoveAt(t.q, k), s |-> t.s \ {t.q[k]}]

Picked ==
    LET pick[k \in 0..Len(ahead)] ==
          IF k = 0 THEN [path |-> NoPath, q |-> ahead, s |-> queued]
          ELSE LET t == pick[k - 1] IN IF t.path # NoPath \/ t.q = <<>> THEN t ELSE Tried(t)
    IN  pick[Len(ahead)]

FetcherIdle == [at |-> "wait", path |-> NoPath, seen |-> 0]

Picks ==
    /\ fetcher.at = "wait" /\ ~closing /\ ahead # <<>>
    /\ LET p == Picked IN
       /\ ahead' = p.q /\ queued' = p.s
       /\ fetcher' = IF p.path = NoPath THEN FetcherIdle ELSE [at |-> "stat", path |-> p.path, seen |-> 0]
    /\ UNCHANGED <<stored, writes, reads, cache, inFlight, reader, closing>>

FetcherStats ==
    /\ fetcher.at = "stat"
    /\ fetcher' = IF stored[fetcher.path] = 0 THEN FetcherIdle
                  ELSE [fetcher EXCEPT !.at = "look", !.seen = stored[fetcher.path]]
    /\ UNCHANGED <<stored, writes, reads, cache, ahead, queued, inFlight, reader, closing>>

\* Under the lock: what was put there since it was picked is left alone when it matches.
FetcherLooks ==
    /\ fetcher.at = "look" /\ ~closing
    /\ fetcher' = IF \E i \in DOMAIN cache : Matches(cache[i], fetcher.path, fetcher.seen)
                  THEN FetcherIdle ELSE [fetcher EXCEPT !.at = "open"]
    /\ UNCHANGED <<stored, writes, reads, cache, ahead, queued, inFlight, reader, closing>>

\* open and fstat
FetcherOpens ==
    /\ fetcher.at = "open"
    /\ fetcher' = IF stored[fetcher.path] = 0 THEN FetcherIdle
                  ELSE [fetcher EXCEPT !.at = "read", !.seen = stored[fetcher.path]]
    /\ UNCHANGED <<stored, writes, reads, cache, ahead, queued, inFlight, reader, closing>>

FetcherKeeps ==
    /\ fetcher.at = "read" /\ ~closing
    /\ cache' = Inserted(Entry(fetcher.path, fetcher.seen, Contents(fetcher.path, fetcher.seen), TRUE, FALSE))
    /\ fetcher' = FetcherIdle
    /\ UNCHANGED <<stored, writes, reads, ahead, queued, inFlight, reader, closing>>

FetcherExits ==
    /\ closing /\ fetcher.at \in {"wait", "look", "read"}
    /\ fetcher' = [FetcherIdle EXCEPT !.at = "off"]
    /\ UNCHANGED <<stored, writes, reads, cache, ahead, queued, inFlight, reader, closing>>

Shutdown ==
    /\ ~closing /\ closing' = TRUE
    /\ ahead' = <<>> /\ queued' = {}
    /\ UNCHANGED <<stored, writes, reads, cache, inFlight, reader, fetcher>>

-----------------------------------------------------------------------------
CacheInit ==
    /\ stored = [p \in Paths |-> 1] /\ writes = 1 /\ reads = 0
    /\ cache = <<>> /\ ahead = <<>> /\ queued = {} /\ inFlight = {}
    /\ reader = [r \in Readers |-> NotReading] /\ fetcher = FetcherIdle /\ closing = FALSE

CacheNext ==
    \/ \E p \in Paths : FileWritten(p) \/ FileDeleted(p) \/ NotifyChanged(p) \/ Prefetch(p)
    \/ \E r \in Readers : \/ ReaderFindsNone(r) \/ ReaderTakes(r) \/ ReaderMisses(r) \/ ReaderClaims(r)
                          \/ ReaderOpens(r) \/ ReaderKeeps(r) \/ ReaderDone(r)
                          \/ \E p \in Paths : ReaderAsks(r, p)
    \/ Picks \/ FetcherStats \/ FetcherLooks \/ FetcherOpens \/ FetcherKeeps \/ FetcherExits \/ Shutdown

CacheSpec == CacheInit /\ [][CacheNext]_cacheVars

-----------------------------------------------------------------------------
\* FreshFiles: what get_cached returns is at least as new as the file was when it was
\* called, through hits, misses, prefetches and notifications that race it.
FreshFiles == \A r \in Readers : reader[r].at = "done" => reader[r].got >= reader[r].before

\* PrefetchNotLost: a path that is marked as queued is in the queue (a marked path is
\* refused by every later prefetch, so one that were not would never be read ahead),
\* and the queue does not grow past its window.
PrefetchNotLost == queued \subseteq Range(ahead) /\ Len(ahead) <= Window
=============================================================================
