------------------------------- MODULE FuseFile -------------------------------
(***************************************************************************)
(* One file as the FUSE layer (clawfuse/fuse.py) sees it: open handles     *)
(* with their own buffers, and behind them the content cache, the write    *)
(* buffer with its drain thread, Drive Kit and the size that getattr       *)
(* shows.  fusepy runs the operations on several threads and fuse.py takes *)
(* no lock, so operations interleave between the calls they make.          *)
(*                                                                         *)
(* The cache and the write buffer appear here with what a caller sees of   *)
(* them; ContentCache and WriteBuffer model their inside.  The n-th        *)
(* content handed to enqueue is n, and 0 is what the cloud held before.    *)
(***************************************************************************)
EXTENDS Integers, FiniteSets

CONSTANTS
  Handles, Threads,
  None,         \* no content, no handle
  Truncates,    \* truncate is called without a handle too
  MaxContents,  \* bound: contents enqueued
  MaxCrashes    \* bound: crashes

ASSUME FileAssumption ==
  /\ None \notin Handles \cup Nat /\ Truncates \in BOOLEAN
  /\ MaxContents \in Nat /\ MaxCrashes \in Nat

VARIABLES
  cloud,    \* content in Drive Kit
  cached,   \* content in the cache, or None
  queued,   \* content in the write buffer's queue, or None
  recov,    \* content in its recovery file, or None
  up,       \* content the drain thread is uploading, or None
  size,     \* the content whose size the directory tree shows
  mode,     \* handle -> "closed", "r" or "w" (it has a _content_map entry)
  dirty,    \* _dirty
  pc,       \* thread -> control point
  fh,       \* thread -> the handle of its operation, None for truncate(path)
  val,      \* thread -> the content it has downloaded or enqueued
  closing,  \* thread -> its flush is part of release
  seq,      \* history: contents enqueued so far
  flushed,  \* history: newest content whose flush or truncate has returned
  unsaved,  \* history: handles with a write that no flush has picked up
  raced,    \* history: handles written to while a flush of them was under way
  apart,    \* history: no two operations changed or fetched the file at a time
  backed,   \* history: no eviction, failed put, truncate without a handle or restart
            \* left the cache without the newest content before the cloud had it
  crashes

stores  == <<cloud, cached, queued, recov, up, size>>
handles == <<mode, dirty>>
tvars   == <<pc, fh, val, closing>>
ghosts  == <<seq, flushed, unsaved, raced, apart, backed>>
vars    == <<stores, handles, tvars, ghosts, crashes>>

Contents == 0..MaxContents
Points   == {"idle", "load", "fetch", "fill", "enqueue", "put", "meta", "cut", "trunc"}

TypeOK ==
  /\ cloud \in Contents /\ size \in Contents
  /\ {cached, queued, recov, up} \subseteq Contents \cup {None}
  /\ mode \in [Handles -> {"closed", "r", "w"}] /\ dirty \subseteq Handles
  /\ pc \in [Threads -> Points] /\ fh \in [Threads -> Handles \cup {None}]
  /\ val \in [Threads -> Contents \cup {None}] /\ closing \in [Threads -> BOOLEAN]
  /\ seq \in Contents /\ flushed \in Contents
  /\ unsaved \subseteq Handles /\ raced \subseteq Handles
  /\ {apart, backed} \subseteq BOOLEAN /\ crashes \in 0..MaxCrashes

Init ==
  /\ cloud = 0 /\ size = 0
  /\ cached = None /\ queued = None /\ recov = None /\ up = None
  /\ mode = [h \in Handles |-> "closed"] /\ dirty = {}
  /\ pc = [t \in Threads |-> "idle"] /\ fh = [t \in Threads |-> None]
  /\ val = [t \in Threads |-> None] /\ closing = [t \in Threads |-> FALSE]
  /\ seq = 0 /\ flushed = 0 /\ unsaved = {} /\ raced = {}
  /\ apart = TRUE /\ backed = TRUE /\ crashes = 0

-----------------------------------------------------------------------------
Goto(t, point) == pc' = [pc EXCEPT ![t] = point]

Return(t) ==
  /\ Goto(t, "idle")
  /\ fh' = [fh EXCEPT ![t] = None] /\ val' = [val EXCEPT ![t] = None]
  /\ closing' = [closing EXCEPT ![t] = FALSE]

Start(t, h, point) ==
  /\ pc[t] = "idle" /\ Goto(t, point)
  /\ fh' = [fh EXCEPT ![t] = h]

InUse(h) == \E t \in Threads : fh[t] = h

\* An operation begins that fetches the content or replaces it.
Joins(t) == apart' = (apart /\ up = None /\ \A v \in Threads \ {t} : pc[v] = "idle")

-----------------------------------------------------------------------------
(* open, read, write                                                       *)

\* open for reading touches nothing but _fh_map
OpenRead(t, h) ==
  /\ pc[t] = "idle" /\ mode[h] = "closed" /\ ~InUse(h)
  /\ mode' = [mode EXCEPT ![h] = "r"]
  /\ UNCHANGED <<stores, dirty, tvars, ghosts, crashes>>

\* open for writing fills the handle's buffer from the cache ...
OpenWrite(t, h) ==
  /\ mode[h] = "closed" /\ ~InUse(h)
  /\ \/ /\ pc[t] = "idle" /\ cached # None
        /\ mode' = [mode EXCEPT ![h] = "w"]
        /\ UNCHANGED <<tvars, apart>>
     \/ /\ cached = None
        /\ Start(t, h, "load") /\ Joins(t)
        /\ UNCHANGED <<mode, val, closing>>
  /\ UNCHANGED <<stores, dirty, seq, flushed, unsaved, raced, backed, crashes>>

\* ... or by a download, which may fail.
Load(t) ==
  /\ pc[t] = "load" /\ Return(t)
  /\ mode' \in {mode, [mode EXCEPT ![fh[t]] = "w"]}
  /\ UNCHANGED <<stores, dirty, ghosts, crashes>>

\* read through a handle without a buffer; a hit changes nothing
Read(t, h) ==
  /\ mode[h] = "r" /\ cached = None
  /\ Start(t, h, "fetch") /\ Joins(t)
  /\ UNCHANGED <<stores, handles, val, closing, seq, flushed, unsaved, raced, backed, crashes>>

\* self._client.download_file(file_id), which may fail
Fetch(t) ==
  /\ pc[t] = "fetch"
  /\ \/ Return(t)
     \/ /\ Goto(t, "fill")
        /\ val' = [val EXCEPT ![t] = cloud]
        /\ UNCHANGED <<fh, closing>>
  /\ UNCHANGED <<stores, handles, ghosts, crashes>>

\* self._cache.put(file_id, path, content, sha256), which may raise CacheError
Fill(t) ==
  /\ pc[t] = "fill" /\ Return(t)
  /\ cached' \in {None, val[t]}
  /\ UNCHANGED <<cloud, queued, recov, up, size, handles, ghosts, crashes>>

\* write, and truncate with a handle: the buffer changes and becomes dirty
Write(t, h) ==
  /\ pc[t] = "idle" /\ mode[h] = "w"
  /\ dirty'   = dirty \cup {h}
  /\ unsaved' = unsaved \cup {h}
  /\ raced'   = IF InUse(h) THEN raced \cup {h} ELSE raced
  /\ UNCHANGED <<stores, mode, tvars, seq, flushed, apart, backed, crashes>>

-----------------------------------------------------------------------------
(* flush and release                                                       *)

\* Mutant: release closes the handle without looking at _dirty.
NeverFlushes(h) == FALSE

NeedsFlush(h) == h \in dirty

\* content = bytes(self._content_map[fh])
Snapshot(t, h) ==
  /\ Start(t, h, "enqueue") /\ Joins(t)
  /\ unsaved' = unsaved \ {h}
  /\ UNCHANGED <<stores, handles, val, seq, flushed, raced, backed, crashes>>

Flush(t, h) ==
  /\ mode[h] = "w" /\ NeedsFlush(h) /\ Snapshot(t, h)
  /\ UNCHANGED closing

\* The kernel releases a handle when no operation uses it any more.
Release(t, h) ==
  /\ mode[h] # "closed" /\ ~InUse(h) /\ pc[t] = "idle"
  /\ \/ /\ NeedsFlush(h) /\ Snapshot(t, h)
        /\ closing' = [closing EXCEPT ![t] = TRUE]
     \/ /\ ~NeedsFlush(h)
        /\ mode' = [mode EXCEPT ![h] = "closed"]
        /\ dirty' = dirty \ {h}
        /\ UNCHANGED <<stores, tvars, ghosts, crashes>>

\* WriteBuffer.enqueue: queued, and on disk when it returns
Enqueued(t) ==
  /\ seq < MaxContents
  /\ seq' = seq + 1 /\ queued' = seq + 1 /\ recov' = seq + 1
  /\ val' = [val EXCEPT ![t] = seq + 1]

Enqueue(t) ==
  /\ pc[t] = "enqueue" /\ Goto(t, "put") /\ Enqueued(t)
  /\ UNCHANGED <<cloud, cached, up, size, handles, fh, closing, flushed, unsaved, raced,
                 apart, backed, crashes>>

\* Mutant: the cache is left as it is.
PutNothing(t) == cached' = cached

\* Cache.put replaces the entry; when it fails the old one is gone already
PutResult(t) == cached' \in {val[t], None}

\* try: self._cache.put(...) except Exception: the flush goes on
Put(t) ==
  /\ pc[t] = "put" /\ Goto(t, "meta") /\ PutResult(t)
  /\ backed' = (backed /\ (cached' # None \/ cloud = seq))
  /\ UNCHANGED <<cloud, queued, recov, up, size, handles, fh, val, closing, seq, flushed,
                 unsaved, raced, apart, crashes>>

\* Mutants: the size stays what it was; the arguments are swapped.
SizeBefore(t)   == size
SizeOfHandle(t) == fh[t]

SizeAfter(t) == val[t]

\* update_meta, self._dirty.discard(fh), and release then forgets the handle
Meta(t) ==
  LET h == fh[t] IN
  /\ pc[t] = "meta" /\ Return(t)
  /\ size'  = SizeAfter(t)
  /\ dirty' = dirty \ {h}
  /\ mode'  = IF closing[t] THEN [mode EXCEPT ![h] = "closed"] ELSE mode
  /\ flushed' = IF val[t] > flushed THEN val[t] ELSE flushed
  /\ UNCHANGED <<cloud, cached, queued, recov, up, seq, unsaved, raced, apart, backed, crashes>>

-----------------------------------------------------------------------------
(* truncate without a handle                                               *)

\* The content comes from the cache or, if need be, by a download.
Truncate(t) ==
  /\ Truncates
  /\ Start(t, None, IF cached = None THEN "cut" ELSE "trunc") /\ Joins(t)
  /\ UNCHANGED <<stores, handles, val, closing, seq, flushed, unsaved, raced, backed, crashes>>

Cut(t) ==
  /\ pc[t] = "cut"
  /\ Return(t) \/ (Goto(t, "trunc") /\ UNCHANGED <<fh, val, closing>>)
  /\ UNCHANGED <<stores, handles, ghosts, crashes>>

\* enqueue and update_meta; the cache keeps what it has
TruncateEnqueue(t) ==
  /\ pc[t] = "trunc" /\ Goto(t, "meta") /\ Enqueued(t)
  /\ backed' = FALSE
  /\ UNCHANGED <<cloud, cached, up, size, handles, fh, closing, flushed, unsaved, raced,
                 apart, crashes>>

-----------------------------------------------------------------------------
(* The drain thread, evictions, and the end of the process.                *)

UploadStart ==
  /\ queued # None /\ up = None /\ up' = queued
  /\ apart' = (apart /\ \A t \in Threads : pc[t] = "idle")
  /\ UNCHANGED <<cloud, cached, queued, recov, size, handles, tvars, seq, flushed, unsaved,
                 raced, backed, crashes>>

\* Whatever is queued and on disk for the file is cleaned up.
UploadDone ==
  /\ up # None /\ up' = None
  /\ cloud' = up /\ queued' = None /\ recov' = None
  /\ UNCHANGED <<cached, size, handles, tvars, ghosts, crashes>>

\* Mutant: the recovery file goes with the write that is given up.
RemovedWith(inQueue) == IF inQueue = None THEN None ELSE recov

KeptWithout(inQueue) == recov

\* A failed upload stays queued for a retry or, given up, only on disk; when
\* only the answer was lost the cloud has the content.
UploadFailed ==
  /\ up # None /\ up' = None
  /\ cloud' \in {cloud, up}
  /\ queued' \in {queued, None}
  /\ recov' = KeptWithout(queued')
  /\ UNCHANGED <<cached, size, handles, tvars, ghosts, crashes>>

\* A put of another file evicts this one.
Evict ==
  /\ cached # None /\ cached' = None
  /\ backed' = (backed /\ cloud = seq)
  /\ UNCHANGED <<cloud, queued, recov, up, size, handles, tvars, seq, flushed, unsaved, raced,
                 apart, crashes>>

\* Any exit of the process, which destroy() does not flush for, and the next
\* start: handles and buffers are gone, the queue is restored from disk, the
\* cache from its own files and the sizes from the listing of the cloud.
Restart ==
  /\ crashes < MaxCrashes /\ crashes' = crashes + 1
  /\ queued' = recov /\ up' = None /\ size' = cloud
  /\ mode' = [h \in Handles |-> "closed"] /\ dirty' = {}
  /\ pc' = [t \in Threads |-> "idle"] /\ fh' = [t \in Threads |-> None]
  /\ val' = [t \in Threads |-> None] /\ closing' = [t \in Threads |-> FALSE]
  /\ unsaved' = {} /\ raced' = {}
  /\ backed' = (backed /\ (cached = seq \/ (cached = None /\ cloud = seq)))
  /\ UNCHANGED <<cloud, cached, recov, seq, flushed, apart>>

-----------------------------------------------------------------------------
Operation(t) ==
  \/ \E h \in Handles :
       OpenRead(t, h) \/ OpenWrite(t, h) \/ Read(t, h) \/ Write(t, h)
         \/ Flush(t, h) \/ Release(t, h)
  \/ Truncate(t)

Step(t) ==
  \/ Load(t) \/ Fetch(t) \/ Fill(t) \/ Enqueue(t) \/ Put(t) \/ Meta(t)
  \/ Cut(t) \/ TruncateEnqueue(t)

Next ==
  \/ \E t \in Threads : Operation(t) \/ Step(t)
  \/ UploadStart \/ UploadDone \/ UploadFailed \/ Evict \/ Restart

Spec == Init /\ [][Next]_vars

-----------------------------------------------------------------------------
(* Properties.                                                             *)

Quiet == \A t \in Threads : pc[t] = "idle"

\* What a read, or an open for writing, gets.
Visible == IF cached # None THEN cached ELSE cloud

\* A flushed content is what later reads see, before its upload and after, as
\* long as the operations that fetch or replace the content do not overlap and
\* the cache is not emptied, or bypassed, before the cloud has the content.
FlushVisible == apart /\ backed => Visible >= flushed

\* The same without the second condition, where nobody truncates without a
\* handle: every content enqueued is then one that flush has put in the cache,
\* or has failed to.
FlushAlwaysVisible == apart => Visible >= flushed

\* A flushed content is in the cloud or in a recovery file, through failing
\* uploads and restarts.
FlushDurable == apart => flushed <= cloud \/ (recov # None /\ flushed <= recov)

\* No write is lost with its handle: release leaves only those behind that were
\* made while a flush of the handle was under way.
ReleaseSavesWrites ==
  [][\A h \in Handles :
       mode[h] = "w" /\ mode'[h] = "closed" /\ crashes' = crashes
         => h \notin unsaved \ raced]_vars

\* Between operations getattr shows the size of what was written last, until
\* the process restarts.
SizeShown == Quiet /\ apart /\ crashes = 0 => size = seq
=============================================================================
