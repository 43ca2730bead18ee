----------------------------- MODULE WriteBuffer -----------------------------
(***************************************************************************)
(* The write-back buffer of ClawFUSE (clawfuse/writebuf.py).               *)
(*                                                                         *)
(* FUSE threads call enqueue: a PendingWrite replaces the queue entry of   *)
(* its file, then a .buf and a .wmeta file are written so that the write   *)
(* survives a crash, and only then does enqueue return (the write is       *)
(* acknowledged).  A daemon thread drains the queue to Drive Kit every few *)
(* seconds; flush_all stops that thread and drains synchronously.  A crash *)
(* (or a plain exit: the drain thread is a daemon) loses the memory, and   *)
(* the next constructor restores the queue from disk.                      *)
(*                                                                         *)
(* Contents are abstracted to versions: the n-th enqueue of a file carries *)
(* version n, 0 is what the cloud held before, and Blank is the b"" that   *)
(* _mark_failed leaves behind when it releases the memory of a write.      *)
(* PendingWrite objects are shared and mutated through references held by  *)
(* the queue and by the uploader's list, so they live in a heap indexed by *)
(* file and version (status, tries, body).                                 *)
(***************************************************************************)
EXTENDS Integers, FiniteSets

CONSTANTS
  Files,            \* the file ids writes are enqueued for
  Threads,          \* the FUSE worker threads that call enqueue
  None,             \* no entry, no file
  Blank,            \* the content b""
  MaxRetries,       \* max_retries
  RestoreBudget,    \* how many .buf files fit in _MAX_RESTORE_BYTES
  DrainOn,          \* start_drain has been called
  DiskMayFail,      \* writing a .buf or .wmeta file may raise OSError
  PermanentErrors,  \* an upload may be refused with one of _NO_RETRY_SUBSTRS
  MaxWrites,        \* bound: enqueues per file
  MaxEnqueues,      \* bound: enqueues of all files
  MaxCrashes,       \* bound: crashes
  MaxFaults,        \* bound: failing upload calls, or the last one that is counted
  Outage,           \* uploads may go on failing after MaxFaults
  MaxFlushes        \* bound: calls of flush_all

ASSUME SentinelAssumption ==
  /\ None \notin Files \cup Int \cup {Blank}
  /\ Blank \notin Int

ASSUME BoundAssumption ==
  /\ MaxRetries \in Nat /\ RestoreBudget \in Nat
  /\ MaxWrites \in Nat /\ MaxEnqueues \in Nat /\ MaxCrashes \in Nat
  /\ MaxFaults \in Nat /\ MaxFlushes \in Nat
  /\ {DrainOn, DiskMayFail, PermanentErrors, Outage} \subseteq BOOLEAN

VARIABLES
  queue,    \* file -> version of the queued PendingWrite, or None
  status,   \* heap: PendingWrite.status
  tries,    \* heap: PendingWrite.retry_count
  body,     \* heap: PendingWrite.content
  stopped,  \* _stop_event.is_set()
  upc,      \* uploader -> control point (drain thread, flush_all caller)
  batch,    \* uploader -> file -> version still in its list `pending`
  cur,      \* uploader -> the file of the write it is uploading
  sent,     \* uploader -> the content passed to the client call
  tpc,      \* thread -> control point inside enqueue
  jobFile,  \* thread -> the file it enqueues
  jobVer,   \* thread -> the version it enqueues
  buf,      \* disk: file -> content of its .buf file, or None
  tmp,      \* disk: file -> content of its .buf.tmp file, or None
  wmeta,    \* disk: file -> "none", "torn" (truncated) or "ok"
  cloud,    \* Drive Kit: file -> content
  report,   \* what the last flush_all returned
  issued,   \* history: versions enqueued so far
  acked,    \* history: newest version whose enqueue has returned
  spaced,   \* history: every enqueue of the file found it quiescent
  serial,   \* history: no two threads were inside enqueue of the file at once
  kept,     \* history: no recovery file of the file failed to be written
  dropped,  \* history: a write of the file was given up and stayed in the queue
  skipped,  \* history: the last restore has left the file on disk
  crashes, faults, flushes

heap   == <<status, tries, body>>
uvars  == <<upc, batch, cur, sent>>
tvars  == <<tpc, jobFile, jobVer>>
disk   == <<buf, tmp, wmeta>>
promise == <<issued, acked, spaced, serial, kept>>
ghosts == <<promise, dropped, skipped>>
bounds == <<crashes, faults, flushes>>
vars   == <<queue, heap, stopped, uvars, tvars, disk, cloud, report, ghosts, bounds>>

Versions  == 1..MaxWrites
Uploaders == {"drain", "flush"}
Statuses  == {"pending", "uploading", "failed"}
NoBatch   == [f \in Files |-> None]

UploadPoints == {"snap", "loop", "http", "caught", "check", "pop", "unbuf", "unmeta"}
DrainPoints  == {"idle", "done"} \cup UploadPoints
FlushPoints  == {"off", "join", "done"} \cup UploadPoints
EnqueuePoints == {"idle", "tmp", "rename", "meta", "metaw", "orphan"}

TypeOK ==
  /\ queue  \in [Files -> Versions \cup {None}]
  /\ status \in [Files -> [Versions -> Statuses]]
  /\ tries  \in [Files -> [Versions -> Nat]]
  /\ body   \in [Files -> [Versions -> Versions \cup {Blank}]]
  /\ stopped \in BOOLEAN
  /\ upc    \in [Uploaders -> DrainPoints \cup FlushPoints]
  /\ batch  \in [Uploaders -> [Files -> Versions \cup {None}]]
  /\ cur    \in [Uploaders -> Files \cup {None}]
  /\ sent   \in [Uploaders -> Versions \cup {Blank, None}]
  /\ tpc     \in [Threads -> EnqueuePoints]
  /\ jobFile \in [Threads -> Files \cup {None}]
  /\ jobVer  \in [Threads -> Versions \cup {None}]
  /\ buf   \in [Files -> Versions \cup {None}]
  /\ tmp   \in [Files -> Versions \cup {None}]
  /\ wmeta \in [Files -> {"none", "torn", "ok"}]
  /\ cloud \in [Files -> Versions \cup {0, Blank}]
  /\ report \in {"none", "ok", "errors"}
  /\ issued \in [Files -> 0..MaxWrites]
  /\ acked  \in [Files -> 0..MaxWrites]
  /\ spaced \in [Files -> BOOLEAN]
  /\ serial \in [Files -> BOOLEAN]
  /\ kept   \in [Files -> BOOLEAN]
  /\ dropped \in [Files -> BOOLEAN]
  /\ skipped \in [Files -> BOOLEAN]
  /\ crashes \in 0..MaxCrashes
  /\ faults  \in 0..MaxFaults
  /\ flushes \in 0..MaxFlushes

Init ==
  /\ queue  = [f \in Files |-> None]
  /\ status = [f \in Files |-> [n \in Versions |-> "pending"]]
  /\ tries  = [f \in Files |-> [n \in Versions |-> 0]]
  /\ body   = [f \in Files |-> [n \in Versions |-> n]]
  /\ stopped = FALSE
  /\ upc   = [u \in Uploaders |-> IF u = "flush" THEN "off"
                                  ELSE IF DrainOn THEN "idle" ELSE "done"]
  /\ batch = [u \in Uploaders |-> NoBatch]
  /\ cur   = [u \in Uploaders |-> None]
  /\ sent  = [u \in Uploaders |-> None]
  /\ tpc     = [t \in Threads |-> "idle"]
  /\ jobFile = [t \in Threads |-> None]
  /\ jobVer  = [t \in Threads |-> None]
  /\ buf   = [f \in Files |-> None]
  /\ tmp   = [f \in Files |-> None]
  /\ wmeta = [f \in Files |-> "none"]
  /\ cloud = [f \in Files |-> 0]
  /\ report = "none"
  /\ issued = [f \in Files |-> 0]
  /\ acked  = [f \in Files |-> 0]
  /\ spaced = [f \in Files |-> TRUE]
  /\ serial = [f \in Files |-> TRUE]
  /\ kept   = [f \in Files |-> TRUE]
  /\ dropped = [f \in Files |-> FALSE]
  /\ skipped = [f \in Files |-> FALSE]
  /\ crashes = 0 /\ faults = 0 /\ flushes = 0

-----------------------------------------------------------------------------
(* enqueue: one thread, five steps that others may interleave with.        *)

\* No thread is inside enqueue of f.
Unwritten(f) == \A t \in Threads : jobFile[t] # f

\* Nothing in memory or on disk still refers to an earlier write of f.
Quiescent(f) ==
  /\ queue[f] = None /\ buf[f] = None /\ wmeta[f] = "none"
  /\ \A u \in Uploaders : batch[u][f] = None
  /\ Unwritten(f)

Enqueues == {w \in Files \X Versions : w[2] <= issued[w[1]]}

\* with self._lock: self._queue[file_id] = pending
EnqueueInsert(t, f) ==
  /\ tpc[t] = "idle" /\ issued[f] < MaxWrites /\ Cardinality(Enqueues) < MaxEnqueues
  /\ issued' = [issued EXCEPT ![f] = @ + 1]
  /\ queue'  = [queue EXCEPT ![f] = issued[f] + 1]
  /\ tpc'     = [tpc EXCEPT ![t] = "tmp"]
  /\ jobFile' = [jobFile EXCEPT ![t] = f]
  /\ jobVer'  = [jobVer EXCEPT ![t] = issued[f] + 1]
  /\ spaced' = [spaced EXCEPT ![f] = @ /\ Quiescent(f)]
  /\ serial' = [serial EXCEPT ![f] = @ /\ Unwritten(f)]
  /\ UNCHANGED <<heap, stopped, uvars, disk, cloud, report, acked, kept, dropped, skipped,
                 bounds>>

\* tmp_path.write_bytes(content); an OSError is logged and enqueue goes on
WriteTmp(t) ==
  /\ tpc[t] = "tmp"
  /\ \/ /\ tmp' = [tmp EXCEPT ![jobFile[t]] = jobVer[t]]
        /\ tpc' = [tpc EXCEPT ![t] = "rename"]
        /\ UNCHANGED kept
     \/ /\ DiskMayFail
        /\ tpc' = [tpc EXCEPT ![t] = "meta"]
        /\ kept' = [kept EXCEPT ![jobFile[t]] = FALSE]
        /\ UNCHANGED tmp
  /\ UNCHANGED <<queue, heap, stopped, uvars, jobFile, jobVer, buf, wmeta, cloud,
                 report, issued, acked, spaced, serial, dropped,
                 skipped, bounds>>

\* Mutant: rename does not replace an existing .buf file.
RenamedOnto(f) == IF buf[f] # None THEN buf[f] ELSE tmp[f]

Renamed(f) == tmp[f]

\* tmp_path.rename(buf_path); when another thread has already renamed the
\* shared .buf.tmp the rename raises FileNotFoundError, which is logged
RenameTmp(t) ==
  LET f == jobFile[t] IN
  /\ tpc[t] = "rename"
  /\ IF tmp[f] = None
     THEN UNCHANGED <<buf, tmp>>
     ELSE /\ buf' = [buf EXCEPT ![f] = Renamed(f)]
          /\ tmp' = [tmp EXCEPT ![f] = None]
  /\ tpc' = [tpc EXCEPT ![t] = "meta"]
  /\ UNCHANGED <<queue, heap, stopped, uvars, jobFile, jobVer, wmeta, cloud,
                 report, ghosts, bounds>>

\* meta_path.write_text opens the file in place, truncating it ...
OpenMeta(t) ==
  /\ tpc[t] = "meta"
  /\ \/ /\ wmeta' = [wmeta EXCEPT ![jobFile[t]] = "torn"]
        /\ tpc' = [tpc EXCEPT ![t] = "metaw"]
        /\ UNCHANGED kept
     \/ /\ DiskMayFail
        /\ tpc' = [tpc EXCEPT ![t] = "orphan"]
        /\ kept' = [kept EXCEPT ![jobFile[t]] = FALSE]
        /\ UNCHANGED wmeta
  /\ UNCHANGED <<queue, heap, stopped, uvars, jobFile, jobVer, buf, tmp, cloud,
                 report, issued, acked, spaced, serial, dropped,
                 skipped, bounds>>

\* ... and then writes the JSON, which reaches nobody when the file has been
\* unlinked meanwhile or could not be opened ("orphan"); enqueue returns and
\* the write is acknowledged
WriteMeta(t) ==
  LET f == jobFile[t]
      n == jobVer[t] IN
  /\ tpc[t] \in {"metaw", "orphan"}
  /\ wmeta' = [wmeta EXCEPT ![f] = IF tpc[t] = "metaw" THEN "ok" ELSE @]
  /\ acked' = [acked EXCEPT ![f] = IF n > @ THEN n ELSE @]
  /\ tpc'     = [tpc EXCEPT ![t] = "idle"]
  /\ jobFile' = [jobFile EXCEPT ![t] = None]
  /\ jobVer'  = [jobVer EXCEPT ![t] = None]
  /\ UNCHANGED <<queue, heap, stopped, uvars, buf, tmp, cloud, report, issued,
                 spaced, serial, kept, dropped, skipped,
                 bounds>>

Enqueue(t) ==
  \/ \E f \in Files : EnqueueInsert(t, f)
  \/ WriteTmp(t) \/ RenameTmp(t) \/ OpenMeta(t) \/ WriteMeta(t)

-----------------------------------------------------------------------------
(* _upload_one and what its two callers do with the result.                *)

\* Mutant: the status is ignored.
QueuedAny(statuses) == queue

\* The queued writes that have one of the statuses, by file.
QueuedWith(statuses) ==
  [f \in Files |-> IF queue[f] # None /\ status[f][queue[f]] \in statuses
                   THEN queue[f] ELSE None]

Goto(u, point) == upc' = [upc EXCEPT ![u] = point]

\* On to the next write of the list.
NextWrite(u) ==
  /\ Goto(u, "loop")
  /\ batch' = [batch EXCEPT ![u][cur[u]] = None]
  /\ cur'   = [cur EXCEPT ![u] = None]

\* if self._stop_event.is_set(): break, in the loop of the drain thread only
MayTake(u) == u = "drain" => ~stopped

\* for write in pending: self._upload_one(write), up to reading write.content,
\* which nobody changes after the status: no other list has the write then
TakeWrite(u) ==
  \E f \in Files :
    LET n == batch[u][f] IN
    /\ upc[u] = "loop" /\ n # None /\ MayTake(u)
    /\ status' = [status EXCEPT ![f][n] = "uploading"]
    /\ sent'   = [sent EXCEPT ![u] = body[f][n]]
    /\ cur'    = [cur EXCEPT ![u] = f]
    /\ Goto(u, "http")
    /\ UNCHANGED <<queue, tries, body, stopped, batch, tvars, disk, cloud, report,
                   ghosts, bounds>>

UploadOk(u) ==
  /\ upc[u] = "http"
  /\ cloud' = [cloud EXCEPT ![cur[u]] = sent[u]]
  /\ sent'  = [sent EXCEPT ![u] = None]
  /\ Goto(u, "pop")
  /\ UNCHANGED <<queue, heap, stopped, batch, cur, tvars, disk, report, ghosts, bounds>>

\* Mutant: the result of _upload_one is not looked at.
CleanUpAnyway(u) == Goto(u, "pop") /\ UNCHANGED <<batch, cur>>

\* Where a failed upload returns False to: the drain thread goes to its next
\* write, flush_all looks at the retry count first.
AfterFailure(u) ==
  IF u = "drain" THEN NextWrite(u) ELSE Goto(u, "check") /\ UNCHANGED <<batch, cur>>

\* _mark_failed; flush_all takes a write out of the queue after its last try only.
MarkFailed(u, f, n, tried) ==
  /\ status' = [status EXCEPT ![f][n] = "failed"]
  /\ body'   = [body EXCEPT ![f][n] = Blank]
  /\ dropped' = [dropped EXCEPT ![f] = @ \/ u = "drain" \/ tried < MaxRetries]
  /\ UNCHANGED skipped

\* The uploads that fail.
MayFail     == faults < MaxFaults \/ Outage
FaultsAfter == IF faults < MaxFaults THEN faults + 1 ELSE faults

\* write.retry_count += 1, as far as it is compared with max_retries
Counted(n) == IF n < MaxRetries THEN n + 1 ELSE n

\* An error of _NO_RETRY_SUBSTRS: given up at once.
UploadRefused(u) ==
  LET f == cur[u]
      n == batch[u][f] IN
  /\ upc[u] = "http" /\ PermanentErrors /\ MayFail
  /\ tries' = [tries EXCEPT ![f][n] = Counted(@)]
  /\ MarkFailed(u, f, n, Counted(tries[f][n]))
  /\ sent'  = [sent EXCEPT ![u] = None]
  /\ faults' = FaultsAfter
  /\ AfterFailure(u)
  /\ UNCHANGED <<queue, stopped, tvars, disk, cloud, report, promise, crashes, flushes>>

\* Mutants: a status that is not one of the three; no retry; no end of retries.
MisspeltStatus(tried) == IF tried < MaxRetries THEN "retry" ELSE "failed"
GiveUpAtOnce(tried)   == "failed"
RetryForEver(tried)   == "pending"

StatusAfterError(tried) == IF tried < MaxRetries THEN "pending" ELSE "failed"

\* Any other error; when only the answer was lost the cloud has the content.
UploadError(u) ==
  LET f == cur[u]
      n == batch[u][f] IN
  /\ upc[u] = "http" /\ MayFail
  /\ cloud' \in {cloud, [cloud EXCEPT ![f] = sent[u]]}
  /\ tries'  = [tries EXCEPT ![f][n] = Counted(@)]
  /\ status' = [status EXCEPT ![f][n] = StatusAfterError(Counted(tries[f][n]))]
  /\ sent'   = [sent EXCEPT ![u] = None]
  /\ faults' = FaultsAfter
  /\ Goto(u, "caught")
  /\ UNCHANGED <<queue, body, stopped, batch, cur, tvars, disk, report, ghosts,
                 crashes, flushes>>

\* if write.status == "pending": back off, else: _mark_failed
AfterError(u) ==
  LET f == cur[u]
      n == batch[u][f] IN
  /\ upc[u] = "caught"
  /\ IF status[f][n] = "pending" THEN UNCHANGED <<status, body, dropped, skipped>>
     ELSE MarkFailed(u, f, n, tries[f][n])
  /\ AfterFailure(u)
  /\ UNCHANGED <<queue, tries, stopped, sent, tvars, disk, cloud, report, promise, bounds>>

\* self._queue.pop(write.file_id, None): whatever is queued for that file
PopUploaded(u) ==
  /\ upc[u] = "pop"
  /\ queue' = [queue EXCEPT ![cur[u]] = None]
  /\ Goto(u, "unbuf")
  /\ UNCHANGED <<heap, stopped, batch, cur, sent, tvars, disk, cloud, report,
                 ghosts, bounds>>

\* _remove_buf_files: first .buf, then .wmeta
UnlinkBuf(u) ==
  /\ upc[u] = "unbuf"
  /\ buf' = [buf EXCEPT ![cur[u]] = None]
  /\ Goto(u, "unmeta")
  /\ UNCHANGED <<queue, heap, stopped, batch, cur, sent, tvars, tmp, wmeta, cloud,
                 report, ghosts, bounds>>

\* A thread that has the .wmeta file open goes on writing to the unlinked file.
UnlinkMeta(u) ==
  /\ upc[u] = "unmeta"
  /\ wmeta' = [wmeta EXCEPT ![cur[u]] = "none"]
  /\ tpc' = [t \in Threads |-> IF tpc[t] = "metaw" /\ jobFile[t] = cur[u]
                               THEN "orphan" ELSE tpc[t]]
  /\ NextWrite(u)
  /\ UNCHANGED <<queue, heap, stopped, sent, jobFile, jobVer, buf, tmp, cloud,
                 report, ghosts, bounds>>

Upload(u) ==
  \/ TakeWrite(u) \/ UploadOk(u) \/ UploadRefused(u) \/ UploadError(u)
  \/ AfterError(u) \/ PopUploaded(u) \/ UnlinkBuf(u) \/ UnlinkMeta(u)

-----------------------------------------------------------------------------
(* The drain thread: _drain_loop and _drain_one_batch.                     *)

Purged == QueuedWith({"pending", "uploading"})

DrainExit ==
  /\ upc["drain"] = "idle" /\ stopped
  /\ Goto("drain", "done")
  /\ UNCHANGED <<queue, heap, stopped, batch, cur, sent, tvars, disk, cloud, report,
                 ghosts, bounds>>

\* The interval is over: purge the writes given up in earlier cycles.
DrainPurge ==
  /\ upc["drain"] = "idle" /\ ~stopped
  /\ queue' = Purged
  /\ Goto("drain", "snap")
  /\ UNCHANGED <<heap, stopped, batch, cur, sent, tvars, disk, cloud, report,
                 ghosts, bounds>>

DrainSnapshot ==
  /\ upc["drain"] = "snap"
  /\ batch' = [batch EXCEPT !["drain"] = QueuedWith({"pending"})]
  /\ Goto("drain", "loop")
  /\ UNCHANGED <<queue, heap, stopped, cur, sent, tvars, disk, cloud, report,
                 ghosts, bounds>>

\* The list is exhausted, or the stop event breaks the loop.
DrainBatchEnd ==
  /\ upc["drain"] = "loop"
  /\ stopped \/ batch["drain"] = NoBatch
  /\ batch' = [batch EXCEPT !["drain"] = NoBatch]
  /\ Goto("drain", "idle")
  /\ UNCHANGED <<queue, heap, stopped, cur, sent, tvars, disk, cloud, report,
                 ghosts, bounds>>

Drain == DrainExit \/ DrainPurge \/ DrainSnapshot \/ DrainBatchEnd \/ Upload("drain")

-----------------------------------------------------------------------------
(* flush_all, called once in the life of a process, by pre_destroy.        *)

\* stop_drain sets the stop event ...
FlushStart ==
  /\ upc["flush"] = "off" /\ flushes < MaxFlushes
  /\ flushes' = flushes + 1
  /\ stopped' = TRUE
  /\ report'  = "none"
  /\ Goto("flush", "join")
  /\ UNCHANGED <<queue, heap, batch, cur, sent, tvars, disk, cloud, ghosts,
                 crashes, faults>>

\* ... and joins the drain thread.  The event ends every wait of that thread,
\* so join(timeout=30) can only give up on it inside a client call.
FlushJoin ==
  /\ upc["flush"] = "join"
  /\ upc["drain"] \in {"done", "http"}
  /\ Goto("flush", "snap")
  /\ UNCHANGED <<queue, heap, stopped, batch, cur, sent, tvars, disk, cloud, report,
                 ghosts, bounds>>

FlushList == QueuedWith({"pending", "failed"})

FlushSnapshot ==
  /\ upc["flush"] = "snap" /\ FlushList # NoBatch
  /\ batch' = [batch EXCEPT !["flush"] = FlushList]
  /\ Goto("flush", "loop")
  /\ UNCHANGED <<queue, heap, stopped, cur, sent, tvars, disk, cloud, report,
                 ghosts, bounds>>

\* Mutant: errors are forgotten.
AlwaysOk == "ok"

FinalReport == IF report = "none" THEN "ok" ELSE report

\* if not pending: break
FlushReturn ==
  /\ upc["flush"] = "snap" /\ FlushList = NoBatch
  /\ report' = FinalReport
  /\ Goto("flush", "done")
  /\ UNCHANGED <<queue, heap, stopped, batch, cur, sent, tvars, disk, cloud,
                 ghosts, bounds>>

\* 120 seconds are over and writes remain
FlushTimeout ==
  /\ upc["flush"] = "snap" /\ FlushList # NoBatch
  /\ report' = "errors"
  /\ Goto("flush", "done")
  /\ UNCHANGED <<queue, heap, stopped, batch, cur, sent, tvars, disk, cloud,
                 ghosts, bounds>>

FlushBatchEnd ==
  /\ upc["flush"] = "loop" /\ batch["flush"] = NoBatch
  /\ Goto("flush", "snap")
  /\ UNCHANGED <<queue, heap, stopped, batch, cur, sent, tvars, disk, cloud, report,
                 ghosts, bounds>>

\* Mutant: a write that has used up its retries is left in the queue.
NeverUsedUp(f, n) == FALSE

UsedUp(f, n) == tries[f][n] >= MaxRetries

\* else: if write.retry_count >= self._max_retries: pop, keeping the files
FlushCheck ==
  LET f == cur["flush"]
      n == batch["flush"][f] IN
  /\ upc["flush"] = "check"
  /\ IF UsedUp(f, n)
     THEN queue' = [queue EXCEPT ![f] = None] /\ report' = "errors"
     ELSE UNCHANGED <<queue, report>>
  /\ NextWrite("flush")
  /\ UNCHANGED <<heap, stopped, sent, tvars, disk, cloud, ghosts, bounds>>

Flush ==
  \/ FlushStart \/ FlushJoin \/ FlushSnapshot \/ FlushReturn \/ FlushTimeout
  \/ FlushBatchEnd \/ FlushCheck \/ Upload("flush")

-----------------------------------------------------------------------------
(* A crash, or any exit of the process, and the next construction.         *)

\* Files whose .wmeta parses and whose .buf exists; a torn .wmeta is skipped.
Restorable == {f \in Files : wmeta[f] = "ok" /\ buf[f] # None}

\* Smallest first while the total stays within the budget: with files of one
\* size, RestoreBudget of them in any order.
RestoredSets ==
  {R \in SUBSET Restorable :
     \/ R = Restorable /\ Cardinality(R) <= RestoreBudget
     \/ Cardinality(Restorable) > RestoreBudget /\ Cardinality(R) = RestoreBudget}

\* _restore_from_disk; a .wmeta without a .buf is unlinked
Restore ==
  /\ \E R \in RestoredSets :
       /\ queue' = [f \in Files |-> IF f \in R THEN buf[f] ELSE None]
       /\ skipped' = [f \in Files |-> f \in Restorable \ R]
  /\ wmeta' = [f \in Files |-> IF wmeta[f] = "ok" /\ buf[f] = None THEN "none" ELSE wmeta[f]]

CrashRestart ==
  /\ crashes < MaxCrashes
  /\ crashes' = crashes + 1
  /\ Restore
  /\ status' = [f \in Files |-> [n \in Versions |-> "pending"]]
  /\ tries'  = [f \in Files |-> [n \in Versions |-> 0]]
  /\ body'   = [f \in Files |-> [n \in Versions |-> n]]
  /\ stopped' = FALSE
  /\ upc'   = [u \in Uploaders |-> IF u = "flush" THEN "off"
                                   ELSE IF DrainOn THEN "idle" ELSE "done"]
  /\ batch' = [u \in Uploaders |-> NoBatch]
  /\ cur'   = [u \in Uploaders |-> None]
  /\ sent'  = [u \in Uploaders |-> None]
  /\ tpc'     = [t \in Threads |-> "idle"]
  /\ jobFile' = [t \in Threads |-> None]
  /\ jobVer'  = [t \in Threads |-> None]
  /\ report' = "none"
  /\ UNCHANGED <<buf, tmp, cloud, promise, dropped, faults, flushes>>

-----------------------------------------------------------------------------
DrainNext == (\E t \in Threads : Enqueue(t)) \/ Drain \/ CrashRestart

DrainSpec == Init /\ [][DrainNext]_vars

Next == DrainNext \/ Flush

Spec == Init /\ [][Next]_vars

-----------------------------------------------------------------------------
(* Fairness: a running thread goes on running, a client call ends, and the *)
(* interval wait of the drain thread times out.  Nobody has to write, to   *)
(* call flush_all or to crash, no upload has to fail, or to succeed, and   *)
(* the 120 seconds of flush_all need never be over: FlushTimeout has no    *)
(* fairness.                                                               *)

EnqueueStep(t) == WriteTmp(t) \/ RenameTmp(t) \/ OpenMeta(t) \/ WriteMeta(t)

FlushStep ==
  \/ FlushJoin \/ FlushSnapshot \/ FlushReturn
  \/ FlushBatchEnd \/ FlushCheck \/ Upload("flush")

FairSpec ==
  /\ Spec
  /\ WF_vars(Drain) /\ WF_vars(FlushStep)
  /\ \A t \in Threads : WF_vars(EnqueueStep(t))

-----------------------------------------------------------------------------
(* Properties.                                                             *)

AtLeast(content, n) == content \in n..MaxWrites

InCloud(f) == AtLeast(cloud[f], acked[f])
OnDisk(f)  == AtLeast(buf[f], acked[f]) /\ wmeta[f] = "ok"

\* An acknowledged write is in the cloud or can be restored from disk: what
\* "survives crashes" (fuse.py, flush) promises for every write, here for the
\* files whose writes never overlapped each other nor an upload of the file, on
\* a disk that took their recovery files.
SpacedWritesDurable ==
  \A f \in Files : spaced[f] /\ kept[f] /\ acked[f] > 0 => InCloud(f) \/ OnDisk(f)

\* The same promise for all writes, except while a later write of the file has its
\* .wmeta truncated, which is a weakness of its own.
AckedWritesDurable ==
  \A f \in Files : kept[f] /\ acked[f] > 0 /\ wmeta[f] # "torn" => InCloud(f) \/ OnDisk(f)

\* Once the newest acknowledged write of a file has reached the cloud, no
\* retry or restored write puts an older one (or nothing) there: when the
\* writes of the file were enqueued one after the other, for two threads inside
\* enqueue share one .buf.tmp file, and the later may store the earlier content.
CloudKeepsAcked ==
  [][\A f \in Files :
       serial[f] /\ kept[f] /\ acked[f] > 0 /\ InCloud(f) => AtLeast(cloud'[f], acked[f])]_vars

\* No upload sends the b"" left in a write whose memory was released.
NeverUploadsReleased == \A u \in Uploaders : sent[u] # Blank

\* A write whose file is not overwritten meanwhile reaches the cloud in the
\* end, as long as fewer uploads fail than there are retries and flush_all is
\* not called; through a crash too, if its recovery files were written and the
\* restore had room for it.
AckedReachesCloud ==
  \A f \in Files :
    spaced[f] /\ acked[f] > 0
      ~> \/ InCloud(f) \/ ~spaced[f] \/ flushes > 0
         \/ (crashes > 0 /\ ~kept[f]) \/ skipped[f] \/ faults >= MaxRetries

\* Every queued write leaves the queue: uploaded, replaced or, after max_retries
\* failures, given up, also when Drive Kit fails for ever; unless flush_all stops
\* the drain thread.
QueueDrains ==
  \A f \in Files : queue[f] # None ~> (queue[f] = None \/ flushes > 0)

\* flush_all returns without the help of its time limit: every write in its list is
\* uploaded or, when its retries are used up, taken out of the queue, also when
\* Drive Kit fails for ever.  A write that stayed would be tried again and again
\* until the 120 seconds are over.
FlushNeedsNoTimeout == upc["flush"] = "join" ~> upc["flush"] \in {"done", "off"}

\* flush_all beside a drain thread that it has to stop: an acknowledged write
\* stays in the cloud or restorable although its uploads by either of them
\* fail, unless a write of its file was given up before and is still queued.
StoppedWritesDurable ==
  \A f \in Files :
    spaced[f] /\ kept[f] /\ acked[f] > 0 /\ ~dropped[f] => InCloud(f) \/ OnDisk(f)

\* When flush_all returns without an error every write that was acknowledged
\* is in the cloud: those that were not overlapped, on a disk that took their
\* recovery files, not given up before and not left out by the restore.  It
\* says nothing about the upload during which stop_drain stopped waiting for
\* the drain thread.
FlushOkMeansSynced ==
  [][report # "ok" /\ report' = "ok" /\ upc["drain"] = "done"
       => \A f \in Files :
            spaced[f] /\ kept[f] /\ ~dropped[f] /\ ~skipped[f] => InCloud(f)]_vars
=============================================================================
