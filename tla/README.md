# ClawFUSE in TLA+

ClawFUSE mounts a Huawei Drive Kit container as a file system: FUSE operations
work on an in-memory directory index, a content cache on disk and a write-back
queue, and background threads move data to and from the cloud. These modules
model the parts of `clawfuse/` whose behaviour depends on interleavings,
failures and restarts, check them with TLC on small instances, and prove what
matters most with TLAPS for all instances.

A component's module has its name; `MC<module>` gives it constants for TLC, and
`<module>Proofs` holds its theorems, `IndexProofs` more of those about `Namespace`
inside `Mount`. `LoadOnce` and `AtomicUpload` are abstract
specifications that `DirLoad` and `Upload` are shown to implement.

Modules, runs and where each definition comes from are listed in
`PROJECT.json`; this file says how to read them.

## 1. The system

fusepy calls the methods of `ClawFUSE` (`fuse.py`) on several threads. `fuse.py`
itself takes no lock. Beside the FUSE threads there is one drain thread
(`writebuf.py`), and one background loader with a pool of four workers
(`dirtree.py`). All cloud traffic goes through one `DriveKitClient`
(`client.py`), which shares one `TokenManager` (`token.py`).

| Part | State | Operations | Works with |
|---|---|---|---|
| WriteBuffer (`writebuf.py`) | `_queue` of shared, mutable `PendingWrite`s; `.buf`, `.buf.tmp`, `.wmeta` files; stop event, drain thread | enqueue, drain loop, upload with retries, flush_all, restore | called by FUSE flush/truncate and by pre_destroy; calls the client |
| DirTree, loading (`dirtree.py`) | `_loaded_dirs`, `_loading`, `_failed_dirs`, one lock and one condition | load_dir, ensure_loaded, background_full_load | called by FUSE getattr/readdir and the pool; calls list_files |
| DirTree, index | `_path_map`, `_id_map`, `_children_map` | merge of a listing, add, update, remove, move, legacy refresh | FUSE namespace operations, flush |
| ContentCache (`cache.py`) | `_lru`, `_total_bytes`; `.content`, `.meta`, `.tmp` files; no lock | get, put, invalidate, evict, restore | FUSE open, read, flush, unlink |
| TokenManager (`token.py`) | `_token`, `_dead`, `_last_read_time`; no lock | access_token, force_reread, try_revive, mark_dead | the client; an external process rewrites the file |
| Client gate (`client.py`) | a semaphore | `_retry_on_401` around every request | token manager, Drive Kit |
| Client requests | none | create/update/get/delete/list, resumable upload | Drive Kit |
| FUSE files (`fuse.py`) | `_fh_map`, `_content_map`, `_dirty` | open, read, write, flush, release, truncate | cache, write buffer, client, index |
| FUSE namespace | none of its own | getattr, readdir, create, unlink, rename, mkdir, rmdir | index, client, cache |
| Lifecycle, mount, config | component references | pre_start, pre_destroy, signal handler | all of the above |

What makes it hard:

* an upload runs outside the lock while its file is written again;
* every multi-file update on disk (`.buf` and `.wmeta`, `.content` and `.meta`)
  can be cut by a crash;
* `load_dir` mixes a lock-free fast path, a breaker, a condition shared by all
  folders and a time-out that looks like success;
* the cache and the token manager are shared by all threads without a lock;
* a flush is four steps over three components, and reads look at two of them;
* a directory operation is a look-up, a request and an edit of three maps, and
  listings of the same tree arrive in between;
* a chunked upload goes on from where the server says it is, over a network that
  loses, repeats and delays requests;
* nothing saves state at the end of a mount: the next start finds its folder, its
  tree and its unfinished writes again.

What makes each part correct, in a sentence: an acknowledged write is in the
cloud or on disk; a folder is merged exactly once and no caller waits for ever;
the cache keeps its budgets and returns nothing older than what was stored; one
expired token never shuts out a good one and no slot is lost; a flushed content
is visible, durable and correctly sized, and closing loses nothing; the index
shows what Drive Kit holds, and no operation doubles a name or deletes more than
it names; an upload leaves the old content or the whole new one; every start
mounts the same folder.

## 2. Modules

### WriteBuffer

| Model | Code |
|---|---|
| `queue`, heap `status`/`tries`/`body` | `_queue` and the `PendingWrite`s it and the uploaders' lists refer to |
| `EnqueueInsert`, `WriteTmp`, `RenameTmp`, `OpenMeta`, `WriteMeta` | `enqueue`: queue entry, `.buf.tmp`, rename, truncate and write `.wmeta` |
| `DrainPurge`, `DrainSnapshot`, `TakeWrite`, `UploadOk`, `UploadRefused`, `UploadError`, `AfterError`, `PopUploaded`, `UnlinkBuf`, `UnlinkMeta` | `_drain_one_batch`, `_upload_one` and the clean-up |
| `FlushStart` ... `FlushCheck` | `flush_all`, with `stop_drain` and its join, beside the drain thread |
| `Restore`, `CrashRestart` | `_restore_from_disk` after any end of the process |

The n-th enqueue of a file carries version n. `PendingWrite`s are kept in a heap
because an uploader keeps its reference after the queue entry was replaced, and
`_mark_failed` blanks the content through it. A failed request either reached the
cloud or did not. With `Outage` uploads may go on failing after `MaxFaults`, up to
which they are counted; `retry_count` is counted up to `max_retries`, with which it
is only compared. `DrainSpec` is the program without `flush_all`, `Spec` with it. The
stop event ends every wait of the drain thread, so `FlushJoin` gives up on that
thread only while it is inside a client call; the call goes on beside `flush_all`.

Abstractions: a `write_bytes` to a `.tmp` file is one step (nobody reads such a file
before the rename); the order inside a batch is free; a restored set is any set of
`RestoreBudget` files, as for files of equal size; an upload is one request (its
parts are in `Upload`), which the server does not apply later than the client's
answer or time-out, so that `CloudKeepsAcked` says nothing of a request that arrives
late; `flush_all` runs at most once in a process, as `pre_destroy` calls it; an
OSError while writing a `.wmeta` comes when it is opened; the empty `file_id`, which
the FUSE layer never enqueues, is left out.

History variables: `acked` (newest version whose enqueue returned), `spaced` (no
write of the file began while something still referred to an earlier one),
`serial` (no two threads were inside enqueue of the file at once), `kept` (no
recovery file of the file failed to be written), `dropped` (a write of the file
was given up and stayed in the queue: by the drain thread, or by `flush_all`
before its last try), `skipped` (the last restore had no room for the file).

### Upload, AtomicUpload

`_upload_one` with its retries, down to `update_file` (`SendWhole`) and the
resumable session (`Initiate`, `PutTaken`, `PutAnswered`, `PutRefused`,
`PutUnanswered` for `_upload_chunks`). The server (external) keeps a prefix of the
content per session, may take less of a chunk than was sent, and answers 308 with
the length it has or without a Range. Requests get lost before or after the
server has seen them, or are still delivered when the client no longer waits for
them (`late`). Contents are their lengths: what matters is which bytes a session
has. `AtomicUpload` is what `WriteBuffer` takes an upload for: old content or
all of the new one, and success only for the latter.

### DirLoad, LoadOnce, DirWalk

`DirLoad` is `load_dir`, step by step: fast path, breaker, the critical section
that returns, waits or marks the folder, the wait loop with its re-check, fetch,
merge, and the `finally` that unmarks and notifies. `LoadOnce` states what
callers rely on with no thread in it (absent, fetching, present; entries there
once), and `LoadsOnce` says that `DirLoad` implements it under the mapping
`PhaseOf`. `DirWalk` adds the two callers over a fixed tree: `ensure_loaded`
(`WalkStart`, `WalkDown`, `WalkEnd`) and `background_full_load` (`BgSubmit`,
`BgTake`, `BgCollect`, `BgNext`, `BgComplete`). The loop over a batch in `BgSubmit`
is one step, and batches are sets, while the lists of the code may name a folder twice.

A listing is one fetch that succeeds or fails; its pages, malformed items and
entries that cannot be placed are left out, and so are local changes of the
tree while it is loaded (they are the subject of `Namespace`). `merges` counts how
often entries were appended.

### Namespace, Mount

`Namespace` has the three maps of `DirTree`, the tree that Drive Kit holds, and
the operations on both. A path is the sequence of its names; a list in
`_children_map` is a bag, because its order only decides which of two records with
one id `update_meta` replaces. A change is three steps:

1. `Create`, `Mkdir`, `Unlink`, `Rmdir` and `Rename` look their paths up, and leave in
   `ask` what the request will be sent with;
2. `ServeAdd`, `ServeRemove` or `ServeMove` is the server serving that request, or
   `RequestFails`;
3. `Finish` is the answer, which edits the maps by `AddEntry`, `RemoveEntry` or
   `MoveEntry`, or `AnswerLost` leaves them.

Other folders, and the same one, are listed and merged between these steps. So create
and mkdir send what getattr did not find even when its listing has been merged since,
and rmdir deletes a folder whose listing was merged after `list_dir` had shown
nothing. The look-up of the kernel and the `resolve` of the handler are one step: a
merge between the two adds paths and changes none that the handler resolves. `Flush`
changes a size (`UpdateMeta`); `Forget` is unlink of a local-only name. `Fetch`,
`FetchFails` and `Merge` are a listing at its two ends, with the promise of
`LoadOnce` in place of the threads of `load_dir`; anything may come between. A merge
is one step, as it is under the lock, so `list_dir`, which reads without the lock,
does not see half of it here. `loose` collects the paths at and below which nothing
is promised, each for a reason of section 6; one is that the look-up (`sure`) found
the folder not loaded. What a delete takes with it (`Inside`) is the least set of ids
that holds the deleted one and, with a folder, all that is in it.

`Mount` puts a life around it: `pre_start` finds the container's root
(`DiscoverRoot`), the configured folder on the pages of its listing (`LookupPage`, in
the order of the ids), or creates it (`CreateRoot`); the mount is used; a signal, an
error or a crash ends it (`Stop`) and the maps are gone; the command is run again.
Requests of the start may fail, or lose their answer (`StartFails`); none is served
after the process that sent it has ended.

Left out: the rename of a folder while a change inside it is under way; two
changes at once in different folders (they touch different keys).

### ContentCache

get, put, invalidate and both eviction loops, cut where another thread can come
in: between the index, the byte count and the files. `disk` and `tmp` hold the
`.content` and `.meta` file of each file id; a `.meta` file is abstracted to the
version whose size it records. `CrashRestart` rebuilds the index from what is on
disk. Byte counts are numbers of bytes: a content of n bytes is n numbered bytes
of its file, which makes a sum of sizes the cardinality of a set. The test of an
eviction loop and the `popitem` after it are one step, and so are each `+=` and `-=` of
`_total_bytes`: no thread is assumed to be switched inside them. `clean[f]`
records that nobody else stored, dropped or evicted `f` beside a put or an
invalidate of it; the code offers no more than that, as it has no lock.

### TokenGate

`_retry_on_401` with `access_token`, `force_reread`, `try_revive` and
`mark_dead`, each cut at its reads and writes of `_token` and `_dead`. The mode
is chosen in `Init`: a token file, or a string with a config file, whose read
errors and revival differ. External actions: a new token is issued (`Issue`
truncates the file, `Publish` fills it) and tokens expire (`Expire`). `calm` and
`alone` record that the source was good and unchanged during a call and that no
two calls have overlapped.

### FuseFile

One file with its handles: `open`, `read`, `write`, `flush`, `release` and both forms
of `truncate`, cut between the calls they make, over a cache and a write buffer that
appear with what a caller sees of them. An upload that ends clears whatever is
queued, as in `WriteBuffer`; one that fails may have reached the cloud. `Truncates`
says whether `truncate` is called without a handle. A handle is released when no
operation uses it any more, which is what the kernel guarantees. A handle opened for
reading is not written to. `apart` records that no two operations that fetch or
replace the content overlapped each other or an upload, `backed` that the cache was
not emptied or bypassed before the cloud had the newest content.

## 3. Runs

All bounds are constants of the configurations.

| Run | Bounds | Shows |
|---|---|---|
| `wb_drain` | 2 files, 2 FUSE threads, 2 writes of a file and 3 in all, 2 failing uploads (of 2 tries), 1 crash, restore budget 1 | `SpacedWritesDurable`, `NeverUploadsReleased`, `CloudKeepsAcked`, types |
| `wb_sync` | 1 file, 1 FUSE thread, 2 writes, uploads that fail for ever (`Outage`; 2 tries), disk errors, 1 crash, 1 `flush_all` beside the drain thread | `StoppedWritesDurable`, `FlushOkMeansSynced`, `AckedReachesCloud`, `QueueDrains`, `FlushNeedsNoTimeout` |
| `up_chunks` | lengths 0, 2 and 5, cut-off 1, chunks of 2, 3 tries of a chunk, 2 attempts, 4 faults | `UploadIsAtomic`, `UploadEnds`, types |
| `dw_walk` | tree top/(left/deep, right), 1 walker, 2 workers, 3 calls each, 1 failed fetch or time-out | `OneLoader`, `ReturnMeansLoaded`, `LoadsOnce`, `BackgroundComplete`, `WalkReaches`, `CallsReturn`, `BackgroundEnds`, types |
| `ns_mount` | 3 names (one hidden, one local-only), depth 2, ids to 6, 3 changes, 1 failed listing or lost answer, 3 ways to name the folder, pages of 1 entry, 2 starts, 3 initial clouds | `IndexAgrees`, `RmdirOnlyEmpty`, `NamesStayDistinct`, `SameFolder`, types |
| `cc_cache` | 2 files, 2 threads, 3 puts of 1, 3 and 2 bytes, budgets 2 bytes and 1 file, 1 disk error, 1 crash | `NeverUndercounts`, `BudgetKept`, `CountExact`, `SidecarsAgree`, `HitsFresh`, types |
| `tg_gate` | 2 threads, 1 slot, both modes, tokens 0 to 2 | `SlotsKept`, `DeadIsExpired`, `GoodSourceServes`, types |
| `ff_file` | 2 handles, 2 threads, 2 enqueued contents, 1 crash | `FlushVisible`, `FlushDurable`, `SizeShown`, `ReleaseSavesWrites`, types |

Why the bounds are enough to be interesting: two writes of a file are what an
overtaken upload, a replaced entry or a stale restore needs, two threads what a
shared `.buf.tmp` needs; failures reach `max_retries`, and in `wb_sync` go on without
end; a crash is possible at every step, and the restored process goes on; the restore
budget is smaller than the number of files; the cache budgets are below what the puts
add up to, with one file larger than the whole budget; the tree has a branch and a
depth of two, so that a walk and the search meet on the way; a content is shorter
than a chunk, empty, or two chunks and a rest, and the faults use up a chunk's tries
and still hit the next attempt; three changes are enough to create, rename and delete
one entry, or to move it and put another in its place, and each has three steps
between which a folder on the way is fetched and merged, and the folder looked for is
on the second page; more threads than slots; more tokens than one retry can skip.

Runs with `CHECK_DEADLOCK FALSE` end where the program is idle and the bounds
leave no further call; the other runs have always an idle loop or a new call.
`wb_drain` and `cc_cache` use the symmetry of files and threads, which no
definition tells apart; they check no liveness.

Four runs end in a counterexample, each against a sentence of the repository;
`PROJECT.json` quotes it.

| Run | What the code does |
|---|---|
| `wb_v_overlap` | the drain thread lists a write, the file is written again and acknowledged, the older write is uploaded: the clean-up after it (`writebuf.py:211`) drops the newer write from the queue and from disk |
| `wb_v_released` | `flush_all` (`writebuf.py:126`) uploads the `b""` of a write that was given up and deletes its `.buf` file |
| `tg_v_stuck` | two overlapping calls leave the circuit open with the good token already in use (`client.py:101`); nothing closes it until the source changes again |
| `ff_v_visible` | after a flush whose put into the cache failed, which is only logged (`fuse.py:257`), reads fall back to the old content of the cloud until the upload (`fuse.py:145`); nobody truncates without a handle in this run |

The passing properties carry conditions (`spaced`, `serial`, `kept`, `dropped`,
`skipped`, `clean`, `alone`, `apart`, `backed`, `loose`) exactly where these defects,
the missing locks or the cases of section 6 bite: without them the properties are
false of this code, with them they say what its callers can still rely on. A fix of a
defect would let the condition go.

## 4. Fairness

Safety is checked without fairness (a run that checks liveness too uses the fair
specification for all of its properties). `FairSpec` of WriteBuffer has weak fairness
for the drain thread as a whole (its interval wait times out, a client call ends
because every request has a timeout), for a running `flush_all`, and for each thread
inside `enqueue`. `FairWalkSpec` (DirWalk) has it for each thread inside `load_dir`,
each walk, and the background search. `FairSpec` of Upload has it for the client,
which goes on with an answer or without one, and strong fairness for a server that
takes a whole chunk which follows on: without it the loop of `_upload_chunks`, which
counts only unanswered requests, need not end. Nobody has to call, write, crash or
fail, no wait has to time out and no cooldown has to end; nor need the time limit of
`flush_all` be reached (`FlushTimeout` has no fairness), so that
`FlushNeedsNoTimeout` says that it returns by itself. In `wb_sync` Drive Kit may fail
for ever: `QueueDrains` and `FlushNeedsNoTimeout` hold all the same, since a write
leaves the queue after `MaxRetries` failures, while `AckedReachesCloud` needs fewer
failures than that. The runs of `Upload` and `DirWalk` bound failures by `MaxFaults`
and `MaxTroubles`, so their liveness is about a cloud that fails finitely often.

## 5. Proofs

Eight modules hold theorems; `tlapm` checks them for any number of files, threads,
folders, handles, tokens, crashes and failures. Each proof is of one inductive
invariant; what it says beyond the property is why the property holds.

`WriteBufferProofs`

* `TypeCorrect`: `Spec => []TypeOK`.
* `SpacedDurable`: `DrainSpec => []SpacedWritesDurable`. The property is not
  inductive: that the clean-up after an upload removes nothing newer depends on
  where the uploader, the threads and the disk stand. The inductive invariant
  says of each spaced file that at most one version of it is alive, ties the
  control points of the enqueuing thread and of the drain thread to the content
  of `.buf`, `.wmeta`, the queue and the list of the uploader, and says that the
  pending clean-up is of a version that is already in the cloud.
* `DrainSendsContent`: `DrainSpec => []NeverUploadsReleased`, from the invariant
  that a pending write has its content and that the list of the drain thread
  holds, beside the write it is busy with, only pending ones.
* `CloudNeverGoesBack`: `DrainSpec => CloudKeepsAcked`, from `OrderInv`: what is
  queued or stored is not older than what was acknowledged; what is listed for
  an upload is not either, once the cloud has that; and the one thread that
  enqueues has the newest version, behind which nothing older is queued.
* For the whole of `Spec`, with `flush_all`, `StopKeepsWrites`: `Spec =>
  []StoppedWritesDurable`, and `FlushOkSynced`: `Spec => FlushOkMeansSynced`, from
  `FlushInv`. For the files the properties are about it says that both uploaders know
  the newest write only and that `flush_all` keeps off the one the drain thread is
  still sending; that a status tells the truth ("uploading" means sent or in the
  cloud, a write without its content is out of the queue and of every list, or about
  to be); and that a write which is not in the cloud is queued as long as there is
  nothing to report. For all files it says that versions not enqueued yet are
  untouched in the heap.

`DirWalkProofs`, about `DirLoad` and about `DirWalk` on top of it

* `OneLoaderHolds`, `MergedOnceHolds`: from one invariant that ties `_loading` to
  the control points of the threads and says that a folder being fetched is not
  loaded. (`MergedOnce` is in no run: `LoadsOnce` implies it.)
* `ReturnMeansLoadedHolds`: adds that, while nothing has failed, a waiter's
  folder is loaded or still marked.
* `Implements`: `Spec => LoadsOnce`; a marking step maps to `Begin`, `Merge` to
  `Complete`, a failing `Leave` to `Abandon`, everything else to a stutter.
* `CallersKeepPromise`: `WalkSpec => Spec`, every step of the callers is one of
  `load_dir` or leaves its variables alone; with it `WalkLoadsOnce` follows
  from `Implements`. `WalkTypeCorrect` is the types.
* `BackgroundLoadsAll`: `WalkSpec => []BackgroundComplete`, from `SearchInv`: while
  nothing has failed there is a set of loaded folders whose children are in the
  set too or still before the search, in its batch, its pool or its results.
  When those are empty the set holds the children of its members and, by
  `ReachedAssumption`, is the whole tree.

`UploadProofs`

* `TypeCorrect`, and `Implements`: `Spec => UploadIsAtomic`, for any length and
  chunk size: what the server has of a session is a prefix, whatever the client
  takes its offset for; a session that holds all of a content has made it the
  content of the file; and success is only reported for such a session.

`TokenGateProofs`

* `TypeCorrect`; `SlotsKeptHolds`: the free slots and the threads that hold one
  add up (by the library's cardinality theorems); `DeadIsExpiredHolds`: from
  `AloneInv`, what a thread that is alone knows about the token and the mark at each
  point of its call; `GoodSourceServesHolds`: from `CalmInv` too, that such a
  thread uses the token of a source that stays good, and never condemns it.

`ContentCacheProofs`

* `SidecarsAlwaysAgree`, `HitsAlwaysFresh`: from `CacheInv`. For each file it says
  how the index, the `.content` and the `.meta` file fit together while nobody
  works on it (`Rest`), and how at each point of the one call that does
  (`Stage`, `Sole`); for each reader, what it may still find.

* `CacheTypeOK`, `CacheNeverUndercounts`, `CacheBudgetKept` and `CacheCountExact`,
  from three invariants more. `ByteInv`: the byte count, with what is inserted and
  not counted yet, is at least what is in the index with what is taken out and
  still counted, and equals it while nobody works on a file beside another
  (`clean`). `TrimInv`: a budget is exceeded only as long as some thread has not
  looked at it since it was raised. `LruInv`: the order of the index lists each
  entry once. Sums are cardinalities of sets of bytes, so that the library's
  theorems apply; the files and the threads are finite sets.

`MountProofs`

* `MountTypeOK`: `Spec => []TypeOK`, and `MountSameFolder`: `Spec => []SameFolder`,
  both from `MountInv`. It says that Drive Kit's tree stays a tree (`CloudOK`:
  unique ids, existing parents, nothing inside itself), which needs an argument
  about least closed sets for each request; that an id is a folder's or a
  file's for ever, in Drive Kit, in the maps, in listings and operations on their
  way (`Agree`), without which a walk could end in a file; and that no record of
  the mounted folder's own entry is in the maps or on its way (`NamedInv`), so
  that no delete or rename can hit it. For the look-up, that a folder of that
  name is still ahead of the page that is read next.

`IndexProofs`, on top of `MountProofs`

* `MountIndexAgrees`: `Spec => []IndexAgrees`, `MountRmdirOnlyEmpty`:
  `Spec => RmdirOnlyEmpty`, and `MountNamesStayDistinct`: `Spec => NamesStayDistinct`,
  all from `SettledInvariant`. None of the three is inductive: that the index and
  Drive Kit agree while no operation is on its way says nothing of the answer or
  the listing that arrives next. `Settled` speaks of the records and folders at
  and above which nothing is loosened, however deep they lie, and says

  * that the three maps fit together: the record of a path is in the children
    list of the folder above it, once, its id leads back to the path, and every
    path above it is there (`Nested`);
  * that a loaded folder holds in Drive Kit what the index will hold when the
    operation on its way has been answered (`LoadedAgree`), and that a listing on its
    way is still what the folder holds (`ListingsAgree`): a change in a folder that
    is being listed loosens it;
  * that what is below a folder which is not loaded, in Drive Kit or in its
    listing, is nowhere in the index, in no other listing and not what is being
    created (`BelowUnseen`, `ListingsNew`), so that a merge only adds;
  * that a folder whose delete is on its way holds nothing that is still in
    Drive Kit (`DoomedGone`), and that the mounted folder is inside none of the
    entries the index mentions (`RootAbove`), so that no delete takes it along;
  * and what the operation on its way may count on (`OpSound`).

  What is merged between a look-up and its request is the subject of `AskSound`: the
  ids that the look-up found are of folders and records that no listing on its way,
  or still to come, can bring in under another path (`Apart`, `OnlyAt`); a look-up in
  loaded folders (`sure`) still holds when the request is served; and a folder that
  was listed and empty stays so. For `rmdir` the argument is then that a listed
  folder which a delete takes along lies below the deleted one in the index too
  (`InsideIsBelow`), and that an empty folder has no record below it
  (`NothingBelow`). TLC found no violation of `AskSound` in the 2.1 million states of
  an instance of `Mount` with the bounds of `ns_mount` and ids to 5.

`FuseFileProofs`

* `TypeCorrect`: `Spec => []TypeOK`, with what a thread holds at each point.
* `FlushesAreDurable`, `SizeIsShown`: from `NewestInv`, which says of operations
  that do not overlap: one of them is under way at a time, an upload runs only
  between them, and what is queued, on disk or being uploaded is the newest
  content, which the cloud has if the disk has not.
* `FlushesAreVisible`: adds `VisibleInv`, that a download and its put into the
  cache find the cache empty and the cloud unchanged, and that a read gets the
  newest content except between `enqueue` and `put`.
* `ReleaseKeepsWrites`: from `SavesInv`, that a write neither picked up nor
  overtaken by a flush leaves its handle dirty while no flush that would clear
  the mark is under way.

The assumptions are those of the modules: the sentinels are no data (in
`Namespace` also no request: `OperationAssumption`), the bounds are numbers, the
tree of DirWalk is one. For Drive Kit's trees at first
(`CloudAssumption`, `FolderAssumption`): they are trees, their ids are numbered
through, and the container has at most one folder of the name that is looked
for. The code takes any of several, so that nothing could be promised then.

Only model-checked:

* all liveness (temporal properties under fairness and ENABLED are outside what
  the prover handles);
* `WalkReaches`: `PathTo` is a recursive function, and what it computes for every
  tree would be induction over data.

Every other property of a passing run is a theorem.

## 6. Deviations

What the code does in these cases is not what one would expect of a file
system; the properties except them, and the models contain them.

* rmdir (`fuse.py:365`) asks `list_dir` without `ensure_loaded`: a folder that
  nothing has listed counts as empty and is deleted with its content, even if its
  listing is merged before the request (`fuse.py:370`) is sent.
  (`tests/test_fuse.py:168` expects ENOTEMPTY for a folder that is loaded.)
  `RmdirOnlyEmpty` is about folders whose listing had been merged when rmdir looked.
* A folder whose listing has failed, is still on its way when the wait for it times
  out, or is merged after getattr answered ENOENT counts as without the name: create
  (`fuse.py:213`), mkdir and rename do not look again, make a second entry of a name
  the cloud holds, and the new entry overwrites the path of the other one. The folder
  is in `loose` from then on; `NamesStayDistinct` is about folders loaded at the
  look-up.
* A renamed folder leaves the paths and ids of what is below it under the old
  name (`dirtree.py:333`), and a removed one leaves them in the maps. `loose`
  takes in both ends of the rename then, or the path removed.
* A rename onto an existing name leaves the old entry among the children, and
  in Drive Kit.
* A listing fetched before a create, rename or delete in its folder and merged
  after it (`dirtree.py:414`) brings the old entry back or lists one twice.
* A create whose answer was lost is repeated by the user, and a create of a
  hidden name is not seen after a remount: two entries of one name.
* unlink of a local-only name (`fuse.py:278`) only leaves the index; getattr
  answers for any such name.
* An empty container is mounted by the keyword `applicationData`; entries that
  are listed later name the container's real id as their parent, which the tree
  does not know as its root, and are skipped.
* SIGTERM only makes fusermount unmount, and `main` then returns; `pre_destroy` runs
  after a FUSE mount error alone (`mount.py:138-141`), against `docs/`
  ("ClawFUSE-详细设计说明书.md", line 405): queued writes wait on disk for the next start.
* `destroy()` (`fuse.py:426`) only logs how many handles are dirty. The same document
  (line 356) says that it flushes each of them: writes of handles that are open at
  the unmount are lost. `ReleaseSavesWrites` is about handles that are released.
* `truncate` without a handle (`fuse.py:324`) enqueues the new content and leaves the
  cache as it is: reads get the old content until the entry is evicted and the upload
  done.
* A crash while `.wmeta` is rewritten (`writebuf.py:326`) makes the restore skip
  the file's older, acknowledged write.
* Two threads inside `enqueue` of one file share its `.buf.tmp`
  (`writebuf.py:314`): the older content can be stored last, and is then
  restored over the newer one. `serial` excepts such files from
  `CloudKeepsAcked`.
* Recovery files written after the upload they were for (`writebuf.py:89`) stay
  and are uploaded again at the next start: harmless, by `CloudKeepsAcked`.
* The cooldown is tested in one critical section and the mark set in another
  (`dirtree.py:109`): a folder can be fetched once more during its cooldown.

## 7. Not modelled

* `dirtree.py`: the legacy `refresh` with `_build_tree`, which replaces the whole
  index by one listing of all files (`load_dir` turns it off at the start of
  a mount); malformed items of a listing.
* `fuse.py`: handles of local-only files, which never leave the process; unlink
  beside open handles or queued writes; statistics.
* Requests that Drive Kit serves after the client has given them up: in `WriteBuffer`
  an upload, in `Mount` the creation of the folder, served after the next start has
  looked for it.
* `client.py`: the form of requests and answers (multipart bodies, headers,
  query strings), download.
* `lifecycle.py`, `mount.py`: the state file, argument parsing, logging.
  `pre_destroy` is the `flush_all` of `WriteBuffer`.
* `config.py`, `exceptions.py`: data without state. `scripts/`: measurements.

## 8. Plan

Done: all modules above, with the proofs of section 5.

What would come next: unlink in `FuseFile`, beside a queued write and an open
handle; a refinement of the index, by which a listed folder with its operations
is a map from names to entries; an abstract store (cloud content or a
recoverable one) that `WriteBuffer` implements for spaced writes, with `FuseFile`
on top of it.
