----------------------------- MODULE ContentCache -----------------------------
(***************************************************************************)
(* The content cache of ClawFUSE (clawfuse/cache.py): downloaded and       *)
(* written files on disk, a .content and a .meta file each, with an LRU    *)
(* index in memory that evicts the oldest files over a byte and a file     *)
(* budget.  The FUSE threads call get, put and invalidate; nothing locks   *)
(* the index, so the steps of two calls interleave.  The index is rebuilt  *)
(* from the .meta files when the process starts.                           *)
(*                                                                         *)
(* The n-th put of a file stores version n, of Size[n] bytes.  A .meta     *)
(* file is abstracted to the version whose size it records.                *)
(***************************************************************************)
EXTENDS Integers, SequencesExt

CONSTANTS
  Files, Threads,
  None,        \* no version, no file
  Size,        \* version -> its size
  MaxBytes,    \* _max_bytes
  MaxFiles,    \* _max_files
  MaxPuts,     \* bound: puts, of all files together
  MaxErrors,   \* bound: operations that raise an OSError
  MaxCrashes   \* bound: crashes

Versions == 1..MaxPuts
Parts    == {"content", "meta"}

ASSUME CacheAssumption ==
  /\ None \notin Files /\ None \notin Nat
  /\ IsFiniteSet(Files) /\ IsFiniteSet(Threads)
  /\ Size \in [Versions -> Nat]
  /\ {MaxBytes, MaxFiles, MaxPuts, MaxErrors, MaxCrashes} \subseteq Nat

VARIABLES
  lru,      \* the order of _lru, oldest first
  rec,      \* file -> version whose size its CacheEntry holds, or None
  total,    \* _total_bytes
  disk,     \* part -> file -> version in that file, or None
  tmp,      \* part -> file -> version in its .tmp file, or None
  pc,       \* thread -> control point
  op,       \* thread -> "get", "put" or "drop" (invalidate)
  file,     \* thread -> the file of its call
  ver,      \* thread -> the version it puts
  part,     \* thread -> the file it is writing
  victim,   \* thread -> the entry it has popped and is cleaning up
  out,      \* thread -> the version in that entry
  then,     \* thread -> where it goes on after the removal
  got,      \* thread -> what get read
  floor,    \* history: the oldest version its get may return
  least,    \* history: file -> the oldest version a new get may return
  issued,   \* history: file -> number of puts
  clean,    \* history: nobody worked on the file beside a put or an invalidate
  trimmed,  \* history: a put has run its evictions since the process started
  errors, crashes

cvars == <<op, file, ver, floor>>
gvars == <<least, issued, clean, trimmed>>
index == <<lru, rec, total>>
vars  == <<index, disk, tmp, pc, cvars, part, victim, out, then, got, gvars,
           errors, crashes>>

Points == {"idle", "read", "touch", "drop", "uncount", "unlinkc", "unlinkm",
           "write", "rename", "unwind", "insert", "count", "trimb", "trimf", "ret"}

TypeOK ==
  /\ rec \in [Files -> Versions \cup {None}]
  /\ lru \in Seq(Files) /\ IsInjective(lru) /\ ToSet(lru) = {f \in Files : rec[f] # None}
  /\ total \in Int
  /\ disk \in [Parts -> [Files -> Versions \cup {None}]]
  /\ tmp  \in [Parts -> [Files -> Versions \cup {None}]]
  /\ pc   \in [Threads -> Points]
  /\ op   \in [Threads -> {"get", "put", "drop"}]
  /\ file \in [Threads -> Files \cup {None}]
  /\ part \in [Threads -> Parts]
  /\ victim \in [Threads -> Files \cup {None}]
  /\ {ver, out, got} \subseteq [Threads -> Versions \cup {None}]
  /\ then \in [Threads -> {"write", "trimb", "trimf", "ret"}]
  /\ floor \in [Threads -> 0..MaxPuts + 1] /\ least \in [Files -> 0..MaxPuts + 1]
  /\ issued \in [Files -> 0..MaxPuts]
  /\ clean \in [Files -> BOOLEAN] /\ trimmed \in BOOLEAN
  /\ errors \in 0..MaxErrors /\ crashes \in 0..MaxCrashes

NoThread(x) == [t \in Threads |-> x]

\* The sizes of the versions that v gives the members of S, added up: their
\* bytes are numbered and counted.
Bytes(S, v) == Cardinality(UNION {{x} \X (1..Size[v[x]]) : x \in S})

Init ==
  /\ lru = <<>> /\ total = 0
  /\ rec  = [f \in Files |-> None]
  /\ disk = [p \in Parts |-> [f \in Files |-> None]]
  /\ tmp  = disk
  /\ pc = NoThread("idle") /\ op = NoThread("get") /\ file = NoThread(None)
  /\ ver = NoThread(None) /\ part = NoThread("content") /\ victim = NoThread(None)
  /\ out = NoThread(None) /\ then = NoThread("ret") /\ got = NoThread(None)
  /\ floor = NoThread(0) /\ least = [f \in Files |-> 0]
  /\ issued = [f \in Files |-> 0]
  /\ clean = [f \in Files |-> TRUE] /\ trimmed = TRUE
  /\ errors = 0 /\ crashes = 0

-----------------------------------------------------------------------------
Goto(t, point) == pc' = [pc EXCEPT ![t] = point]

\* The thread is storing, dropping or cleaning up the file; another one is.
Works(t, f) == pc[t] # "idle" /\ (victim[t] = f \/ (op[t] # "get" /\ file[t] = f))
Busy(t, f)  == \E v \in Threads \ {t} : Works(v, f)

\* self._lru.pop(file_id, None): the entry leaves the index at once, its size
\* and its files follow, and then the call goes on at the point `back`.
TakeOut(t, f, back) ==
  /\ clean' = [clean EXCEPT ![f] = @ /\ ~Busy(t, f)]
  /\ IF rec[f] = None
     THEN Goto(t, back) /\ UNCHANGED <<lru, rec, victim, out, then>>
     ELSE /\ lru' = RemoveFirst(lru, f)
          /\ rec' = [rec EXCEPT ![f] = None]
          /\ victim' = [victim EXCEPT ![t] = f]
          /\ out' = [out EXCEPT ![t] = rec[f]]
          /\ then' = [then EXCEPT ![t] = back]
          /\ Goto(t, "uncount")

\* get, up to self._lru.get(file_id); a miss returns None and changes nothing.
CallGet(t, f) ==
  /\ pc[t] = "idle" /\ rec[f] # None /\ Goto(t, "read")
  /\ file' = [file EXCEPT ![t] = f]
  /\ floor' = [floor EXCEPT ![t] = least[f]]
  /\ UNCHANGED <<index, disk, tmp, op, ver, part, victim, out, then, got, gvars, errors, crashes>>

\* Mutant: the old entry stays until the new one replaces it.
KeepsOldEntry(t, f) == Goto(t, "write") /\ UNCHANGED <<lru, rec, victim, out, then, clean>>

\* if file_id in self._lru: self._remove_entry(file_id)
RemovesOldEntry(t, f) == TakeOut(t, f, "write")

PutsLeft == Cardinality(UNION {{f} \X (1..issued[f]) : f \in Files}) < MaxPuts

\* put, up to the removal of the old entry
CallPut(t, f) ==
  /\ pc[t] = "idle" /\ PutsLeft
  /\ issued' = [issued EXCEPT ![f] = @ + 1]
  /\ op' = [op EXCEPT ![t] = "put"] /\ file' = [file EXCEPT ![t] = f]
  /\ ver' = [ver EXCEPT ![t] = issued[f] + 1]
  /\ RemovesOldEntry(t, f)
  /\ UNCHANGED <<total, disk, tmp, part, got, floor, least, trimmed, errors, crashes>>

CallInvalidate(t, f) ==
  /\ pc[t] = "idle" /\ TakeOut(t, f, "ret")
  /\ op' = [op EXCEPT ![t] = "drop"] /\ file' = [file EXCEPT ![t] = f]
  /\ UNCHANGED <<total, disk, tmp, ver, part, got, floor, least, issued, trimmed,
                 errors, crashes>>

\* The call returns or raises.  From here on a get must not return anything
\* older than what was put, even if the put failed, nor what was invalidated.
Return(t) ==
  LET f == file[t]
      n == IF op[t] = "put" THEN ver[t] ELSE issued[f] + 1 IN
  /\ pc[t] = "ret" /\ Goto(t, "idle")
  /\ least' = [least EXCEPT ![f] = IF op[t] # "get" /\ n > @ THEN n ELSE @]
  /\ op' = [op EXCEPT ![t] = "get"] /\ file' = [file EXCEPT ![t] = None]
  /\ ver' = [ver EXCEPT ![t] = None] /\ got' = [got EXCEPT ![t] = None]
  /\ part' = [part EXCEPT ![t] = "content"] /\ then' = [then EXCEPT ![t] = "ret"]
  /\ floor' = [floor EXCEPT ![t] = 0]
  /\ UNCHANGED <<index, disk, tmp, victim, out, issued, clean, trimmed, errors, crashes>>

-----------------------------------------------------------------------------
(* _remove_entry                                                           *)

\* Mutant: the size of the version being stored is subtracted.
SizeOfNew(t) == IF ver[t] # None THEN Size[ver[t]] ELSE Size[out[t]]

SizeOut(t) == Size[out[t]]

\* self._total_bytes -= entry.size
Uncount(t) ==
  /\ pc[t] = "uncount" /\ Goto(t, "unlinkc")
  /\ total' = total - SizeOut(t)
  /\ UNCHANGED <<lru, rec, disk, tmp, cvars, part, victim, out, then, got, gvars,
                 errors, crashes>>

\* entry.disk_path.unlink(missing_ok=True), and then its .meta file
UnlinkContent(t) ==
  /\ pc[t] = "unlinkc" /\ Goto(t, "unlinkm")
  /\ disk' = [disk EXCEPT !["content"][victim[t]] = None]
  /\ UNCHANGED <<index, tmp, cvars, part, victim, out, then, got, gvars, errors, crashes>>

UnlinkMeta(t) ==
  /\ pc[t] = "unlinkm" /\ Goto(t, then[t])
  /\ disk' = [disk EXCEPT !["meta"][victim[t]] = None]
  /\ victim' = [victim EXCEPT ![t] = None] /\ out' = [out EXCEPT ![t] = None]
  /\ UNCHANGED <<index, tmp, cvars, part, then, got, gvars, errors, crashes>>

-----------------------------------------------------------------------------
(* get                                                                     *)

\* entry.disk_path.read_bytes()
Read(t) ==
  LET found == disk["content"][file[t]] IN
  /\ pc[t] = "read"
  /\ \/ /\ found # None
        /\ got' = [got EXCEPT ![t] = found]
        /\ Goto(t, "touch") /\ UNCHANGED errors
     \/ /\ found = None \/ errors < MaxErrors
        /\ errors' = IF found = None THEN errors ELSE errors + 1
        /\ Goto(t, "drop") /\ UNCHANGED got
  /\ UNCHANGED <<index, disk, tmp, cvars, part, victim, out, then, gvars, crashes>>

\* The read has failed: self._remove_entry(file_id), return None
DropUnreadable(t) ==
  /\ pc[t] = "drop" /\ TakeOut(t, file[t], "ret")
  /\ UNCHANGED <<total, disk, tmp, cvars, part, got, least, issued, trimmed, errors, crashes>>

\* self._lru.move_to_end(file_id), a KeyError when the entry is gone by now
Touch(t) ==
  LET f == file[t] IN
  /\ pc[t] = "touch" /\ Goto(t, "ret")
  /\ IF rec[f] # None
     THEN lru' = Append(RemoveFirst(lru, f), f) /\ UNCHANGED got
     ELSE got' = [got EXCEPT ![t] = None] /\ UNCHANGED lru
  /\ UNCHANGED <<rec, total, disk, tmp, cvars, part, victim, out, then, gvars,
                 errors, crashes>>

-----------------------------------------------------------------------------
(* put                                                                     *)

\* tmp_path.write_bytes(data); both .tmp files have fixed names
Write(t) ==
  /\ pc[t] = "write"
  /\ \/ /\ tmp' = [tmp EXCEPT ![part[t]][file[t]] = ver[t]]
        /\ Goto(t, "rename") /\ UNCHANGED errors
     \/ /\ errors < MaxErrors /\ errors' = errors + 1
        /\ Goto(t, "unwind") /\ UNCHANGED tmp
  /\ UNCHANGED <<index, disk, cvars, part, victim, out, then, got, gvars, crashes>>

\* tmp_path.rename(path); FileNotFoundError if another put has renamed it
Rename(t) ==
  LET p == part[t]
      f == file[t] IN
  /\ pc[t] = "rename"
  /\ \/ /\ tmp[p][f] # None
        /\ disk' = [disk EXCEPT ![p][f] = tmp[p][f]]
        /\ tmp'  = [tmp EXCEPT ![p][f] = None]
        /\ part' = [part EXCEPT ![t] = "meta"]
        /\ Goto(t, IF p = "content" THEN "write" ELSE "insert")
     \/ /\ tmp[p][f] = None
        /\ Goto(t, "unwind") /\ UNCHANGED <<disk, tmp, part>>
  /\ UNCHANGED <<index, cvars, victim, out, then, got, gvars, errors, crashes>>

\* except OSError: tmp_path.unlink(missing_ok=True); raise CacheError
Unwind(t) ==
  /\ pc[t] = "unwind" /\ Goto(t, "ret")
  /\ tmp' = [tmp EXCEPT ![part[t]][file[t]] = None]
  /\ UNCHANGED <<index, disk, cvars, part, victim, out, then, got, gvars, errors, crashes>>

\* Mutant: the index is a list.
AppendedTo(f) == Append(lru, f)

\* Assigning to an existing key of an OrderedDict keeps its position.
Placed(f) == IF rec[f] = None THEN Append(lru, f) ELSE lru

\* self._lru[file_id] = entry
Insert(t) ==
  LET f == file[t] IN
  /\ pc[t] = "insert" /\ Goto(t, "count")
  /\ rec' = [rec EXCEPT ![f] = ver[t]]
  /\ lru' = Placed(f)
  /\ UNCHANGED <<total, disk, tmp, cvars, part, victim, out, then, got, gvars,
                 errors, crashes>>

\* self._total_bytes += entry.size.  This and the -= of Uncount are one step each:
\* no thread is assumed to be switched between the read and the write of either.
Count(t) ==
  /\ pc[t] = "count" /\ Goto(t, "trimb")
  /\ total' = total + Size[ver[t]]
  /\ UNCHANGED <<lru, rec, disk, tmp, cvars, part, victim, out, then, got, gvars,
                 errors, crashes>>

\* Mutant: the byte budget is off by one.
OverBytesLate == total > MaxBytes + 1

OverBytes == total > MaxBytes
OverFiles == Len(lru) > MaxFiles

\* _evict_if_needed: first while the bytes are over, then while the files are
EvictForBytes(t) ==
  /\ pc[t] = "trimb" /\ OverBytes /\ lru # <<>>
  /\ \E f \in Files : f = Head(lru) /\ TakeOut(t, f, "trimb")
  /\ UNCHANGED <<total, disk, tmp, cvars, part, got, least, issued, trimmed, errors, crashes>>

EvictForFiles(t) ==
  /\ pc[t] = "trimf" /\ OverFiles
  /\ \E f \in Files : f = Head(lru) /\ TakeOut(t, f, "trimf")
  /\ UNCHANGED <<total, disk, tmp, cvars, part, got, least, issued, trimmed, errors, crashes>>

EvictNoMore(t) ==
  /\ \/ /\ pc[t] = "trimb" /\ ~(OverBytes /\ lru # <<>>)
        /\ Goto(t, "trimf") /\ UNCHANGED trimmed
     \/ /\ pc[t] = "trimf" /\ ~OverFiles
        /\ Goto(t, "ret") /\ trimmed' = TRUE
  /\ UNCHANGED <<index, disk, tmp, cvars, part, victim, out, then, got, least, issued, clean,
                 errors, crashes>>

-----------------------------------------------------------------------------
\* .meta files that have a .content file next to them
Restorable == {f \in Files : disk["meta"][f] # None /\ disk["content"][f] # None}
BytesRestored == Bytes(Restorable, disk["meta"])

\* The process dies and the next constructor rebuilds the index, in the order in
\* which the directories are listed and without looking at the budgets.
CrashRestart ==
  /\ crashes < MaxCrashes /\ crashes' = crashes + 1
  /\ lru' \in SetToSeqs(Restorable)
  /\ rec' = [f \in Files |-> IF f \in Restorable THEN disk["meta"][f] ELSE None]
  /\ total' = BytesRestored
  /\ disk' = [disk EXCEPT !["meta"] = rec']
  /\ pc' = NoThread("idle") /\ op' = NoThread("get") /\ file' = NoThread(None)
  /\ ver' = NoThread(None) /\ part' = NoThread("content") /\ victim' = NoThread(None)
  /\ out' = NoThread(None) /\ then' = NoThread("ret") /\ got' = NoThread(None)
  /\ floor' = NoThread(0) /\ trimmed' = FALSE
  /\ UNCHANGED <<tmp, least, issued, clean, errors>>

-----------------------------------------------------------------------------
Get(t)    == Read(t) \/ DropUnreadable(t) \/ Touch(t)
Put(t)    == Write(t) \/ Rename(t) \/ Unwind(t) \/ Insert(t) \/ Count(t)
Evict(t)  == EvictForBytes(t) \/ EvictForFiles(t) \/ EvictNoMore(t)
RemoveEntry(t) == Uncount(t) \/ UnlinkContent(t) \/ UnlinkMeta(t)

Next ==
  \/ \E t \in Threads :
       \/ \E f \in Files : CallGet(t, f) \/ CallPut(t, f) \/ CallInvalidate(t, f)
       \/ Get(t) \/ Put(t) \/ Evict(t) \/ RemoveEntry(t) \/ Return(t)
  \/ CrashRestart

Spec == Init /\ [][Next]_vars

-----------------------------------------------------------------------------
(* Properties.                                                             *)

Quiet == \A t \in Threads : pc[t] = "idle"

Indexed == {f \in Files : rec[f] # None}
BytesIndexed == Bytes(Indexed, rec)
BytesAt(point, v) == Bytes({t \in Threads : pc[t] = point}, v)

\* However calls interleave, _total_bytes never falls below the sizes of the
\* indexed files, but for what a thread is just about to add: were it too
\* small, evictions would come too late for ever.
NeverUndercounts ==
  total + BytesAt("count", ver) >= BytesIndexed + BytesAt("uncount", out)

\* Between calls the index is within both budgets, once a put has finished
\* since the start: no interleaving of inserts and evictions escapes them.
BudgetKept ==
  Quiet /\ trimmed => BytesIndexed <= MaxBytes /\ Len(lru) <= MaxFiles

\* While nobody else worked on a file beside its puts and invalidations, the
\* count is exact between calls and every indexed file is there.
CountExact ==
  Quiet /\ (\A f \in Files : clean[f])
    => total = BytesIndexed /\ \A f \in Indexed : disk["content"][f] # None

\* Whenever the process dies, a .meta file does not describe another content
\* than the one beside it, so the restored sizes are those of the files.
SidecarsAgree ==
  \A f \in Restorable : clean[f] => disk["meta"][f] = disk["content"][f]

\* A hit is at least as new as the last put that had returned, or failed, when
\* the get began, and never something invalidated before.
HitsFresh ==
  \A t \in Threads :
    pc[t] = "ret" /\ got[t] # None /\ clean[file[t]] => got[t] >= floor[t]
=============================================================================
