------------------------------- MODULE DirLoad -------------------------------
(***************************************************************************)
(* DirTree.load_dir (clawfuse/dirtree.py): FUSE threads and the workers of *)
(* the background load call it for the same directories.  A set _loading   *)
(* guarded by a condition variable keeps two threads from fetching one     *)
(* directory, a table of failure times stops callers for five seconds      *)
(* after a failed fetch.                                                   *)
(*                                                                         *)
(* A listing is abstracted to one fact: the directory's entries have been  *)
(* merged into the index (merges counts how often, because merging appends *)
(* to the children lists).                                                 *)
(***************************************************************************)
EXTENDS Naturals, FiniteSets

CONSTANTS
  Dirs,         \* directory ids
  Threads,      \* the threads that call load_dir
  None,         \* no directory
  MaxCalls,     \* bound: calls per thread
  MaxTroubles   \* bound: failing fetches, and waits that run into
                \* _load_wait_timeout, together

ASSUME NoneAssumption == None \notin Dirs
ASSUME LoadBoundAssumption ==
  MaxCalls \in Nat /\ MaxTroubles \in Nat

VARIABLES
  loaded,    \* _loaded_dirs
  loading,   \* _loading
  failed,    \* _failed_dirs: "no", "recent" (inside the cooldown) or "old"
  merges,    \* how often the entries of the directory were merged
  pc,        \* thread -> control point inside load_dir
  dir,       \* thread -> the directory of its current or last call
  result,    \* thread -> how its last call ended
  calls, failures, timeouts

loadVars == <<loaded, loading, failed, merges, pc, dir, result, calls, failures, timeouts>>

\* The thread has put its directory into _loading and not yet taken it out.
LoaderPoints == {"fetch", "merge", "okrec", "failrec", "okleave", "failleave"}
Points  == {"idle", "breaker", "enter", "wait", "woken"} \cup LoaderPoints
Results == {"none", "loaded", "skipped", "waited", "timeout", "raised"}

TypeOK ==
  /\ loaded \subseteq Dirs /\ loading \subseteq Dirs
  /\ failed \in [Dirs -> {"no", "recent", "old"}]
  /\ merges \in [Dirs -> Nat]
  /\ pc     \in [Threads -> Points]
  /\ dir    \in [Threads -> Dirs \cup {None}]
  /\ result \in [Threads -> Results]
  /\ calls  \in [Threads -> 0..MaxCalls]
  /\ failures \in 0..MaxTroubles
  /\ timeouts \in 0..MaxTroubles

Init ==
  /\ loaded = {} /\ loading = {}
  /\ failed = [d \in Dirs |-> "no"]
  /\ merges = [d \in Dirs |-> 0]
  /\ pc     = [t \in Threads |-> "idle"]
  /\ dir    = [t \in Threads |-> None]
  /\ result = [t \in Threads |-> "none"]
  /\ calls  = [t \in Threads |-> 0]
  /\ failures = 0 /\ timeouts = 0

-----------------------------------------------------------------------------
Goto(t, point) == pc' = [pc EXCEPT ![t] = point] /\ UNCHANGED result

Return(t, how) ==
  /\ pc' = [pc EXCEPT ![t] = "idle"]
  /\ result' = [result EXCEPT ![t] = how]

\* The call, and the check of _loaded_dirs without the lock.
Call(t, d) ==
  /\ pc[t] = "idle" /\ calls[t] < MaxCalls
  /\ calls' = [calls EXCEPT ![t] = @ + 1]
  /\ dir' = [dir EXCEPT ![t] = d]
  /\ IF d \in loaded
     THEN Return(t, "loaded")
     ELSE /\ pc' = [pc EXCEPT ![t] = "breaker"]
          /\ result' = [result EXCEPT ![t] = "none"]
  /\ UNCHANGED <<loaded, loading, failed, merges, failures, timeouts>>

\* with self._lock: return if the directory failed less than 5 s ago
Breaker(t) ==
  /\ pc[t] = "breaker"
  /\ IF failed[dir[t]] = "recent" THEN Return(t, "skipped") ELSE Goto(t, "enter")
  /\ UNCHANGED <<loaded, loading, failed, merges, dir, calls, failures, timeouts>>

\* Mutant: _loading is not looked at.
BeingLoadedUnchecked(d) == FALSE

AlreadyLoaded(d) == d \in loaded
BeingLoaded(d)   == d \in loading

\* with self._load_condition: double-check, wait for the loader, or load
Enter(t) ==
  LET d == dir[t] IN
  /\ pc[t] = "enter"
  /\ \/ /\ AlreadyLoaded(d)
        /\ Return(t, "loaded") /\ UNCHANGED loading
     \/ /\ ~AlreadyLoaded(d) /\ BeingLoaded(d)
        /\ Goto(t, "wait") /\ UNCHANGED loading
     \/ /\ ~AlreadyLoaded(d) /\ ~BeingLoaded(d)
        /\ Goto(t, "fetch")
        /\ loading' = loading \cup {d}
  /\ UNCHANGED <<loaded, failed, merges, dir, calls, failures, timeouts>>

\* Mutant: if instead of while.
MustWaitOnOnce(d) == FALSE

MustWaitOn(d) == d \in loading

\* while dir_id in self._loading: re-checked after every wake-up
Woken(t) ==
  /\ pc[t] = "woken"
  /\ IF MustWaitOn(dir[t]) THEN Goto(t, "wait") ELSE Return(t, "waited")
  /\ UNCHANGED <<loaded, loading, failed, merges, dir, calls, failures, timeouts>>

\* remaining <= 0 while the loader is still at work
WaitTimeout(t) ==
  /\ pc[t] = "wait" /\ dir[t] \in loading
  /\ failures + timeouts < MaxTroubles
  /\ timeouts' = timeouts + 1
  /\ Return(t, "timeout")
  /\ UNCHANGED <<loaded, loading, failed, merges, dir, calls, failures>>

\* The list_files calls of _load_dir_from_api, outside the lock.
Fetch(t) ==
  /\ pc[t] = "fetch"
  /\ \/ Goto(t, "merge") /\ UNCHANGED failures
     \/ /\ failures + timeouts < MaxTroubles
        /\ failures' = failures + 1
        /\ Goto(t, "failrec")
  /\ UNCHANGED <<loaded, loading, failed, merges, dir, calls, timeouts>>

\* with self._lock: the entries enter the index, the directory is loaded
Merge(t) ==
  /\ pc[t] = "merge"
  /\ merges' = [merges EXCEPT ![dir[t]] = @ + 1]
  /\ loaded' = loaded \cup {dir[t]}
  /\ Goto(t, "okrec")
  /\ UNCHANGED <<loading, failed, dir, calls, failures, timeouts>>

ClearFailure(t) ==
  /\ pc[t] = "okrec"
  /\ failed' = [failed EXCEPT ![dir[t]] = "no"]
  /\ Goto(t, "okleave")
  /\ UNCHANGED <<loaded, loading, merges, dir, calls, failures, timeouts>>

RecordFailure(t) ==
  /\ pc[t] = "failrec"
  /\ failed' = [failed EXCEPT ![dir[t]] = "recent"]
  /\ Goto(t, "failleave")
  /\ UNCHANGED <<loaded, loading, merges, dir, calls, failures, timeouts>>

\* Mutants: nobody is notified; the mark is only taken back after a success.
WakeNobody(t) == [pc EXCEPT ![t] = "idle"]
UnmarkOnSuccess(t) == IF pc[t] = "okleave" THEN loading \ {dir[t]} ELSE loading

\* notify_all wakes the waiters of every directory: there is one condition.
WakeAll(t) ==
  [v \in Threads |-> IF v = t THEN "idle" ELSE IF pc[v] = "wait" THEN "woken" ELSE pc[v]]
Unmark(t) == loading \ {dir[t]}

\* finally: self._loading.discard(dir_id), self._load_condition.notify_all()
Leave(t) ==
  /\ pc[t] \in {"okleave", "failleave"}
  /\ loading' = Unmark(t)
  /\ pc' = WakeAll(t)
  /\ result' = [result EXCEPT ![t] = IF pc[t] = "okleave" THEN "loaded" ELSE "raised"]
  /\ UNCHANGED <<loaded, failed, merges, dir, calls, failures, timeouts>>

\* Five seconds have passed since the failure.
CooldownEnds(d) ==
  /\ failed[d] = "recent"
  /\ failed' = [failed EXCEPT ![d] = "old"]
  /\ UNCHANGED <<loaded, loading, merges, pc, dir, result, calls, failures, timeouts>>

\* What a thread inside load_dir does next, time-outs apart.
LoadStep(t) ==
  \/ Breaker(t) \/ Enter(t) \/ Woken(t) \/ Fetch(t) \/ Merge(t)
  \/ ClearFailure(t) \/ RecordFailure(t) \/ Leave(t)

Next ==
  \/ \E t \in Threads : LoadStep(t) \/ WaitTimeout(t) \/ \E d \in Dirs : Call(t, d)
  \/ \E d \in Dirs : CooldownEnds(d)

Spec == Init /\ [][Next]_loadVars

-----------------------------------------------------------------------------
(* Properties.                                                             *)

IsLoader(t, d) == pc[t] \in LoaderPoints /\ dir[t] = d

\* No two threads fetch or merge the same directory at the same time, and a
\* directory is marked in _loading exactly while somebody works on it: a mark
\* left behind would make every later caller wait for nothing.
OneLoader ==
  \A d \in Dirs :
    /\ \A t, v \in Threads : IsLoader(t, d) /\ IsLoader(v, d) => t = v
    /\ d \in loading <=> \E t \in Threads : IsLoader(t, d)

\* The entries of a directory are merged once, however many threads ask and
\* however often a fetch failed before (a second merge would list every entry
\* twice).
MergedOnce == \A d \in Dirs : merges[d] = IF d \in loaded THEN 1 ELSE 0

\* A call that neither raised nor timed out leaves the directory loaded, as
\* long as no fetch has ever failed.
ReturnMeansLoaded ==
  \A t \in Threads :
    failures = 0 /\ result[t] \in {"loaded", "waited", "skipped"} => dir[t] \in loaded

\* Every call returns, though no wait ever times out: no wake-up is lost.
CallsReturn == \A t \in Threads : pc[t] # "idle" ~> pc[t] = "idle"

\* The threads together keep the promise of LoadOnce.
PhaseOf(d) ==
  IF d \in loaded THEN "present" ELSE IF d \in loading THEN "fetching" ELSE "absent"

Promise == INSTANCE LoadOnce WITH
  phase  <- [d \in Dirs |-> PhaseOf(d)],
  copies <- merges

LoadsOnce == Promise!Spec
=============================================================================
