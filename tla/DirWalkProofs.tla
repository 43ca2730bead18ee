----------------------------- MODULE DirWalkProofs -----------------------------
(***************************************************************************)
(* Theorems about DirLoad, for any number of threads and directories, and  *)
(* about DirWalk, for any tree and any number of FUSE threads and workers. *)
(* What is shown of load_dir carries over to its two callers, because they *)
(* take no step of it that DirLoad does not have.                          *)
(***************************************************************************)
EXTENDS DirWalk, TLAPS

\* A thread inside load_dir has a directory; one that fetches, merges or has
\* failed works on a directory that is not loaded.
CallInv ==
  \A t \in Threads :
    /\ pc[t] # "idle" => dir[t] \in Dirs
    /\ pc[t] \in {"fetch", "merge", "failrec", "failleave"} => dir[t] \notin loaded
    /\ pc[t] \in {"okrec", "okleave"} => dir[t] \in loaded

\* Until a fetch fails, whoever waits for a directory finds it loaded in the
\* end, and nothing is ever skipped.
NoFailInv ==
  failures = 0 =>
    /\ \A d \in Dirs : failed[d] = "no"
    /\ \A t \in Threads :
         /\ pc[t] \notin {"failrec", "failleave"}
         /\ pc[t] \in {"wait", "woken"} => dir[t] \in loading \cup loaded
         /\ result[t] \in {"loaded", "waited", "skipped"} => dir[t] \in loaded

LoadInv == TypeOK /\ CallInv /\ OneLoader /\ MergedOnce /\ NoFailInv

LEMMA InitLoadInv == Init => LoadInv
BY LoadBoundAssumption
DEF Init, LoadInv, TypeOK, CallInv, OneLoader, MergedOnce, NoFailInv, IsLoader,
    Points, LoaderPoints, Results

\* A step of one thread that starts and ends no loading keeps OneLoader.
LEMMA OneLoaderFrame ==
  ASSUME OneLoader, UNCHANGED <<dir, loading>>,
         \A v \in Threads : pc'[v] \in LoaderPoints <=> pc[v] \in LoaderPoints
  PROVE  OneLoader'
BY DEF OneLoader, IsLoader

LEMMA StepLoadInv ==
  ASSUME LoadInv, Next
  PROVE  LoadInv'
<1> USE DEF LoadInv
<1>0. \A t \in Threads : pc[t] \in LoaderPoints => dir[t] \in loading /\ dir[t] \in Dirs
  BY DEF OneLoader, IsLoader, CallInv, LoaderPoints, TypeOK
<1>1. ASSUME NEW t \in Threads, NEW d \in Dirs, Call(t, d) PROVE LoadInv'
  <2>1. TypeOK'
    BY <1>1, LoadBoundAssumption DEF Call, Return, TypeOK, Points, Results
  <2>2. CallInv' /\ MergedOnce' /\ NoFailInv'
    BY <1>1 DEF Call, Return, TypeOK, CallInv, MergedOnce, NoFailInv
  <2>3. OneLoader'
    BY <1>1 DEF Call, Return, TypeOK, OneLoader, IsLoader, LoaderPoints
  <2> QED
    BY <2>1, <2>2, <2>3
<1>2. ASSUME NEW t \in Threads, Breaker(t) PROVE LoadInv'
  <2>1. TypeOK' /\ CallInv' /\ MergedOnce' /\ NoFailInv'
    BY <1>2 DEF Breaker, Return, Goto, TypeOK, Points, Results, CallInv, MergedOnce, NoFailInv
  <2>2. OneLoader'
    BY <1>2, OneLoaderFrame DEF Breaker, Return, Goto, TypeOK, LoaderPoints
  <2> QED
    BY <2>1, <2>2
<1>3. ASSUME NEW t \in Threads, Enter(t) PROVE LoadInv'
  <2> USE DEF AlreadyLoaded, BeingLoaded
  <2>0. pc[t] = "enter" /\ dir[t] \in Dirs
    BY <1>3 DEF Enter, CallInv
  <2>1. CASE dir[t] \in loaded \/ dir[t] \in loading
    <3>1. TypeOK' /\ CallInv' /\ MergedOnce' /\ NoFailInv'
      BY <1>3, <2>0, <2>1
      DEF Enter, Return, Goto, TypeOK, Points, Results, CallInv, MergedOnce, NoFailInv
    <3>2. OneLoader'
      BY <1>3, <2>0, <2>1, OneLoaderFrame DEF Enter, Return, Goto, TypeOK, LoaderPoints
    <3> QED
      BY <3>1, <3>2
  <2>2. CASE dir[t] \notin loaded /\ dir[t] \notin loading
    <3>1. TypeOK' /\ CallInv' /\ MergedOnce' /\ NoFailInv'
      BY <1>3, <2>0, <2>2
      DEF Enter, Return, Goto, TypeOK, Points, LoaderPoints, CallInv, MergedOnce, NoFailInv
    <3>2. OneLoader'
      BY <1>3, <2>0, <2>2
      DEF Enter, Return, Goto, TypeOK, LoaderPoints, OneLoader, IsLoader
    <3> QED
      BY <3>1, <3>2
  <2> QED
    BY <2>1, <2>2
<1>4. ASSUME NEW t \in Threads, Woken(t) PROVE LoadInv'
  <2>1. TypeOK' /\ CallInv' /\ MergedOnce' /\ NoFailInv'
    BY <1>4
    DEF Woken, MustWaitOn, Return, Goto, TypeOK, Points, Results, CallInv, MergedOnce, NoFailInv
  <2>2. OneLoader'
    BY <1>4, OneLoaderFrame DEF Woken, Return, Goto, TypeOK, LoaderPoints
  <2> QED
    BY <2>1, <2>2
<1>5. ASSUME NEW t \in Threads, WaitTimeout(t) PROVE LoadInv'
  <2>1. TypeOK' /\ CallInv' /\ MergedOnce' /\ NoFailInv'
    BY <1>5, LoadBoundAssumption
    DEF WaitTimeout, Return, TypeOK, Points, Results, CallInv, MergedOnce, NoFailInv
  <2>2. OneLoader'
    BY <1>5, OneLoaderFrame DEF WaitTimeout, Return, TypeOK, LoaderPoints
  <2> QED
    BY <2>1, <2>2
<1>6. ASSUME NEW t \in Threads, Fetch(t) PROVE LoadInv'
  <2>1. TypeOK' /\ CallInv' /\ MergedOnce' /\ NoFailInv'
    BY <1>6, LoadBoundAssumption
    DEF Fetch, Goto, TypeOK, Points, LoaderPoints, CallInv, MergedOnce, NoFailInv
  <2>2. OneLoader'
    BY <1>6, OneLoaderFrame DEF Fetch, Goto, TypeOK, LoaderPoints
  <2> QED
    BY <2>1, <2>2
<1>7. ASSUME NEW t \in Threads, Merge(t) PROVE LoadInv'
  <2>1. pc[t] = "merge" /\ dir[t] \in Dirs /\ dir[t] \notin loaded /\ merges[dir[t]] = 0
    BY <1>7 DEF Merge, CallInv, MergedOnce
  <2>2. TypeOK' /\ MergedOnce' /\ NoFailInv'
    BY <1>7, <2>1 DEF Merge, Goto, TypeOK, Points, LoaderPoints, MergedOnce, NoFailInv
  <2>3. \A v \in Threads : v # t /\ pc[v] \in LoaderPoints => dir[v] # dir[t]
    BY <2>1 DEF OneLoader, IsLoader, LoaderPoints
  <2>4. CallInv'
    BY <1>7, <2>1, <2>3 DEF Merge, Goto, TypeOK, CallInv, LoaderPoints
  <2>5. OneLoader'
    BY <1>7, OneLoaderFrame DEF Merge, Goto, TypeOK, LoaderPoints
  <2> QED
    BY <2>2, <2>4, <2>5
<1>8. ASSUME NEW t \in Threads, ClearFailure(t) PROVE LoadInv'
  <2>1. TypeOK' /\ CallInv' /\ MergedOnce' /\ NoFailInv'
    BY <1>8 DEF ClearFailure, Goto, TypeOK, Points, LoaderPoints, CallInv, MergedOnce, NoFailInv
  <2>2. OneLoader'
    BY <1>8, OneLoaderFrame DEF ClearFailure, Goto, TypeOK, LoaderPoints
  <2> QED
    BY <2>1, <2>2
<1>9. ASSUME NEW t \in Threads, RecordFailure(t) PROVE LoadInv'
  <2>1. TypeOK' /\ CallInv' /\ MergedOnce' /\ NoFailInv'
    BY <1>9 DEF RecordFailure, Goto, TypeOK, Points, LoaderPoints, CallInv, MergedOnce, NoFailInv
  <2>2. OneLoader'
    BY <1>9, OneLoaderFrame DEF RecordFailure, Goto, TypeOK, LoaderPoints
  <2> QED
    BY <2>1, <2>2
<1>10. ASSUME NEW t \in Threads, Leave(t) PROVE LoadInv'
  <2>1. pc[t] \in {"okleave", "failleave"} /\ pc[t] \in LoaderPoints /\ dir[t] \in Dirs
    BY <1>10 DEF Leave, LoaderPoints, CallInv
  <2>2. /\ pc' \in [Threads -> Points]
        /\ pc'[t] = "idle"
        /\ \A v \in Threads \ {t} : pc'[v] = IF pc[v] = "wait" THEN "woken" ELSE pc[v]
    BY <1>10 DEF Leave, WakeAll, TypeOK, Points
  <2>3. TypeOK'
    BY <1>10, <2>2 DEF Leave, Unmark, TypeOK, Results
  <2>4. CallInv' /\ MergedOnce'
    BY <1>10, <2>2 DEF Leave, CallInv, MergedOnce
  <2>5. NoFailInv'
    BY <1>10, <2>1, <2>2 DEF Leave, Unmark, NoFailInv, TypeOK, CallInv
  <2>6. OneLoader'
    BY <1>10, <2>1, <2>2 DEF Leave, Unmark, OneLoader, IsLoader, LoaderPoints
  <2> QED
    BY <2>3, <2>4, <2>5, <2>6
<1>11. ASSUME NEW d \in Dirs, CooldownEnds(d) PROVE LoadInv'
  BY <1>11 DEF CooldownEnds, TypeOK, CallInv, OneLoader, IsLoader, MergedOnce, NoFailInv
<1> QED
  BY <1>1, <1>2, <1>3, <1>4, <1>5, <1>6, <1>7, <1>8, <1>9, <1>10, <1>11 DEF Next, LoadStep

LEMMA LoadInvariant == Spec => []LoadInv
<1>1. LoadInv /\ UNCHANGED loadVars => LoadInv'
  BY DEF loadVars, LoadInv, TypeOK, CallInv, OneLoader, IsLoader, MergedOnce, NoFailInv
<1> QED
  BY <1>1, InitLoadInv, StepLoadInv, PTL DEF Spec

\* No two threads work on one directory, and no mark is left behind in
\* _loading, through failures and time-outs.
THEOREM OneLoaderHolds == Spec => []OneLoader
BY LoadInvariant, PTL DEF LoadInv

\* The entries of a directory are merged into the index exactly once.
THEOREM MergedOnceHolds == Spec => []MergedOnce
BY LoadInvariant, PTL DEF LoadInv

\* Without a failed fetch every call that does not time out leaves its
\* directory loaded.
THEOREM ReturnMeansLoadedHolds == Spec => []ReturnMeansLoaded
<1>1. LoadInv => ReturnMeansLoaded
  BY DEF LoadInv, NoFailInv, ReturnMeansLoaded
<1> QED
  BY <1>1, LoadInvariant, PTL

-----------------------------------------------------------------------------
(* DirLoad implements LoadOnce.                                            *)

LEMMA InitRefines == Init => Promise!Init
BY DEF Init, Promise!Init, PhaseOf

\* One directory changes its phase.
LEMMA OnePhase ==
  ASSUME NEW x \in Dirs, NEW ph,
         \A d \in Dirs : PhaseOf(d)' = IF d = x THEN ph ELSE PhaseOf(d)
  PROVE  [d \in Dirs |-> PhaseOf(d)]' = [[d \in Dirs |-> PhaseOf(d)] EXCEPT ![x] = ph]
OBVIOUS

LEMMA StepRefines ==
  ASSUME LoadInv, LoadInv', [Next]_loadVars
  PROVE  [Promise!Next]_<<[d \in Dirs |-> PhaseOf(d)], merges>>
<1> USE DEF LoadInv
<1>1. ASSUME UNCHANGED <<loaded, loading, merges>>
      PROVE  UNCHANGED <<[d \in Dirs |-> PhaseOf(d)], merges>>
  BY <1>1 DEF PhaseOf
<1>2. ASSUME NEW t \in Threads, Enter(t)
      PROVE  Promise!Next \/ UNCHANGED <<loaded, loading, merges>>
  <2>1. CASE dir[t] \in loaded \/ dir[t] \in loading
    BY <1>2, <2>1 DEF Enter, AlreadyLoaded, BeingLoaded
  <2>2. CASE dir[t] \notin loaded /\ dir[t] \notin loading
    <3>1. dir[t] \in Dirs /\ loading' = loading \cup {dir[t]} /\ UNCHANGED <<loaded, merges>>
      BY <1>2, <2>2 DEF Enter, AlreadyLoaded, BeingLoaded, CallInv
    <3>2. \A d \in Dirs : PhaseOf(d)' = IF d = dir[t] THEN "fetching" ELSE PhaseOf(d)
      BY <2>2, <3>1 DEF PhaseOf
    <3>3. PhaseOf(dir[t]) = "absent"
      BY <2>2 DEF PhaseOf
    <3>4. Promise!Begin(dir[t])
      BY <3>1, <3>2, <3>3, OnePhase DEF Promise!Begin
    <3>5. dir[t] \in Dirs
      BY <3>1
    <3> QED
      BY <3>4, <3>5 DEF Promise!Next
  <2> QED
    BY <2>1, <2>2
<1>3. ASSUME NEW t \in Threads, Merge(t) PROVE Promise!Next
  <2>1. dir[t] \in Dirs /\ dir[t] \notin loaded
    BY <1>3 DEF Merge, CallInv
  <2>2. dir[t] \in loading
    BY <1>3, <2>1 DEF Merge, OneLoader, IsLoader, LoaderPoints
  <2>3. merges[dir[t]] = 0
    BY <2>1 DEF MergedOnce
  <2>4. merges' = [merges EXCEPT ![dir[t]] = 1]
    BY <1>3, <2>3 DEF Merge
  <2>5. \A d \in Dirs : PhaseOf(d)' = IF d = dir[t] THEN "present" ELSE PhaseOf(d)
    BY <1>3, <2>1 DEF Merge, PhaseOf
  <2>6. PhaseOf(dir[t]) = "fetching"
    BY <2>1, <2>2 DEF PhaseOf
  <2>7. Promise!Complete(dir[t])
    BY <2>1, <2>4, <2>5, <2>6, OnePhase DEF Promise!Complete
  <2> QED
    BY <2>1, <2>7 DEF Promise!Next
<1>4. ASSUME NEW t \in Threads, Leave(t)
      PROVE  Promise!Next \/ UNCHANGED <<[d \in Dirs |-> PhaseOf(d)], merges>>
  <2>1. /\ dir[t] \in Dirs /\ dir[t] \in loading
        /\ loading' = loading \ {dir[t]} /\ UNCHANGED <<loaded, merges>>
    BY <1>4 DEF Leave, Unmark, CallInv, OneLoader, IsLoader, LoaderPoints
  <2>2. CASE dir[t] \in loaded
    BY <2>1, <2>2 DEF PhaseOf
  <2>3. CASE dir[t] \notin loaded
    <3>1. \A d \in Dirs : PhaseOf(d)' = IF d = dir[t] THEN "absent" ELSE PhaseOf(d)
      BY <2>1, <2>3 DEF PhaseOf
    <3>2. PhaseOf(dir[t]) = "fetching"
      BY <2>1, <2>3 DEF PhaseOf
    <3>3. Promise!Abandon(dir[t])
      BY <2>1, <3>1, <3>2, OnePhase DEF Promise!Abandon
    <3> QED
      BY <2>1, <3>3 DEF Promise!Next
  <2> QED
    BY <2>2, <2>3
<1>5. ASSUME NEW t \in Threads,
             Breaker(t) \/ Woken(t) \/ WaitTimeout(t) \/ Fetch(t) \/ ClearFailure(t)
               \/ RecordFailure(t) \/ \E d \in Dirs : Call(t, d)
      PROVE  UNCHANGED <<loaded, loading, merges>>
  BY <1>5 DEF Breaker, Woken, WaitTimeout, Fetch, ClearFailure, RecordFailure, Call
<1>6. ASSUME NEW d \in Dirs, CooldownEnds(d) PROVE UNCHANGED <<loaded, loading, merges>>
  BY <1>6 DEF CooldownEnds
<1> QED
  BY <1>1, <1>2, <1>3, <1>4, <1>5, <1>6 DEF Next, LoadStep, loadVars

\* Threads, waiting, the cooldown and failures included, load_dir does what
\* LoadOnce says: one fetch at a time per directory, merged once, for good.
THEOREM Implements == Spec => LoadsOnce
<1>1. LoadInv /\ LoadInv' /\ [Next]_loadVars
        => [Promise!Next]_<<[d \in Dirs |-> PhaseOf(d)], merges>>
  BY StepRefines
<1> QED
  BY <1>1, InitRefines, LoadInvariant, PTL DEF Spec, LoadsOnce, Promise!Spec

-----------------------------------------------------------------------------
(* The callers of load_dir.                                                  *)

\* The variables that DirWalk adds to those of DirLoad keep their types.
CallerTypeOK ==
  /\ goal \in [Walkers -> Dirs \cup {None}]
  /\ last \in [Walkers -> BOOLEAN]
  /\ outcome \in [Walkers -> {"none", "returned", "raised"}]
  /\ batch \subseteq Dirs /\ todo \subseteq Dirs /\ found \subseteq Dirs
  /\ flying \in [Workers -> Dirs \cup {None}]
  /\ bgDone \in BOOLEAN

\* A walk, or a worker with a directory, has called load_dir for a directory;
\* a worker for the one it was given.
CallerInv ==
  /\ \A t \in Walkers : goal[t] # None => dir[t] \in Dirs
  /\ \A w \in Workers : flying[w] # None => flying[w] = dir[w]

\* Until a fetch fails or a wait times out, a call that is over has ended well.
EndedWell ==
  failures = 0 /\ timeouts = 0 =>
    \A t \in Threads :
      /\ result[t] \notin {"raised", "timeout"}
      /\ pc[t] = "idle" /\ dir[t] # None => result[t] # "none"

\* A batch begins when the one before is over, and bgDone comes after the last.
BatchInv ==
  /\ batch # {} => todo = {} /\ found = {} /\ \A w \in Workers : flying[w] = None
  /\ bgDone => BatchOver /\ found = {}

\* What the search still has before it.
Pending == batch \cup todo \cup found \cup {flying[w] : w \in Workers}

\* Until something goes wrong, there are directories done with (D): all loaded,
\* and all their children done with or before the search, the root included.
SearchInv ==
  failures = 0 /\ timeouts = 0 =>
    \E D \in SUBSET loaded :
      /\ Root \in D \cup Pending
      /\ \A d \in D : Children(d) \subseteq D \cup Pending

WalkInv == LoadInv /\ CallerTypeOK /\ CallerInv /\ EndedWell /\ BatchInv /\ SearchInv

LEMMA ThreadSets == Walkers \subseteq Threads /\ Workers = Threads \ Walkers
BY TreeAssumption DEF Workers

LEMMA ChildrenAreDirs == \A d : Children(d) \subseteq Dirs /\ Known(d) \subseteq Dirs
BY DEF Children, Known

LEMMA InitWalkInv == WalkInit => WalkInv
<1> SUFFICES ASSUME WalkInit PROVE WalkInv
  OBVIOUS
<1>1. LoadInv
  BY InitLoadInv DEF WalkInit
<1>2. CallerTypeOK /\ CallerInv /\ BatchInv
  BY TreeAssumption DEF WalkInit, CallerTypeOK, CallerInv, BatchInv
<1>3. EndedWell
  BY DEF WalkInit, Init, EndedWell
<1>4. SearchInv
  <2>1. {} \in SUBSET loaded /\ Root \in {} \cup Pending
    BY DEF WalkInit, Pending
  <2> QED
    BY <2>1 DEF SearchInv
<1> QED
  BY <1>1, <1>2, <1>3, <1>4 DEF WalkInv

\* Every step of a walk or of the background load is one of load_dir or leaves
\* it alone.
LEMMA WalkStepLoads ==
  ASSUME CallerTypeOK, CallerInv, WalkNext
  PROVE  [Next]_loadVars
<1>1. ASSUME NEW t \in Threads, NEW d \in Dirs, Call(t, d) PROVE Next
  BY <1>1 DEF Next
<1>2. ASSUME NEW t \in Walkers, Walk(t) PROVE [Next]_loadVars
  <2>1. CASE WalkDown(t)
    <3>1. dir[t] \in Dirs /\ t \in Threads
      BY <2>1, ThreadSets DEF WalkDown, CallerInv
    <3>2. PICK d \in Dirs : Call(t, d)
      BY <2>1, <3>1, ChildrenAreDirs DEF WalkDown
    <3> QED
      BY <1>1, <3>1, <3>2
  <2>2. CASE WalkEnd(t)
    BY <2>2 DEF WalkEnd
  <2> QED
    BY <1>2, <2>1, <2>2 DEF Walk
<1>3. ASSUME NEW t \in Walkers, NEW g \in Dirs, WalkStart(t, g) PROVE Next
  <2>1. t \in Threads /\ Root \in Dirs /\ Call(t, Root)
    BY <1>3, ThreadSets, TreeAssumption DEF WalkStart
  <2> QED
    BY <1>1, <2>1
<1>4. CASE Background
  <2>1. CASE BgSubmit \/ BgNext \/ BgComplete
    BY <2>1 DEF BgSubmit, BgNext, BgComplete
  <2>2. ASSUME NEW w \in Workers, BgTake(w) PROVE Next
    <3>1. PICK d \in todo : Call(w, d)
      BY <2>2 DEF BgTake
    <3>2. d \in Dirs /\ w \in Threads
      BY <3>1, ThreadSets DEF CallerTypeOK
    <3> QED
      BY <1>1, <3>1, <3>2
  <2>3. ASSUME NEW w \in Workers, BgCollect(w) PROVE UNCHANGED loadVars
    BY <2>3 DEF BgCollect
  <2> QED
    BY <1>4, <2>1, <2>2, <2>3 DEF Background
<1>5. ASSUME NEW t \in Threads, (LoadStep(t) \/ WaitTimeout(t)) /\ Inside PROVE Next
  BY <1>5 DEF Next
<1>6. ASSUME NEW d \in Dirs, CooldownEnds(d) PROVE Next
  BY <1>6 DEF Next
<1> QED
  BY <1>2, <1>3, <1>4, <1>5, <1>6 DEF WalkNext

LEMMA LoadInvKept ==
  ASSUME WalkInv, WalkNext
  PROVE  LoadInv'
<1>1. [Next]_loadVars
  BY WalkStepLoads DEF WalkInv
<1>2. CASE Next
  BY <1>2, StepLoadInv DEF WalkInv
<1>3. CASE UNCHANGED loadVars
  BY <1>3 DEF WalkInv, loadVars, LoadInv, TypeOK, CallInv, OneLoader, IsLoader,
      MergedOnce, NoFailInv
<1> QED
  BY <1>1, <1>2, <1>3

-----------------------------------------------------------------------------
(* Steps inside load_dir.                                                  *)

\* They keep the directory of every call, and end one well unless something
\* goes wrong.
LEMMA LoadStepFrame ==
  ASSUME LoadInv, NEW t \in Threads, LoadStep(t) \/ WaitTimeout(t)
  PROVE  /\ UNCHANGED dir /\ loaded \subseteq loaded'
         /\ failures' = 0 /\ timeouts' = 0 => failures = 0 /\ timeouts = 0
<1>1. failures \in Nat /\ timeouts \in Nat
  BY LoadBoundAssumption DEF LoadInv, TypeOK
<1>2. CASE LoadStep(t)
  BY <1>1, <1>2
  DEF LoadStep, Breaker, Enter, Woken, Fetch, Merge, ClearFailure, RecordFailure, Leave
<1>3. CASE WaitTimeout(t)
  BY <1>1, <1>3 DEF WaitTimeout
<1> QED
  BY <1>2, <1>3

LEMMA LoadStepEndsWell ==
  ASSUME LoadInv, EndedWell, NEW t \in Threads, LoadStep(t) \/ WaitTimeout(t)
  PROVE  EndedWell'
<1> SUFFICES ASSUME failures' = 0, timeouts' = 0, NEW v \in Threads
             PROVE  /\ result'[v] \notin {"raised", "timeout"}
                    /\ pc'[v] = "idle" /\ dir'[v] # None => result'[v] # "none"
  BY DEF EndedWell
<1>0. /\ failures = 0 /\ timeouts = 0 /\ UNCHANGED dir
      /\ pc \in [Threads -> Points] /\ result \in [Threads -> Results]
      /\ failures \in Nat /\ timeouts \in Nat
  BY LoadStepFrame, LoadBoundAssumption DEF LoadInv, TypeOK
<1>1. CASE Breaker(t) \/ Enter(t) \/ Woken(t)
  BY <1>0, <1>1 DEF Breaker, Enter, Woken, Goto, Return, EndedWell
<1>2. CASE Fetch(t) \/ Merge(t) \/ ClearFailure(t) \/ RecordFailure(t)
  BY <1>0, <1>2 DEF Fetch, Merge, ClearFailure, RecordFailure, Goto, EndedWell
<1>3. CASE Leave(t)
  <2>1. pc[t] = "okleave"
    BY <1>0, <1>3 DEF Leave, LoadInv, NoFailInv
  <2>2. /\ result' = [result EXCEPT ![t] = "loaded"]
        /\ v # t /\ pc'[v] = "idle" => pc[v] = "idle"
    BY <1>3, <2>1 DEF Leave, WakeAll
  <2> QED
    BY <1>0, <2>2 DEF EndedWell
<1>4. CASE WaitTimeout(t)
  BY <1>0, <1>4 DEF WaitTimeout
<1> QED
  BY <1>1, <1>2, <1>3, <1>4 DEF LoadStep

\* A call keeps what has ended well, and what is loaded.
LEMMA CallFrame ==
  ASSUME LoadInv, EndedWell, NEW t \in Threads, NEW d \in Dirs, Call(t, d)
  PROVE  /\ EndedWell' /\ dir' = [dir EXCEPT ![t] = d]
         /\ UNCHANGED <<loaded, failures, timeouts>>
BY DEF Call, Return, EndedWell, LoadInv, TypeOK

-----------------------------------------------------------------------------
(* The search.                                                             *)

\* More may be loaded at any time.
LEMMA SearchFrame ==
  ASSUME SearchInv, loaded \subseteq loaded', Pending' = Pending,
         failures' = 0 /\ timeouts' = 0 => failures = 0 /\ timeouts = 0
  PROVE  SearchInv'
<1>1. \A d : Children(d)' = Children(d)
  BY DEF Children
<1> QED
  BY <1>1 DEF SearchInv

\* The search may drop what is loaded, when it takes up its children.
LEMMA SearchExpands ==
  ASSUME SearchInv, NEW X \in SUBSET loaded, UNCHANGED <<loaded, failures, timeouts>>,
         Pending \subseteq Pending' \cup X \cup {None}, None \notin loaded, Root # None,
         \A d \in Dirs : None \notin Children(d),
         \A d \in X : Children(d) \subseteq Pending', loaded \subseteq Dirs
  PROVE  SearchInv'
<1> SUFFICES ASSUME failures = 0, timeouts = 0
             PROVE  \E D \in SUBSET loaded :
                      /\ Root \in D \cup Pending'
                      /\ \A d \in D : Children(d) \subseteq D \cup Pending'
  BY DEF SearchInv, Children
<1>1. PICK D \in SUBSET loaded :
        /\ Root \in D \cup Pending
        /\ \A d \in D : Children(d) \subseteq D \cup Pending
  BY DEF SearchInv
<1>2. D \cup X \in SUBSET loaded
  OBVIOUS
<1>3. Root \in (D \cup X) \cup Pending'
  BY <1>1
<1>4. ASSUME NEW d \in D \cup X PROVE Children(d) \subseteq (D \cup X) \cup Pending'
  BY <1>1
<1> QED
  BY <1>2, <1>3, <1>4

\* None and the root are not among the children of a directory.
LEMMA RealDirs ==
  ASSUME LoadInv
  PROVE  /\ loaded \subseteq Dirs /\ None \notin loaded /\ Root # None
         /\ \A d \in Dirs : None \notin Children(d)
BY NoneAssumption, TreeAssumption, ChildrenAreDirs DEF LoadInv, TypeOK

\* A worker whose call is over has its directory loaded, if nothing went wrong.
LEMMA CollectedIsLoaded ==
  ASSUME WalkInv, failures = 0, timeouts = 0,
         NEW w \in Workers, flying[w] # None, pc[w] = "idle"
  PROVE  flying[w] \in loaded
<1>1. w \in Threads /\ dir[w] = flying[w] /\ dir[w] # None
  BY ThreadSets DEF WalkInv, CallerInv
<1>2. result[w] \in {"loaded", "skipped", "waited"}
  BY <1>1 DEF WalkInv, EndedWell, LoadInv, TypeOK, Results
<1> QED
  BY <1>1, <1>2 DEF WalkInv, LoadInv, NoFailInv

LEMMA InsideKeeps ==
  ASSUME WalkInv, NEW t \in Threads, LoadStep(t) \/ WaitTimeout(t), Inside
  PROVE  CallerTypeOK' /\ CallerInv' /\ EndedWell' /\ BatchInv' /\ SearchInv'
<1>1. UNCHANGED <<goal, last, outcome, batch, todo, flying, found, bgDone>>
  BY DEF Inside, walkVars, bgVars
<1>2. /\ UNCHANGED dir /\ loaded \subseteq loaded'
      /\ failures' = 0 /\ timeouts' = 0 => failures = 0 /\ timeouts = 0
  BY LoadStepFrame DEF WalkInv
<1>3. CallerTypeOK' /\ CallerInv' /\ BatchInv'
  BY <1>1, <1>2 DEF WalkInv, CallerTypeOK, CallerInv, BatchInv, BatchOver
<1>4. EndedWell'
  BY LoadStepEndsWell DEF WalkInv
<1>5. SearchInv'
  <2>1. Pending' = Pending
    BY <1>1 DEF Pending, Workers
  <2> QED
    BY <1>2, <2>1, SearchFrame DEF WalkInv
<1> QED
  BY <1>3, <1>4, <1>5

LEMMA CooldownKeeps ==
  ASSUME WalkInv, NEW d \in Dirs, CooldownEnds(d), Inside
  PROVE  CallerTypeOK' /\ CallerInv' /\ EndedWell' /\ BatchInv' /\ SearchInv'
<1>1. UNCHANGED <<goal, last, outcome, batch, todo, flying, found, bgDone>>
  BY DEF Inside, walkVars, bgVars
<1>2. UNCHANGED <<dir, pc, result, loaded, failures, timeouts>>
  BY DEF CooldownEnds
<1>3. CallerTypeOK' /\ CallerInv' /\ BatchInv' /\ EndedWell'
  BY <1>1, <1>2 DEF WalkInv, CallerTypeOK, CallerInv, BatchInv, BatchOver, EndedWell
<1>4. Pending' = Pending
  BY <1>1 DEF Pending, Workers
<1> QED
  BY <1>2, <1>3, <1>4, SearchFrame DEF WalkInv

\* A FUSE thread calls load_dir, or ends its walk.
LEMMA WalkKeeps ==
  ASSUME WalkInv, NEW t \in Walkers, Walk(t) \/ \E g \in Dirs : WalkStart(t, g)
  PROVE  CallerTypeOK' /\ CallerInv' /\ EndedWell' /\ BatchInv' /\ SearchInv'
<1>1. UNCHANGED <<batch, todo, flying, found, bgDone>>
  BY DEF Walk, WalkDown, WalkEnd, WalkStart, bgVars
<1>2. BatchInv'
  BY <1>1 DEF WalkInv, BatchInv, BatchOver
<1>3. Pending' = Pending
  BY <1>1 DEF Pending, Workers
<1>4. ASSUME NEW d \in Dirs, Call(t, d),
             outcome' \in [Walkers -> {"none", "returned", "raised"}],
             goal' \in [Walkers -> Dirs \cup {None}], last' \in [Walkers -> BOOLEAN],
             \A v \in Walkers \ {t} : goal'[v] = goal[v]
      PROVE  CallerTypeOK' /\ CallerInv' /\ EndedWell' /\ SearchInv'
  <2>1. /\ EndedWell' /\ dir' = [dir EXCEPT ![t] = d]
        /\ UNCHANGED <<loaded, failures, timeouts>>
    BY <1>4, ThreadSets, CallFrame DEF WalkInv
  <2>2. dir \in [Threads -> Dirs \cup {None}]
    BY DEF WalkInv, LoadInv, TypeOK
  <2>3. CallerInv'
    BY <1>1, <1>4, <2>1, <2>2, ThreadSets DEF WalkInv, CallerInv
  <2>4. CallerTypeOK'
    BY <1>1, <1>4 DEF WalkInv, CallerTypeOK
  <2>5. SearchInv'
    BY <1>3, <2>1, SearchFrame DEF WalkInv
  <2> QED
    BY <2>1, <2>3, <2>4, <2>5
<1>5. CASE WalkDown(t)
  <2>1. /\ UNCHANGED <<goal, outcome>> /\ dir[t] \in Dirs
        /\ last' \in [Walkers -> BOOLEAN] /\ goal \in [Walkers -> Dirs \cup {None}]
        /\ outcome \in [Walkers -> {"none", "returned", "raised"}]
    BY <1>5 DEF WalkDown, WalkInv, CallerTypeOK, CallerInv
  <2>2. PICK d \in Dirs : Call(t, d)
    BY <1>5, <2>1, ChildrenAreDirs DEF WalkDown
  <2> QED
    BY <1>2, <1>4, <2>1, <2>2
<1>6. CASE WalkEnd(t)
  <2>1. UNCHANGED loadVars /\ CallerTypeOK'
    BY <1>1, <1>6 DEF WalkEnd, WalkInv, CallerTypeOK
  <2>2. CallerInv'
    BY <1>1, <1>6, <2>1 DEF WalkEnd, WalkInv, CallerInv, CallerTypeOK, loadVars
  <2>3. EndedWell' /\ SearchInv'
    BY <1>3, <2>1, SearchFrame DEF WalkInv, EndedWell, loadVars
  <2> QED
    BY <1>2, <2>1, <2>2, <2>3
<1>7. ASSUME NEW g \in Dirs, WalkStart(t, g)
      PROVE  CallerTypeOK' /\ CallerInv' /\ EndedWell' /\ SearchInv'
  <2>1. /\ goal' = [goal EXCEPT ![t] = g] /\ last' = [last EXCEPT ![t] = (g = Root)]
        /\ outcome' = [outcome EXCEPT ![t] = "none"] /\ Call(t, Root) /\ Root \in Dirs
    BY <1>7, TreeAssumption DEF WalkStart
  <2>2. /\ goal' \in [Walkers -> Dirs \cup {None}] /\ last' \in [Walkers -> BOOLEAN]
        /\ outcome' \in [Walkers -> {"none", "returned", "raised"}]
        /\ \A v \in Walkers \ {t} : goal'[v] = goal[v]
    BY <2>1 DEF WalkInv, CallerTypeOK
  <2> QED
    BY <1>4, <2>1, <2>2
<1> QED
  BY <1>2, <1>5, <1>6, <1>7 DEF Walk

-----------------------------------------------------------------------------
(* Steps of the background load.                                           *)

LEMMA SubmitKeeps ==
  ASSUME WalkInv, BgSubmit
  PROVE  CallerTypeOK' /\ CallerInv' /\ EndedWell' /\ BatchInv' /\ SearchInv'
<1>1. /\ ~bgDone /\ todo = {} /\ found = {} /\ \A w \in Workers : flying[w] = None
  BY DEF WalkInv, BatchInv, BgSubmit
<1>2. /\ found' = SubdirsOf(batch \cap loaded) /\ todo' = batch \ loaded /\ batch' = {}
      /\ UNCHANGED <<loadVars, goal, last, outcome, flying, bgDone>>
  BY DEF BgSubmit, walkVars
<1>3. found' \subseteq Dirs /\ todo' \subseteq Dirs
  BY <1>2, ChildrenAreDirs DEF SubdirsOf, WalkInv, CallerTypeOK
<1>4. CallerTypeOK' /\ CallerInv' /\ EndedWell'
  BY <1>2, <1>3 DEF WalkInv, CallerTypeOK, CallerInv, EndedWell, loadVars
<1>5. BatchInv'
  BY <1>1, <1>2 DEF BatchInv
<1>6. SearchInv'
  <2>1. \A d \in batch \cap loaded : Children(d) \subseteq found'
    BY <1>2 DEF SubdirsOf, Known
  <2>2. Pending \subseteq Pending' \cup (batch \cap loaded) \cup {None}
    BY <1>1, <1>2 DEF Pending
  <2>3. found' \subseteq Pending'
    BY DEF Pending
  <2>4. batch \cap loaded \in SUBSET loaded
    OBVIOUS
  <2> QED
    BY <1>2, <2>1, <2>2, <2>3, <2>4, RealDirs, SearchExpands DEF WalkInv, loadVars
<1> QED
  BY <1>4, <1>5, <1>6

LEMMA TakeKeeps ==
  ASSUME WalkInv, NEW w \in Workers, BgTake(w)
  PROVE  CallerTypeOK' /\ CallerInv' /\ EndedWell' /\ BatchInv' /\ SearchInv'
<1>1. PICK d \in todo :
        /\ flying[w] = None /\ Call(w, d) /\ todo' = todo \ {d}
        /\ flying' = [flying EXCEPT ![w] = d]
        /\ UNCHANGED <<walkVars, batch, found, bgDone>>
  BY DEF BgTake
<1>2. d \in Dirs /\ w \in Threads
  BY ThreadSets DEF WalkInv, CallerTypeOK
<1>3. /\ EndedWell' /\ dir' = [dir EXCEPT ![w] = d]
      /\ UNCHANGED <<loaded, failures, timeouts>>
  BY <1>1, <1>2, CallFrame DEF WalkInv
<1>4. /\ flying \in [Workers -> Dirs \cup {None}] /\ dir \in [Threads -> Dirs \cup {None}]
  BY DEF WalkInv, CallerTypeOK, LoadInv, TypeOK
<1>5. CallerTypeOK'
  BY <1>1, <1>2 DEF WalkInv, CallerTypeOK, walkVars
<1>6. CallerInv'
  BY <1>1, <1>2, <1>3, <1>4, ThreadSets DEF WalkInv, CallerInv, walkVars
<1>7. BatchInv'
  BY <1>1 DEF WalkInv, BatchInv, BatchOver
<1>8. SearchInv'
  <2>1. {flying[v] : v \in Workers} \subseteq {flying'[v] : v \in Workers} \cup {None}
    BY <1>1, <1>4
  <2>2. d \in {flying'[v] : v \in Workers}
    BY <1>1, <1>4
  <2>3. Pending \subseteq Pending' \cup {} \cup {None}
    BY <1>1, <2>1, <2>2 DEF Pending, Workers
  <2>4. {} \in SUBSET loaded /\ \A e \in {} : Children(e) \subseteq Pending'
    OBVIOUS
  <2> QED
    BY <1>3, <2>3, <2>4, RealDirs, SearchExpands DEF WalkInv
<1> QED
  BY <1>3, <1>5, <1>6, <1>7, <1>8

LEMMA CollectKeeps ==
  ASSUME WalkInv, NEW w \in Workers, BgCollect(w)
  PROVE  CallerTypeOK' /\ CallerInv' /\ EndedWell' /\ BatchInv' /\ SearchInv'
<1>1. /\ flying[w] # None /\ pc[w] = "idle" /\ found' = found \cup Known(flying[w])
      /\ flying' = [flying EXCEPT ![w] = None]
      /\ UNCHANGED <<loadVars, goal, last, outcome, batch, todo, bgDone>>
  BY DEF BgCollect, walkVars
<1>2. flying \in [Workers -> Dirs \cup {None}]
  BY DEF WalkInv, CallerTypeOK
<1>3. CallerTypeOK' /\ CallerInv' /\ EndedWell'
  BY <1>1, <1>2, ChildrenAreDirs
  DEF WalkInv, CallerTypeOK, CallerInv, EndedWell, loadVars
<1>4. BatchInv'
  BY <1>1, <1>2 DEF WalkInv, BatchInv, BatchOver
<1>5. SearchInv'
  <2>1. CASE failures = 0 /\ timeouts = 0
    <3>1. flying[w] \in loaded
      BY <1>1, <2>1, CollectedIsLoaded
    <3>2. Children(flying[w]) \subseteq found'
      BY <1>1, <3>1 DEF Known
    <3>3. {flying[v] : v \in Workers} \subseteq {flying'[v] : v \in Workers} \cup {flying[w]}
      BY <1>1, <1>2
    <3>4. Pending \subseteq Pending' \cup {flying[w]} \cup {None}
      BY <1>1, <3>3 DEF Pending, Workers
    <3>5. \A d \in {flying[w]} : Children(d) \subseteq Pending'
      BY <3>2 DEF Pending
    <3>6. {flying[w]} \in SUBSET loaded
      BY <3>1
    <3> QED
      BY <1>1, <3>4, <3>5, <3>6, RealDirs, SearchExpands DEF WalkInv, loadVars
  <2>2. CASE ~(failures = 0 /\ timeouts = 0)
    BY <1>1, <2>2 DEF SearchInv, loadVars
  <2> QED
    BY <2>1, <2>2
<1> QED
  BY <1>3, <1>4, <1>5

LEMMA BatchEndKeeps ==
  ASSUME WalkInv, BgNext \/ BgComplete
  PROVE  CallerTypeOK' /\ CallerInv' /\ EndedWell' /\ BatchInv' /\ SearchInv'
<1>1. /\ UNCHANGED <<loadVars, goal, last, outcome, todo, flying>> /\ BatchOver
      /\ batch' \cup found' = batch \cup found
      /\ batch' \subseteq found /\ found' \subseteq found /\ bgDone' \in BOOLEAN
  BY DEF BgNext, BgComplete, walkVars, WalkInv, CallerTypeOK, BatchOver
<1>2. CallerTypeOK' /\ CallerInv' /\ EndedWell'
  BY <1>1 DEF WalkInv, CallerTypeOK, CallerInv, EndedWell, loadVars
<1>3. BatchInv'
  BY DEF BgNext, BgComplete, BatchInv, BatchOver
<1>4. Pending' = Pending
  BY <1>1 DEF Pending, Workers
<1> QED
  BY <1>1, <1>2, <1>3, <1>4, SearchFrame DEF WalkInv, loadVars

-----------------------------------------------------------------------------
LEMMA StepWalkInv == WalkInv /\ [WalkNext]_vars => WalkInv'
<1> SUFFICES ASSUME WalkInv, [WalkNext]_vars PROVE WalkInv'
  OBVIOUS
<1>1. CASE WalkNext
  <2>1. LoadInv'
    BY <1>1, LoadInvKept
  <2>2. CallerTypeOK' /\ CallerInv' /\ EndedWell' /\ BatchInv' /\ SearchInv'
    <3>1. CASE Background
      BY <3>1, SubmitKeeps, TakeKeeps, CollectKeeps, BatchEndKeeps DEF Background
    <3>2. CASE ~Background
      BY <1>1, <3>2, InsideKeeps, CooldownKeeps, WalkKeeps DEF WalkNext
    <3> QED
      BY <3>1, <3>2
  <2> QED
    BY <2>1, <2>2 DEF WalkInv
<1>2. CASE UNCHANGED vars
  <2>1. UNCHANGED <<loadVars, goal, last, outcome, batch, todo, flying, found, bgDone>>
    BY <1>2 DEF vars, walkVars, bgVars
  <2>2. LoadInv'
    BY <2>1
    DEF loadVars, WalkInv, LoadInv, TypeOK, CallInv, OneLoader, IsLoader, MergedOnce, NoFailInv
  <2>3. CallerTypeOK' /\ CallerInv' /\ EndedWell' /\ BatchInv'
    BY <2>1 DEF loadVars, WalkInv, CallerTypeOK, CallerInv, EndedWell, BatchInv, BatchOver
  <2>4. SearchInv'
    <3>1. Pending' = Pending
      BY <2>1 DEF Pending, Workers
    <3> QED
      BY <2>1, <3>1, SearchFrame DEF loadVars, WalkInv
  <2> QED
    BY <2>2, <2>3, <2>4 DEF WalkInv
<1> QED
  BY <1>1, <1>2

LEMMA WalkInvariant == WalkSpec => []WalkInv
BY InitWalkInv, StepWalkInv, PTL DEF WalkSpec

\* Every variable of the two callers and of load_dir keeps its type.
THEOREM WalkTypeCorrect == WalkSpec => []WalkTypeOK
<1>1. WalkInv => WalkTypeOK
  BY DEF WalkInv, LoadInv, CallerTypeOK, WalkTypeOK
<1> QED
  BY <1>1, WalkInvariant, PTL

\* FUSE threads and workers together take only steps of load_dir: what DirLoad
\* promises holds under its real callers too.
THEOREM CallersKeepPromise == WalkSpec => Spec
<1>1. WalkInv /\ [WalkNext]_vars => [Next]_loadVars
  BY WalkStepLoads DEF WalkInv, vars
<1>2. WalkInit => Init
  BY DEF WalkInit
<1> QED
  BY <1>1, <1>2, WalkInvariant, PTL DEF WalkSpec, Spec

\* Together they fetch a directory once at a time and merge it once, for good.
THEOREM WalkLoadsOnce == WalkSpec => LoadsOnce
BY CallersKeepPromise, Implements, PTL

\* Whatever part of the tree FUSE threads load at the same time, the background
\* search that ends without a failed fetch or a time-out has loaded all of it.
THEOREM BackgroundLoadsAll == WalkSpec => []BackgroundComplete
<1>1. WalkInv => BackgroundComplete
  <2> SUFFICES ASSUME WalkInv, bgDone, failures = 0, timeouts = 0
               PROVE  loaded = Dirs
    BY DEF BackgroundComplete
  <2>1. PICK D \in SUBSET loaded :
          /\ Root \in D \cup Pending
          /\ \A d \in D : Children(d) \subseteq D \cup Pending
    BY DEF WalkInv, SearchInv
  <2>2. Pending \subseteq {None}
    BY DEF WalkInv, BatchInv, BatchOver, Pending
  <2>3. D \subseteq Dirs
    BY <2>1, RealDirs DEF WalkInv
  <2>4. Root \in D
    BY <2>1, <2>2, RealDirs DEF WalkInv
  <2>5. ASSUME NEW d \in Dirs, Parent[d] \in D PROVE d \in D
    <3>1. CASE d # Root
      <4>1. d \in Children(Parent[d])
        BY <3>1 DEF Children
      <4> QED
        BY <2>1, <2>2, <2>5, <4>1, NoneAssumption
    <3> QED
      BY <2>4, <3>1
  <2>6. D = Dirs
    BY <2>3, <2>4, <2>5, ReachedAssumption
  <2> QED
    BY <2>6, RealDirs DEF WalkInv
<1> QED
  BY <1>1, WalkInvariant, PTL
=============================================================================
