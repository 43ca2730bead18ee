-------------------------- MODULE ContentCacheProofs --------------------------
(***************************************************************************)
(* Theorems about ContentCache, for any number of files, threads, puts,    *)
(* errors and crashes, and any sizes and budgets: first what is on disk    *)
(* and what a hit returns (CacheInv), then the LRU order, the byte count   *)
(* and the budgets (IndexInv, which rests on CacheInv).                    *)
(***************************************************************************)
EXTENDS ContentCache, FiniteSetTheorems, SequenceTheorems, TLAPS

CacheType ==
  /\ rec  \in [Files -> Nat \cup {None}]
  /\ disk \in [Parts -> [Files -> Nat \cup {None}]]
  /\ tmp  \in [Parts -> [Files -> Nat \cup {None}]]
  /\ pc   \in [Threads -> Points]
  /\ op   \in [Threads -> {"get", "put", "drop"}]
  /\ file \in [Threads -> Files \cup {None}]
  /\ part \in [Threads -> Parts]
  /\ victim \in [Threads -> Files \cup {None}]
  /\ ver \in [Threads -> Nat \cup {None}] /\ out \in [Threads -> Nat \cup {None}]
  /\ got \in [Threads -> Nat \cup {None}]
  /\ then \in [Threads -> {"write", "trimb", "trimf", "ret"}]
  /\ floor \in [Threads -> Nat] /\ least \in [Files -> Nat]
  /\ issued \in [Files -> Nat] /\ clean \in [Files -> BOOLEAN]

Removing == {"uncount", "unlinkc", "unlinkm"}
Storing  == {"write", "rename", "unwind", "insert", "count", "trimb", "trimf"}

\* Which call a thread is in at which point, and what it has in its hands.
Call(t) ==
  /\ pc[t] = "idle" => op[t] = "get" /\ file[t] = None
  /\ pc[t] # "idle" => file[t] # None
  /\ pc[t] \in {"read", "touch", "drop"} => op[t] = "get"
  /\ pc[t] \in Storing => op[t] = "put"
  /\ pc[t] \in Removing <=> victim[t] # None
  /\ pc[t] \in Removing /\ then[t] \in {"write", "trimb", "trimf"} => op[t] = "put"
  /\ pc[t] \in Removing /\ then[t] = "write" => part[t] = "content" /\ victim[t] = file[t]
  /\ pc[t] \in Removing /\ then[t] = "ret" => op[t] # "put" /\ victim[t] = file[t]
  /\ pc[t] \in {"uncount", "unlinkc"} => out[t] # None
  /\ op[t] = "put" => ver[t] # None /\ ver[t] <= issued[file[t]]
  /\ op[t] # "put" => part[t] = "content"
  /\ pc[t] \in {"idle", "read"} \/ op[t] # "get" => got[t] = None

CallInv == \A t \in Threads : Call(t)

\* A file nobody works on, or that has been stored: its .meta file is the entry's
\* and so, if there is an entry, is its .content file.
Rest(f) ==
  /\ disk["meta"][f] = rec[f]
  /\ rec[f] # None => disk["content"][f] = rec[f] /\ rec[f] >= least[f]

\* How far a thread that works on the file alone has brought it.
Stage(t, f) ==
  /\ op[t] = "put" /\ file[t] = f => ver[t] >= least[f] /\ ver[t] = issued[f]
  /\ victim[t] = f =>
       /\ rec[f] = None
       /\ pc[t] \in {"uncount", "unlinkc"} =>
            /\ disk["meta"][f] = out[t] /\ disk["content"][f] = out[t]
            /\ out[t] >= least[f]
       /\ pc[t] = "unlinkm" => disk["content"][f] = None
  /\ victim[t] # f =>
       /\ pc[t] \in {"write", "rename", "unwind"} => rec[f] = None /\ disk["meta"][f] = None
       /\ pc[t] \in {"write", "rename"} /\ part[t] = "meta" => disk["content"][f] = ver[t]
       /\ pc[t] = "rename" => tmp[part[t]][f] = ver[t]
       /\ pc[t] = "insert" =>
            rec[f] = None /\ disk["meta"][f] = ver[t] /\ disk["content"][f] = ver[t]
       /\ pc[t] \notin {"write", "rename", "unwind", "insert"} =>
            /\ Rest(f)
            /\ rec[f] = None \/ (op[t] = "put" /\ rec[f] = ver[t])

Sole(t, f) == \A v \in Threads \ {t} : ~Works(v, f)

FileInv(f) ==
  clean[f] =>
    /\ \A t \in Threads : Works(t, f) => Sole(t, f) /\ Stage(t, f)
    /\ (\A t \in Threads : ~Works(t, f)) => Rest(f)

\* What a get has found, or is going to find, is not older than it may return.
ReadOf(t) ==
  LET f == file[t] IN
  op[t] = "get" /\ f # None =>
    /\ floor[t] <= least[f]
    /\ clean[f] /\ pc[t] = "read" /\ disk["content"][f] # None
         => disk["content"][f] >= floor[t]
    /\ clean[f] /\ got[t] # None => got[t] >= floor[t]

LeastInv == \A f \in Files : least[f] <= issued[f] + 1

CacheInv ==
  /\ CacheType /\ CallInv /\ LeastInv
  /\ \A f \in Files : FileInv(f)
  /\ \A t \in Threads : ReadOf(t)

-----------------------------------------------------------------------------
(* What a step leaves alone.                                               *)

Step(t) ==
  \/ \E f \in Files : CallGet(t, f) \/ CallPut(t, f) \/ CallInvalidate(t, f)
  \/ Get(t) \/ Put(t) \/ Evict(t) \/ RemoveEntry(t) \/ Return(t)

\* The other threads.
Local(t) ==
  \A v \in Threads \ {t} :
    /\ pc'[v] = pc[v] /\ op'[v] = op[v] /\ file'[v] = file[v] /\ ver'[v] = ver[v]
    /\ part'[v] = part[v] /\ victim'[v] = victim[v] /\ out'[v] = out[v]
    /\ then'[v] = then[v] /\ got'[v] = got[v] /\ floor'[v] = floor[v]

\* A file.
Same(f) ==
  /\ rec'[f] = rec[f] /\ least'[f] = least[f] /\ issued'[f] = issued[f]
  /\ \A p \in Parts : disk'[p][f] = disk[p][f] /\ tmp'[p][f] = tmp[p][f]

\* A step of a thread keeps what is known of a file, if it leaves the file alone
\* or is the only one to work on it.
LEMMA FileStep ==
  ASSUME CacheType, NEW f \in Files, NEW t \in Threads, FileInv(f), Local(t),
         clean'[f] => clean[f],
         clean'[f] =>
           /\ Same(f) \/ Sole(t, f)
           /\ Works(t, f)' => Sole(t, f) /\ Stage(t, f)'
           /\ Sole(t, f) /\ ~Works(t, f)' => Rest(f)'
  PROVE  FileInv(f)'
<1> SUFFICES ASSUME clean'[f]
             PROVE  /\ \A v \in Threads : Works(v, f)' => Sole(v, f)' /\ Stage(v, f)'
                    /\ (\A v \in Threads : ~Works(v, f)') => Rest(f)'
  BY DEF FileInv
<1>1. \A v \in Threads \ {t} : Works(v, f)' <=> Works(v, f)
  BY DEF Local, Works
<1>2. Sole(t, f)' <=> Sole(t, f)
  BY <1>1 DEF Sole
<1>3. ASSUME NEW v \in Threads \ {t}, Works(v, f) PROVE Sole(v, f)' /\ Stage(v, f)'
  <2>1. Sole(v, f) /\ Stage(v, f) /\ ~Sole(t, f)
    BY <1>3 DEF FileInv, Sole
  <2>2. Same(f) /\ ~Works(t, f)'
    BY <2>1
  <2>3. Sole(v, f)'
    BY <1>1, <2>1, <2>2 DEF Sole
  <2>4. Stage(v, f)'
    <3>1. /\ pc'[v] = pc[v] /\ op'[v] = op[v] /\ file'[v] = file[v] /\ ver'[v] = ver[v]
          /\ part'[v] = part[v] /\ victim'[v] = victim[v] /\ out'[v] = out[v]
      BY DEF Local
    <3>2. tmp'[part[v]][f] = tmp[part[v]][f] /\ part[v] \in Parts
      BY <2>2 DEF Same, CacheType
    <3>3. /\ disk'["meta"][f] = disk["meta"][f] /\ disk'["content"][f] = disk["content"][f]
          /\ rec'[f] = rec[f] /\ least'[f] = least[f] /\ issued'[f] = issued[f]
      BY <2>2 DEF Same, Parts
    <3> QED
      BY <2>1, <3>1, <3>2, <3>3 DEF Stage, Rest
  <2> QED
    BY <2>3, <2>4
<1>4. Works(t, f)' => Sole(t, f)' /\ Stage(t, f)'
  BY <1>2
<1>5. (\A v \in Threads : ~Works(v, f)') => Rest(f)'
  BY <1>1 DEF Sole
<1> QED
  BY <1>1, <1>3, <1>4, <1>5

\* A step that leaves the file alone, and the thread working on it or not.
LEMMA FileFrame ==
  ASSUME CacheType, NEW f \in Files, NEW t \in Threads, FileInv(f), Local(t),
         clean'[f] => clean[f], Same(f), Works(t, f)' <=> Works(t, f),
         clean[f] /\ Works(t, f) /\ Stage(t, f) => Stage(t, f)'
  PROVE  FileInv(f)'
<1>1. ASSUME clean'[f], Sole(t, f), ~Works(t, f)' PROVE Rest(f)'
  BY <1>1 DEF FileInv, Sole, Same, Rest, Parts
<1>2. clean'[f] /\ Works(t, f)' => Sole(t, f) /\ Stage(t, f)'
  BY DEF FileInv
<1> QED
  BY <1>1, <1>2, FileStep

\* The other gets still find nothing too old.
LEMMA ReadFrame ==
  ASSUME CacheType, NEW t \in Threads, Local(t), NEW v \in Threads \ {t}, ReadOf(v),
         CacheType', \A f \in Files : least[f] <= least'[f] /\ (clean'[f] => clean[f]),
         \A f \in Files :
           clean'[f] => \/ disk'["content"][f] \in {None, disk["content"][f]}
                       \/ disk'["content"][f] >= least[f]
  PROVE  ReadOf(v)'
<1> SUFFICES ASSUME op[v] = "get", file[v] # None
             PROVE  /\ floor[v] <= least'[file[v]]
                    /\ clean'[file[v]] /\ pc[v] = "read" /\ disk'["content"][file[v]] # None
                         => disk'["content"][file[v]] >= floor[v]
                    /\ clean'[file[v]] /\ got[v] # None => got[v] >= floor[v]
  BY DEF ReadOf, Local
<1> DEFINE f == file[v]
<1>1. /\ f \in Files /\ floor[v] \in Nat /\ least[f] \in Nat /\ least'[f] \in Nat
      /\ disk'["content"][f] \in Nat \cup {None}
  BY DEF CacheType, Parts
<1>2. /\ floor[v] <= least[f]
      /\ clean[f] /\ pc[v] = "read" /\ disk["content"][f] # None
           => disk["content"][f] >= floor[v]
      /\ clean[f] /\ got[v] # None => got[v] >= floor[v]
  BY DEF ReadOf
<1> QED
  BY <1>1, <1>2

-----------------------------------------------------------------------------
(* One lemma per conjunct of the invariant, one step per action.            *)

LEMMA LocalStep ==
  ASSUME CacheType, NEW t \in Threads, Step(t)
  PROVE  Local(t)
<1> USE DEF CacheType, Local, Goto
<1>1. ASSUME NEW f \in Files, CallGet(t, f) PROVE Local(t)
  BY <1>1 DEF CallGet
<1>2. ASSUME NEW f \in Files, CallPut(t, f) PROVE Local(t)
  BY <1>2 DEF CallPut, RemovesOldEntry, TakeOut
<1>3. ASSUME NEW f \in Files, CallInvalidate(t, f) PROVE Local(t)
  BY <1>3 DEF CallInvalidate, TakeOut
<1>4. CASE Get(t)
  BY <1>4 DEF Get, Read, DropUnreadable, TakeOut, Touch, cvars
<1>5. CASE Put(t)
  BY <1>5 DEF Put, Write, Rename, Unwind, Insert, Count, cvars
<1>6. CASE Evict(t)
  BY <1>6 DEF Evict, EvictForBytes, EvictForFiles, EvictNoMore, TakeOut, cvars
<1>7. CASE RemoveEntry(t)
  BY <1>7 DEF RemoveEntry, Uncount, UnlinkContent, UnlinkMeta, cvars
<1>8. CASE Return(t)
  BY <1>8 DEF Return
<1> QED
  BY <1>1, <1>2, <1>3, <1>4, <1>5, <1>6, <1>7, <1>8 DEF Step

\* Removing an entry keeps the types.
LEMMA TakeOutType ==
  ASSUME CacheType, NEW t \in Threads, NEW f \in Files,
         NEW back \in {"write", "trimb", "trimf", "ret"}, TakeOut(t, f, back)
  PROVE  /\ rec' \in [Files -> Nat \cup {None}] /\ pc' \in [Threads -> Points]
         /\ victim' \in [Threads -> Files \cup {None}] /\ out' \in [Threads -> Nat \cup {None}]
         /\ then' \in [Threads -> {"write", "trimb", "trimf", "ret"}]
         /\ clean' \in [Files -> BOOLEAN]
<1>1. clean' \in [Files -> BOOLEAN]
  BY Zenon DEF TakeOut, CacheType
<1>2. pc' \in [Threads -> Points] /\ then' \in [Threads -> {"write", "trimb", "trimf", "ret"}]
  BY DEF TakeOut, CacheType, Goto, Points
<1>3. rec[f] \in Nat \cup {None}
  BY DEF CacheType
<1> QED
  BY <1>1, <1>2, <1>3 DEF TakeOut, CacheType

LEMMA TypeStep ==
  ASSUME CacheType, CallInv, NEW t \in Threads, Step(t)
  PROVE  CacheType'
<1>1. ASSUME NEW f \in Files, CallGet(t, f) PROVE CacheType'
  BY <1>1 DEF CallGet, CacheType, Goto, Points, gvars, index
<1>2. ASSUME NEW f \in Files, CallPut(t, f) PROVE CacheType'
  <2>1. TakeOut(t, f, "write")
    BY <1>2 DEF CallPut, RemovesOldEntry
  <2> QED
    BY <1>2, <2>1, TakeOutType DEF CallPut, CacheType
<1>3. ASSUME NEW f \in Files, CallInvalidate(t, f) PROVE CacheType'
  <2>1. TakeOut(t, f, "ret")
    BY <1>3 DEF CallInvalidate
  <2> QED
    BY <1>3, <2>1, TakeOutType DEF CallInvalidate, CacheType
<1>4. CASE Read(t)
  BY <1>4 DEF Read, CacheType, CallInv, Call, Goto, Points, Parts, cvars, gvars, index
<1>5. CASE DropUnreadable(t)
  <2>1. TakeOut(t, file[t], "ret") /\ file[t] \in Files
    BY <1>5 DEF DropUnreadable, CallInv, Call, CacheType
  <2> QED
    BY <1>5, <2>1, TakeOutType DEF DropUnreadable, CacheType, cvars
<1>6. CASE Touch(t)
  BY <1>6 DEF Touch, CacheType, Goto, Points, cvars, gvars
<1>7. CASE Write(t)
  <2>1. file[t] \in Files /\ ver[t] \in Nat \cup {None} /\ part[t] \in Parts
    BY <1>7 DEF Write, CacheType, CallInv, Call
  <2>2. tmp' \in [Parts -> [Files -> Nat \cup {None}]]
    <3>1. tmp[part[t]] \in [Files -> Nat \cup {None}]
      BY <2>1 DEF CacheType
    <3>2. [tmp[part[t]] EXCEPT ![file[t]] = ver[t]] \in [Files -> Nat \cup {None}]
      BY <2>1, <3>1
    <3> QED
      BY <1>7, <2>1, <3>2 DEF Write, CacheType
  <2> QED
    BY <1>7, <2>2 DEF Write, CacheType, Goto, Points, cvars, gvars, index
<1>8. CASE Rename(t)
  BY <1>8 DEF Rename, CacheType, CallInv, Call, Storing, Goto, Points, Parts, cvars, gvars, index
<1>9. CASE Unwind(t) \/ Insert(t) \/ Count(t)
  <2>1. file[t] \in Files /\ ver[t] \in Nat \cup {None} /\ part[t] \in Parts
    BY <1>9 DEF Unwind, Insert, Count, CacheType, CallInv, Call
  <2>2. tmp' \in [Parts -> [Files -> Nat \cup {None}]]
    <3>1. [tmp[part[t]] EXCEPT ![file[t]] = None] \in [Files -> Nat \cup {None}]
      BY <2>1 DEF CacheType
    <3> QED
      BY <1>9, <2>1, <3>1 DEF Unwind, Insert, Count, CacheType
  <2>3. rec' \in [Files -> Nat \cup {None}]
    BY <1>9, <2>1 DEF Unwind, Insert, Count, CacheType, index
  <2> QED
    BY <1>9, <2>2, <2>3 DEF Unwind, Insert, Count, CacheType, Goto, Points, cvars, gvars, index
<1>10. CASE EvictForBytes(t) \/ EvictForFiles(t)
  <2>1. PICK f \in Files, back \in {"trimb", "trimf"} : TakeOut(t, f, back)
    BY <1>10 DEF EvictForBytes, EvictForFiles
  <2> QED
    BY <1>10, <2>1, TakeOutType DEF EvictForBytes, EvictForFiles, CacheType, cvars
<1>11. CASE EvictNoMore(t)
  BY <1>11 DEF EvictNoMore, CacheType, Goto, Points, cvars, index
<1>12. CASE RemoveEntry(t)
  BY <1>12 DEF RemoveEntry, Uncount, UnlinkContent, UnlinkMeta, CacheType, Goto, Points,
               Parts, cvars, gvars, index
<1>13. CASE Return(t)
  <2>1. file[t] \in Files
    BY <1>13 DEF Return, CacheType, CallInv, Call
  <2>2. op[t] = "put" => ver[t] \in Nat
    BY DEF CacheType, CallInv, Call
  <2> QED
    BY <1>13, <2>1, <2>2 DEF Return, CacheType, Goto, Points, Parts, index
<1> QED
  BY <1>1, <1>2, <1>3, <1>4, <1>5, <1>6, <1>7, <1>8, <1>9, <1>10, <1>11, <1>12, <1>13
     DEF Step, Get, Put, Evict

\* The file a removal is about, what it brings along and where it leads.
LEMMA TakeOutCall ==
  ASSUME CacheType, CallInv, NEW t \in Threads, pc[t] \notin Removing, NEW f \in Files,
         NEW back \in {"write", "trimb", "trimf", "ret"}, TakeOut(t, f, back)
  PROVE  \/ /\ rec[f] = None /\ pc'[t] = back
            /\ victim'[t] = None /\ out'[t] = out[t] /\ then'[t] = then[t]
         \/ /\ rec[f] # None /\ pc'[t] = "uncount"
            /\ victim'[t] = f /\ out'[t] = rec[f] /\ then'[t] = back
BY DEF TakeOut, CacheType, CallInv, Call, Goto

\* The history variables a step changes.
LEMMA HistoryFrame ==
  ASSUME CacheType, CallInv, NEW t \in Threads, Step(t)
  PROVE  /\ issued' = issued \/ \E f \in Files : issued' = [issued EXCEPT ![f] = @ + 1]
         /\ least' = least \/ Return(t)
         /\ \/ clean' = clean
            \/ \E f \in Files : clean' = [clean EXCEPT ![f] = @ /\ ~Busy(t, f)]
<1> DEFINE Taken(f) == clean' = [clean EXCEPT ![f] = @ /\ ~Busy(t, f)]
<1>1. ASSUME NEW f \in Files, CallGet(t, f) PROVE UNCHANGED <<issued, least, clean>>
  BY <1>1 DEF CallGet, gvars
<1>2. ASSUME NEW f \in Files, CallPut(t, f)
      PROVE  issued' = [issued EXCEPT ![f] = @ + 1] /\ least' = least /\ Taken(f)
  BY <1>2 DEF CallPut, RemovesOldEntry, TakeOut
<1>3. ASSUME NEW f \in Files, CallInvalidate(t, f)
      PROVE  issued' = issued /\ least' = least /\ Taken(f)
  BY <1>3 DEF CallInvalidate, TakeOut
<1>4. CASE Read(t) \/ Touch(t) \/ Put(t) \/ RemoveEntry(t)
  <2>1. UNCHANGED <<issued, least, clean>>
    BY <1>4 DEF Read, Touch, Put, Write, Rename, Unwind, Insert, Count, RemoveEntry, Uncount,
                UnlinkContent, UnlinkMeta, gvars
  <2> QED
    BY <2>1
<1>5. CASE DropUnreadable(t)
  <2>1. file[t] \in Files
    BY <1>5 DEF DropUnreadable, CacheType, CallInv, Call
  <2> QED
    BY <1>5, <2>1 DEF DropUnreadable, TakeOut
<1>6. CASE EvictForBytes(t) \/ EvictForFiles(t)
  <2>1. PICK f \in Files, back \in {"trimb", "trimf"} : TakeOut(t, f, back)
    BY <1>6 DEF EvictForBytes, EvictForFiles
  <2> QED
    BY <1>6, <2>1 DEF EvictForBytes, EvictForFiles, TakeOut
<1>7. CASE EvictNoMore(t)
  BY <1>7 DEF EvictNoMore
<1>8. CASE Return(t)
  BY <1>8 DEF Return
<1> QED
  BY <1>1, <1>2, <1>3, <1>4, <1>5, <1>6, <1>7, <1>8 DEF Step, Get, Evict

LEMMA IssuedRises ==
  ASSUME CacheType, CallInv, NEW t \in Threads, Step(t)
  PROVE  \A f \in Files : issued'[f] >= issued[f]
<1>1. issued' = issued \/ \E f \in Files : issued' = [issued EXCEPT ![f] = @ + 1]
  BY HistoryFrame, Zenon
<1>2. issued \in [Files -> Nat]
  BY DEF CacheType
<1>3. ASSUME NEW f \in Files, NEW g \in Files, issued' = [issued EXCEPT ![g] = @ + 1]
      PROVE  issued'[f] >= issued[f]
  BY <1>2, <1>3
<1>4. ASSUME NEW f \in Files, issued' = issued PROVE issued'[f] >= issued[f]
  BY <1>2, <1>4
<1> QED
  BY <1>1, <1>3, <1>4

LEMMA CallStep ==
  ASSUME CacheType, CacheType', CallInv, NEW t \in Threads, Step(t)
  PROVE  CallInv'
<1> DEFINE Others == \A v \in Threads \ {t} : Call(v)'
<1>a. CallInv <=> \A v \in Threads : Call(v)
  BY DEF CallInv
<1>b. CallInv' <=> \A v \in Threads : Call(v)'
  BY DEF CallInv
<1>c. Local(t)
  BY LocalStep
<1>d. ASSUME \A f \in Files : issued'[f] >= issued[f], NEW v \in Threads \ {t}
      PROVE  Call(v)'
  <2>1. op[v] = "put" => file[v] \in Files /\ ver[v] \in Nat /\ ver[v] <= issued[file[v]]
    BY <1>a DEF Call, CacheType
  <2>2. \A f \in Files : issued[f] \in Nat /\ issued'[f] \in Nat
    BY DEF CacheType
  <2>3. op[v] = "put" => ver[v] <= issued'[file[v]]
    BY <1>d, <2>1, <2>2
  <2> QED
    BY <1>a, <1>c, <2>3 DEF Call, Local
<1>e. \A f \in Files : issued'[f] >= issued[f]
  BY IssuedRises
<1> SUFFICES Call(t)'
  BY <1>b, <1>d, <1>e
<1> USE <1>a DEF Call
<1>1. ASSUME NEW f \in Files, CallGet(t, f) PROVE Call(t)'
  BY <1>1, CacheAssumption DEF CallGet, CacheType, Goto, Removing, Storing
<1>2. ASSUME NEW f \in Files, CallPut(t, f) PROVE Call(t)'
  <2>1. TakeOut(t, f, "write") /\ pc[t] \notin Removing
    BY <1>2 DEF CallPut, RemovesOldEntry, Removing
  <2>2. /\ op'[t] = "put" /\ file'[t] = f /\ ver'[t] = issued[f] + 1 /\ part'[t] = part[t]
        /\ got'[t] = got[t] /\ issued'[f] = issued[f] + 1
    BY <1>2 DEF CallPut, CacheType
  <2>3. pc[t] = "idle" /\ issued[f] \in Nat
    BY <1>2 DEF CallPut, CacheType
  <2> QED
    BY <2>1, <2>2, <2>3, TakeOutCall, CacheAssumption DEF Removing, Storing
<1>3. ASSUME NEW f \in Files, CallInvalidate(t, f) PROVE Call(t)'
  <2>1. TakeOut(t, f, "ret") /\ pc[t] \notin Removing
    BY <1>3 DEF CallInvalidate, Removing
  <2>2. /\ op'[t] = "drop" /\ file'[t] = f /\ part'[t] = part[t] /\ got'[t] = got[t]
        /\ pc[t] = "idle"
    BY <1>3 DEF CallInvalidate, CacheType
  <2> QED
    BY <2>1, <2>2, TakeOutCall, CacheAssumption DEF Removing, Storing
<1>4. CASE Read(t)
  BY <1>4 DEF Read, CacheType, Goto, Removing, Storing, cvars
<1>5. CASE DropUnreadable(t)
  <2>1. TakeOut(t, file[t], "ret") /\ pc[t] = "drop" /\ file[t] \in Files
    BY <1>5 DEF DropUnreadable, CacheType
  <2>2. UNCHANGED <<op, file, ver, part, got>>
    BY <1>5 DEF DropUnreadable, cvars
  <2> QED
    BY <2>1, <2>2, TakeOutCall, CacheAssumption DEF Removing, Storing
<1>6. CASE Touch(t)
  BY <1>6 DEF Touch, CacheType, Goto, Removing, Storing, cvars
<1>7. CASE Put(t)
  BY <1>7 DEF Put, Write, Rename, Unwind, Insert, Count, CacheType, Goto, Removing, Storing,
              cvars, gvars
<1>8. CASE EvictForBytes(t) \/ EvictForFiles(t)
  <2>1. PICK f \in Files, back \in {"trimb", "trimf"} : TakeOut(t, f, back)
    BY <1>8 DEF EvictForBytes, EvictForFiles
  <2>2. UNCHANGED <<op, file, ver, part, got, issued>> /\ pc[t] \in {"trimb", "trimf"}
    BY <1>8 DEF EvictForBytes, EvictForFiles, cvars
  <2> QED
    BY <2>1, <2>2, TakeOutCall, CacheAssumption DEF Removing, Storing
<1>9. CASE EvictNoMore(t)
  BY <1>9 DEF EvictNoMore, CacheType, Goto, Removing, Storing, cvars
<1>10. CASE RemoveEntry(t)
  BY <1>10 DEF RemoveEntry, Uncount, UnlinkContent, UnlinkMeta, CacheType, Goto, Removing,
               Storing, cvars, gvars
<1>11. CASE Return(t)
  BY <1>11 DEF Return, CacheType, Goto, Removing, Storing
<1> QED
  BY <1>1, <1>2, <1>3, <1>4, <1>5, <1>6, <1>7, <1>8, <1>9, <1>10, <1>11 DEF Step, Get, Evict

\* The bound below which a get must not fall only rises, and a file that has been
\* worked on by two calls at once never counts as clean again.
LEMMA HistoryStep ==
  ASSUME CacheType, CacheType', CallInv, LeastInv, NEW t \in Threads, Step(t)
  PROVE  /\ LeastInv'
         /\ \A f \in Files : least[f] <= least'[f] /\ (clean'[f] => clean[f])
<1>1. CASE Return(t)
  <2>1. file[t] \in Files
    BY <1>1 DEF Return, CacheType, CallInv, Call
  <2>2. op[t] = "put" => ver[t] \in Nat /\ ver[t] <= issued[file[t]]
    BY DEF CacheType, CallInv, Call
  <2> DEFINE n == IF op[t] = "put" THEN ver[t] ELSE issued[file[t]] + 1
  <2>3. n \in Nat /\ n <= issued[file[t]] + 1
    BY <2>1, <2>2 DEF CacheType
  <2>4. /\ least' = [least EXCEPT ![file[t]] = IF op[t] # "get" /\ n > @ THEN n ELSE @]
        /\ UNCHANGED <<issued, clean>>
    BY <1>1 DEF Return
  <2> HIDE DEF n
  <2> QED
    BY <2>1, <2>3, <2>4 DEF LeastInv, CacheType
<1>2. CASE ~Return(t)
  <2>1. least' = least
    BY <1>2, HistoryFrame
  <2>2. \A f \in Files : issued'[f] >= issued[f]
    BY IssuedRises
  <2>3. ASSUME NEW f \in Files, clean' # clean PROVE clean'[f] => clean[f]
    <3>1. PICK g \in Files : clean' = [clean EXCEPT ![g] = clean[g] /\ ~Busy(t, g)]
      BY <2>3, HistoryFrame
    <3>2. clean'[f] = IF f = g THEN clean[f] /\ ~Busy(t, g) ELSE clean[f]
      BY <3>1, Zenon DEF CacheType
    <3> QED
      BY <3>2, Zenon
  <2> QED
    BY <2>1, <2>2, <2>3 DEF LeastInv, CacheType
<1> QED
  BY <1>1, <1>2

-----------------------------------------------------------------------------
(* What is known of a file holds after every step of a thread.               *)

LEMMA TakeOutFile ==
  ASSUME CacheType, NEW t \in Threads, NEW g \in Files, NEW back, TakeOut(t, g, back),
         NEW f \in Files
  PROVE  /\ clean'[f] => clean[f] /\ (f = g => Sole(t, f))
         /\ rec'[f] = IF f = g THEN None ELSE rec[f]
<1>1. clean'[f] = IF f = g THEN clean[f] /\ ~Busy(t, g) ELSE clean[f]
  BY Zenon DEF TakeOut, CacheType
<1>2. clean'[f] => clean[f] /\ (f = g => Sole(t, f))
  BY <1>1, Zenon DEF Busy, Sole
<1>3. rec'[f] = IF f = g THEN None ELSE rec[f]
  BY DEF TakeOut, CacheType
<1> QED
  BY <1>2, <1>3

\* The removal of an entry at a point where the thread knows the file to be at rest.
LEMMA TakeOutStep ==
  ASSUME CacheInv, NEW t \in Threads, Step(t), NEW g \in Files, pc[t] \notin Removing,
         NEW back \in {"write", "trimb", "trimf", "ret"}, TakeOut(t, g, back),
         op'[t] = op[t] \/ pc[t] = "idle",
         UNCHANGED <<disk, tmp, least, part>>,
         \A h \in Files \ {g} : issued'[h] = issued[h] /\ (Works(t, h)' <=> Works(t, h)),
         \A h \in Files \ {g} : Works(t, h) /\ Stage(t, h) => Stage(t, h)',
         clean'[g] /\ Sole(t, g) =>
           /\ Rest(g)
           /\ rec[g] = None /\ Works(t, g)' => Stage(t, g)'
           /\ op'[t] = "put" /\ file'[t] = g => ver'[t] >= least[g] /\ ver'[t] = issued'[g],
         NEW f \in Files
  PROVE  FileInv(f)'
<1> USE DEF CacheInv
<1>0. Local(t) /\ FileInv(f)
  BY LocalStep
<1>1. CASE f # g
  <2>1. rec'[f] = rec[f] /\ (clean'[f] => clean[f])
    BY <1>1, TakeOutFile
  <2>2. Same(f)
    BY <1>1, <2>1 DEF Same
  <2> QED
    BY <1>0, <1>1, <2>1, <2>2, FileFrame
<1>2. CASE f = g
  <2>1. clean'[f] => clean[f] /\ Sole(t, f)
    BY <1>2, TakeOutFile
  <2>2. \/ /\ rec[f] = None /\ pc'[t] = back /\ victim'[t] = None
        \/ /\ rec[f] # None /\ pc'[t] = "uncount" /\ victim'[t] = f /\ out'[t] = rec[f]
    BY <1>2, TakeOutCall
  <2>3. rec'[f] = None
    BY <1>2, TakeOutFile
  <2>4. ASSUME clean'[f], Works(t, f)' PROVE Stage(t, f)'
    <3>1. Rest(f) /\ Sole(t, f)
      BY <1>2, <2>1, <2>4
    <3>2. CASE rec[f] = None
      BY <1>2, <2>1, <2>4, <3>2
    <3>3. CASE rec[f] # None
      BY <1>2, <2>1, <2>2, <2>3, <2>4, <3>1, <3>3 DEF Stage, Rest
    <3> QED
      BY <3>2, <3>3
  <2>5. ASSUME clean'[f], ~Works(t, f)' PROVE Rest(f)'
    <3>1. Rest(f)
      BY <1>2, <2>1, <2>5
    <3>2. rec[f] = None
      BY <2>2, <2>5 DEF Works
    <3> QED
      BY <2>3, <3>1, <3>2 DEF Rest
  <2> QED
    BY <1>0, <2>1, <2>4, <2>5, FileStep
<1> QED
  BY <1>1, <1>2

LEMMA CallFile ==
  ASSUME CacheInv, NEW t \in Threads, Step(t), NEW g \in Files,
         CallGet(t, g) \/ CallPut(t, g) \/ CallInvalidate(t, g), NEW f \in Files
  PROVE  FileInv(f)'
<1> USE DEF CacheInv
<1>0. /\ Local(t) /\ FileInv(f) /\ pc[t] = "idle" /\ op[t] = "get" /\ file[t] = None
      /\ victim[t] = None /\ part[t] = "content" /\ None \notin Files
      /\ pc[t] \notin Removing /\ \A h \in Files : ~Works(t, h)
  BY LocalStep, CacheAssumption
     DEF CallGet, CallPut, CallInvalidate, CallInv, Call, Removing, Works
<1>1. CASE CallGet(t, g)
  <2>1. /\ Same(f) /\ clean' = clean
        /\ op'[t] = op[t] /\ victim'[t] = victim[t]
    BY <1>1 DEF CallGet, Same, index, gvars
  <2> QED
    BY <1>0, <2>1, FileFrame DEF Works
<1>2. ASSUME NEW back \in {"write", "ret"}, TakeOut(t, g, back),
             UNCHANGED <<disk, tmp, least, part>>, op'[t] \in {"put", "drop"}, file'[t] = g,
             op'[t] = "put" => back = "write" /\ ver'[t] = issued[g] + 1,
             op'[t] = "put" => issued' = [issued EXCEPT ![g] = @ + 1],
             op'[t] # "put" => back = "ret" /\ issued' = issued
      PROVE  FileInv(f)'
  <2>1. \/ /\ rec[g] = None /\ pc'[t] = back /\ victim'[t] = None
        \/ /\ rec[g] # None /\ pc'[t] = "uncount" /\ victim'[t] = g
    BY <1>0, <1>2, TakeOutCall
  <2>2. \A h \in Files \ {g} : issued'[h] = issued[h] /\ ~Works(t, h)'
    BY <1>0, <1>2, <2>1 DEF CacheType, Works
  <2>3. ASSUME clean'[g], Sole(t, g)
        PROVE  /\ Rest(g)
               /\ rec[g] = None /\ Works(t, g)' => Stage(t, g)'
               /\ op'[t] = "put" => ver'[t] >= least[g] /\ ver'[t] = issued'[g]
    <3>1. clean[g] /\ FileInv(g)
      BY <1>2, <2>3, TakeOutFile
    <3>2. Rest(g)
      BY <1>0, <2>3, <3>1 DEF FileInv, Sole
    <3>3. op'[t] = "put" => ver'[t] >= least[g] /\ ver'[t] = issued'[g]
      BY <1>2 DEF CacheType, LeastInv
    <3>4. rec'[g] = None
      BY <1>2, TakeOutFile
    <3>5. ASSUME rec[g] = None PROVE Stage(t, g)'
      <4>1. pc'[t] = back /\ victim'[t] # g
        BY <1>0, <2>1, <3>5
      <4> QED
        BY <1>0, <1>2, <3>2, <3>3, <3>4, <3>5, <4>1 DEF Stage, Rest
    <3> QED
      BY <3>2, <3>3, <3>5
  <2> QED
    BY <1>0, <1>2, <2>2, <2>3, TakeOutStep
<1>3. CASE CallPut(t, g)
  <2>1. /\ TakeOut(t, g, "write") /\ UNCHANGED <<disk, tmp, least, part>>
        /\ op'[t] = "put" /\ file'[t] = g /\ ver'[t] = issued[g] + 1
        /\ issued' = [issued EXCEPT ![g] = @ + 1]
    BY <1>3 DEF CallPut, RemovesOldEntry, CacheType
  <2> QED
    BY <1>2, <2>1
<1>4. CASE CallInvalidate(t, g)
  <2>1. /\ TakeOut(t, g, "ret") /\ UNCHANGED <<disk, tmp, least, part, issued>>
        /\ op'[t] = "drop" /\ file'[t] = g
    BY <1>4 DEF CallInvalidate, CacheType
  <2> QED
    BY <1>2, <2>1
<1> QED
  BY <1>1, <1>3, <1>4

LEMMA GetFile ==
  ASSUME CacheInv, NEW t \in Threads, Step(t), Get(t), NEW f \in Files
  PROVE  FileInv(f)'
<1> USE DEF CacheInv
<1>0. /\ Local(t) /\ FileInv(f) /\ op[t] = "get" /\ victim[t] = None /\ None \notin Files
      /\ pc[t] \notin Removing /\ file[t] \in Files /\ \A h \in Files : ~Works(t, h)
  BY LocalStep, CacheAssumption
     DEF Get, Read, DropUnreadable, Touch, CallInv, Call, Removing, Works, CacheType
<1>1. CASE Read(t) \/ Touch(t)
  <2>1. Same(f) /\ clean' = clean /\ op'[t] = op[t] /\ victim'[t] = victim[t]
    BY <1>1 DEF Read, Touch, Same, index, cvars, gvars
  <2> QED
    BY <1>0, <2>1, FileFrame DEF Works
<1>2. CASE DropUnreadable(t)
  <2>0. PICK g \in Files : g = file[t]
    BY <1>0
  <2>1. /\ TakeOut(t, g, "ret")
        /\ UNCHANGED <<disk, tmp, least, part, issued, op, file>>
    BY <1>2, <2>0 DEF DropUnreadable, cvars
  <2>2. \/ /\ rec[g] = None /\ victim'[t] = None
        \/ /\ rec[g] # None /\ victim'[t] = g
    BY <1>0, <2>1, TakeOutCall
  <2>3. \A h \in Files \ {g} : issued'[h] = issued[h] /\ ~Works(t, h)'
    BY <1>0, <2>0, <2>1, <2>2 DEF Works
  <2>4. ASSUME clean'[g], Sole(t, g) PROVE Rest(g)
    <3>1. clean[g] /\ FileInv(g)
      BY <1>0, <2>1, <2>4, TakeOutFile
    <3> QED
      BY <1>0, <2>4, <3>1 DEF FileInv, Sole
  <2>5. rec[g] = None => ~Works(t, g)'
    BY <1>0, <2>0, <2>1, <2>2 DEF Works
  <2>6. op'[t] = "get" /\ op'[t] = op[t] /\ g \in Files /\ pc[t] \notin Removing
    BY <1>0, <2>1
  <2>7. /\ \A h \in Files \ {g} : issued'[h] = issued[h] /\ (Works(t, h)' <=> Works(t, h))
        /\ \A h \in Files \ {g} : Works(t, h) /\ Stage(t, h) => Stage(t, h)'
    BY <1>0, <2>3
  <2>8. UNCHANGED <<disk, tmp, least, part>> /\ TakeOut(t, g, "ret")
    BY <2>1
  <2> QED
    BY <2>4, <2>5, <2>6, <2>7, <2>8, TakeOutStep
<1> QED
  BY <1>1, <1>2 DEF Get

LEMMA PutFile ==
  ASSUME CacheInv, NEW t \in Threads, Step(t), Put(t), NEW f \in Files
  PROVE  FileInv(f)'
<1> USE DEF CacheInv
<1>0. /\ Local(t) /\ FileInv(f) /\ op[t] = "put" /\ victim[t] = None /\ None \notin Files
      /\ None \notin Nat /\ ver[t] \in Nat /\ part[t] \in Parts /\ pc[t] \in Storing
      /\ clean' = clean /\ op'[t] = op[t] /\ file'[t] = file[t] /\ victim'[t] = None
      /\ ver'[t] = ver[t] /\ pc'[t] # "idle" /\ UNCHANGED <<least, issued>>
  BY LocalStep, CacheAssumption
     DEF Put, Write, Rename, Unwind, Insert, Count, CallInv, Call, Removing, Storing, CacheType,
         Goto, cvars, gvars
<1>1. Works(t, f) <=> file[t] = f
  BY <1>0 DEF Works, Storing
<1>2. Works(t, f)' <=> file[t] = f
  BY <1>0 DEF Works
<1>3. CASE file[t] # f
  <2>1. Same(f)
    BY <1>0, <1>3 DEF Put, Write, Rename, Unwind, Insert, Count, Same, CacheType, index
  <2> QED
    BY <1>0, <1>1, <1>2, <1>3, <2>1, FileFrame
<1>4. CASE file[t] = f
  <2>1. SUFFICES ASSUME clean[f], Sole(t, f), Stage(t, f) PROVE Stage(t, f)'
    BY <1>0, <1>1, <1>2, <1>4, FileStep DEF FileInv
  <2>2. /\ ver[t] >= least[f] /\ ver[t] = issued[f]
        /\ pc[t] \in {"write", "rename", "unwind"} => rec[f] = None /\ disk["meta"][f] = None
        /\ pc[t] \in {"write", "rename"} /\ part[t] = "meta" => disk["content"][f] = ver[t]
        /\ pc[t] = "rename" => tmp[part[t]][f] = ver[t]
        /\ pc[t] = "insert" =>
             rec[f] = None /\ disk["meta"][f] = ver[t] /\ disk["content"][f] = ver[t]
    BY <1>0, <1>4, <2>1 DEF Stage
  <2>3. CASE Write(t)
    BY <1>0, <1>4, <2>2, <2>3 DEF Write, Stage, CacheType, Goto, index
  <2>4. CASE Rename(t)
    BY <1>0, <1>4, <2>2, <2>4 DEF Rename, Stage, CacheType, Goto, Parts, index
  <2>5. CASE Unwind(t)
    BY <1>0, <1>4, <2>2, <2>5 DEF Unwind, Stage, Rest, CacheType, Goto, index
  <2>6. CASE Insert(t)
    BY <1>0, <1>4, <2>2, <2>6 DEF Insert, Stage, Rest, CacheType, Goto
  <2>7. CASE Count(t)
    BY <1>0, <1>4, <2>1, <2>7 DEF Count, Stage, Rest, CacheType, Goto
  <2> QED
    BY <2>3, <2>4, <2>5, <2>6, <2>7 DEF Put
<1> QED
  BY <1>3, <1>4

LEMMA EvictFile ==
  ASSUME CacheInv, NEW t \in Threads, Step(t), Evict(t), NEW f \in Files
  PROVE  FileInv(f)'
<1> USE DEF CacheInv
<1>0. /\ Local(t) /\ FileInv(f) /\ op[t] = "put" /\ victim[t] = None /\ None \notin Files
      /\ pc[t] \in {"trimb", "trimf"} /\ pc[t] \notin Removing
      /\ UNCHANGED <<disk, tmp, least, issued, part, op, file, ver>>
  BY LocalStep, CacheAssumption
     DEF Evict, EvictForBytes, EvictForFiles, EvictNoMore, CallInv, Call, Removing, Storing,
         cvars
<1>1. \A h \in Files : Works(t, h) <=> file[t] = h
  BY <1>0 DEF Works
<1>2. \A h \in Files : Works(t, h) /\ Stage(t, h)
        => /\ ver[t] >= least[h] /\ ver[t] = issued[h] /\ Rest(h)
           /\ rec[h] = None \/ rec[h] = ver[t]
  BY <1>0, <1>1 DEF Stage
<1>3. CASE EvictNoMore(t)
  <2>1. /\ Same(f) /\ clean' = clean /\ victim'[t] = victim[t] /\ rec' = rec
        /\ pc'[t] \in {"trimf", "ret"}
    BY <1>3 DEF EvictNoMore, Same, index, cvars, Goto, CacheType
  <2>2. Works(t, f)' <=> Works(t, f)
    BY <1>0, <1>1, <2>1 DEF Works
  <2>3. Works(t, f) /\ Stage(t, f) => Stage(t, f)'
    BY <1>0, <1>1, <1>2, <2>1 DEF Stage, Rest
  <2> QED
    BY <1>0, <2>1, <2>2, <2>3, FileFrame
<1>4. CASE EvictForBytes(t) \/ EvictForFiles(t)
  <2>1. PICK g \in Files, back \in {"trimb", "trimf"} : TakeOut(t, g, back)
    BY <1>4 DEF EvictForBytes, EvictForFiles
  <2>2. \/ /\ rec[g] = None /\ pc'[t] = back /\ victim'[t] = None
        \/ /\ rec[g] # None /\ pc'[t] = "uncount" /\ victim'[t] = g
    BY <1>0, <2>1, TakeOutCall
  <2>3. \A h \in Files : rec'[h] = IF h = g THEN None ELSE rec[h]
    BY <2>1, TakeOutFile
  <2>4. \A h \in Files \ {g} : Works(t, h)' <=> Works(t, h)
    BY <1>0, <1>1, <2>2 DEF Works
  <2>5. \A h \in Files \ {g} : Works(t, h) /\ Stage(t, h) => Stage(t, h)'
    BY <1>0, <1>1, <1>2, <2>2, <2>3 DEF Stage, Rest
  <2>6. ASSUME clean'[g], Sole(t, g)
        PROVE  /\ Rest(g)
               /\ rec[g] = None /\ Works(t, g)' => Stage(t, g)'
               /\ file'[t] = g => ver'[t] >= least[g] /\ ver'[t] = issued'[g]
    <3>1. clean[g] /\ FileInv(g)
      BY <2>1, <2>6, TakeOutFile
    <3>2. Works(t, g) => Stage(t, g)
      BY <3>1 DEF FileInv
    <3>3. ~Works(t, g) => Rest(g)
      BY <2>6, <3>1 DEF FileInv, Sole
    <3>4. Rest(g) /\ (file[t] = g => ver[t] >= least[g] /\ ver[t] = issued[g])
      BY <1>1, <1>2, <3>2, <3>3
    <3>5. ASSUME rec[g] = None PROVE Stage(t, g)'
      BY <1>0, <2>2, <2>3, <3>4, <3>5 DEF Stage, Rest
    <3> QED
      BY <1>0, <3>4, <3>5
  <2> QED
    BY <1>0, <2>1, <2>4, <2>5, <2>6, TakeOutStep
<1> QED
  BY <1>3, <1>4 DEF Evict

LEMMA RemoveFile ==
  ASSUME CacheInv, NEW t \in Threads, Step(t), RemoveEntry(t) \/ Return(t), NEW f \in Files
  PROVE  FileInv(f)'
<1> USE DEF CacheInv
<1>0. /\ Local(t) /\ FileInv(f) /\ None \notin Files /\ pc[t] # "idle" /\ file[t] \in Files
      /\ None \notin Nat /\ clean' = clean /\ Call(t)
  BY LocalStep, CacheAssumption
     DEF RemoveEntry, Uncount, UnlinkContent, UnlinkMeta, Return, CallInv, Call, CacheType, gvars
<1>1. CASE Uncount(t)
  <2>1. Same(f) /\ victim'[t] = victim[t] /\ out'[t] = out[t] /\ pc'[t] = "unlinkc"
    BY <1>1 DEF Uncount, Same, CacheType, Goto, gvars
  <2>2. UNCHANGED <<op, file, ver, part, disk, rec, tmp, least, issued>>
    BY <1>1 DEF Uncount, cvars, gvars
  <2>3. Works(t, f)' <=> Works(t, f)
    BY <1>0, <2>1, <2>2 DEF Works
  <2>4. Works(t, f) /\ Stage(t, f) => Stage(t, f)'
    BY <1>0, <1>1, <2>1, <2>2 DEF Stage, Rest, Uncount
  <2> QED
    BY <1>0, <2>1, <2>3, <2>4, FileFrame
<1>2. CASE UnlinkContent(t)
  <2>1. victim'[t] = victim[t] /\ pc'[t] = "unlinkm" /\ pc[t] = "unlinkc"
    BY <1>2 DEF UnlinkContent, CacheType, Goto
  <2>2. UNCHANGED <<op, file, ver, part, rec, tmp, least, issued>>
    BY <1>2 DEF UnlinkContent, cvars, gvars, index
  <2>3. Works(t, f)' <=> Works(t, f)
    BY <1>0, <2>1, <2>2 DEF Works
  <2>4. /\ disk'["meta"][f] = disk["meta"][f]
        /\ disk'["content"][f] = IF f = victim[t] THEN None ELSE disk["content"][f]
    BY <1>2 DEF UnlinkContent, CacheType, Parts
  <2>5. Works(t, f) /\ Stage(t, f) => Stage(t, f)'
    BY <1>0, <2>1, <2>2, <2>4 DEF Stage, Rest
  <2>6. CASE f = victim[t]
    <3>1. Works(t, f)
      BY <1>0, <2>6 DEF Works
    <3> QED
      BY <1>0, <2>3, <2>5, <3>1, FileStep DEF FileInv
  <2>7. CASE f # victim[t]
    <3>1. Same(f)
      BY <2>2, <2>4, <2>7 DEF Same, Parts
    <3> QED
      BY <1>0, <2>3, <2>5, <3>1, FileFrame
  <2> QED
    BY <2>6, <2>7
<1>3. CASE UnlinkMeta(t)
  <2>1. /\ victim'[t] = None /\ pc'[t] = then[t] /\ pc[t] = "unlinkm"
        /\ then[t] \in {"write", "trimb", "trimf", "ret"}
    BY <1>3 DEF UnlinkMeta, CacheType, Goto
  <2>2. UNCHANGED <<op, file, ver, part, rec, tmp, least, issued>>
    BY <1>3 DEF UnlinkMeta, cvars, gvars, index
  <2>3. /\ disk'["content"][f] = disk["content"][f]
        /\ disk'["meta"][f] = IF f = victim[t] THEN None ELSE disk["meta"][f]
    BY <1>3 DEF UnlinkMeta, CacheType, Parts
  <2>4. CASE f = victim[t]
    <3>1. Works(t, f)
      BY <1>0, <2>4 DEF Works
    <3>2. SUFFICES ASSUME clean[f], Sole(t, f), Stage(t, f)
                   PROVE  (Works(t, f)' => Stage(t, f)') /\ (~Works(t, f)' => Rest(f)')
      BY <1>0, <3>1, FileStep DEF FileInv
    <3>3. rec[f] = None /\ disk["content"][f] = None
      BY <2>1, <2>4, <3>2 DEF Stage
    <3>4. Rest(f)'
      BY <2>2, <2>3, <2>4, <3>3 DEF Rest
    <3>5. op[t] = "put" /\ file[t] = f => ver[t] >= least[f] /\ ver[t] = issued[f]
      BY <3>2 DEF Stage
    <3>6. pc'[t] = "write" => part'[t] = "content"
      BY <1>0, <2>1, <2>2 DEF Call, Removing
    <3>7. Stage(t, f)'
      BY <1>0, <2>1, <2>2, <2>3, <2>4, <3>3, <3>4, <3>5, <3>6 DEF Stage
    <3> QED
      BY <3>4, <3>7
  <2>5. CASE f # victim[t]
    <3>1. Same(f)
      BY <2>2, <2>3, <2>5 DEF Same, Parts
    <3>2. Works(t, f)' <=> Works(t, f)
      BY <1>0, <2>1, <2>2, <2>5 DEF Works
    <3>3. Works(t, f) => op[t] = "put" /\ file[t] = f /\ then[t] \in {"trimb", "trimf"}
      BY <1>0, <2>1, <2>5 DEF Works, Call, Removing
    <3>4. Works(t, f) /\ Stage(t, f) => Stage(t, f)'
      BY <1>0, <2>1, <2>2, <2>3, <2>5, <3>3 DEF Stage, Rest
    <3> QED
      BY <1>0, <3>1, <3>2, <3>4, FileFrame
  <2> QED
    BY <2>4, <2>5
<1>4. CASE Return(t)
  <2>1. /\ pc[t] = "ret" /\ pc'[t] = "idle" /\ victim[t] = None
        /\ UNCHANGED <<rec, disk, tmp, issued>>
    BY <1>0, <1>4 DEF Return, Goto, CacheType, Call, Removing, index
  <2>2. ~Works(t, f)' /\ (Works(t, f) <=> op[t] # "get" /\ file[t] = f)
    BY <1>0, <2>1 DEF Works
  <2>3. least'[f] # least[f] =>
          /\ op[t] # "get" /\ file[t] = f
          /\ op[t] = "put" => least'[f] = ver[t]
    BY <1>0, <1>4 DEF Return, CacheType
  <2>4. CASE ~Works(t, f)
    <3>1. Same(f)
      BY <2>1, <2>2, <2>3, <2>4 DEF Same
    <3> QED
      BY <1>0, <2>2, <2>4, <3>1, FileFrame
  <2>5. CASE Works(t, f)
    <3>1. SUFFICES ASSUME clean[f], Sole(t, f), Stage(t, f) PROVE Rest(f)'
      BY <1>0, <2>2, <2>5, FileStep DEF FileInv
    <3>2. Rest(f) /\ (rec[f] = None \/ (op[t] = "put" /\ rec[f] = ver[t]))
      BY <1>0, <2>1, <3>1 DEF Stage
    <3>3. rec[f] # None => rec[f] >= least'[f]
      BY <1>0, <2>3, <3>2 DEF Rest, CacheType
    <3> QED
      BY <2>1, <3>2, <3>3 DEF Rest
  <2> QED
    BY <2>4, <2>5
<1> QED
  BY <1>1, <1>2, <1>3, <1>4 DEF RemoveEntry

-----------------------------------------------------------------------------
(* What is known of a get holds after every step of a thread.                *)

\* The content file of an indexed file that is clean is as new as a get may ask for.
LEMMA IndexedIsFresh ==
  ASSUME CacheInv, NEW f \in Files, clean[f], rec[f] # None
  PROVE  disk["content"][f] = rec[f] /\ rec[f] >= least[f]
<1> USE DEF CacheInv
<1>1. CASE \A t \in Threads : ~Works(t, f)
  BY <1>1 DEF FileInv, Rest
<1>2. CASE \E t \in Threads : Works(t, f)
  <2>1. PICK t \in Threads : Works(t, f)
    BY <1>2
  <2>2. Stage(t, f)
    BY <2>1 DEF FileInv
  <2> QED
    BY <2>2 DEF Stage, Rest
<1> QED
  BY <1>1, <1>2

\* A content file of a clean file changes by being deleted or by a fresh one.
LEMMA ContentStep ==
  ASSUME CacheInv, NEW t \in Threads, Step(t), NEW f \in Files, clean'[f]
  PROVE  \/ disk'["content"][f] \in {None, disk["content"][f]}
         \/ disk'["content"][f] >= least[f]
<1> USE DEF CacheInv
<1>1. CASE Rename(t)
  <2>1. /\ clean' = clean /\ pc[t] = "rename" /\ part[t] \in Parts /\ file[t] \in Files
        /\ op[t] = "put" /\ victim[t] = None /\ None \notin Files
    BY <1>1, CacheAssumption
       DEF Rename, gvars, CacheType, CallInv, Call, Storing, Removing
  <2>2. CASE file[t] = f /\ part[t] = "content"
    <3>1. Stage(t, f)
      BY <2>1, <2>2 DEF FileInv, Works
    <3>2. tmp[part[t]][f] = ver[t] /\ ver[t] >= least[f]
      BY <2>1, <2>2, <3>1 DEF Stage
    <3>3. disk'["content"][f] \in {disk["content"][f], tmp["content"][f]}
      BY <1>1, <2>2 DEF Rename, CacheType, Parts
    <3> QED
      BY <2>2, <3>2, <3>3
  <2>3. CASE ~(file[t] = f /\ part[t] = "content")
    BY <1>1, <2>3 DEF Rename, CacheType, Parts
  <2> QED
    BY <2>2, <2>3
<1>2. CASE UnlinkContent(t) \/ UnlinkMeta(t)
  BY <1>2 DEF UnlinkContent, UnlinkMeta, CacheType, Parts
<1>3. CASE ~(Rename(t) \/ UnlinkContent(t) \/ UnlinkMeta(t))
  <2>1. disk' = disk
    BY <1>3 DEF Step, CallGet, CallPut, CallInvalidate, Get, Read, DropUnreadable, Touch, Put,
       Write, Unwind, Insert, Count, Evict, EvictForBytes, EvictForFiles, EvictNoMore,
       RemoveEntry, Uncount, Return
  <2> QED
    BY <2>1
<1> QED
  BY <1>1, <1>2, <1>3

LEMMA ReadStep ==
  ASSUME CacheInv, CacheType', CallInv', NEW t \in Threads, Step(t), NEW v \in Threads
  PROVE  ReadOf(v)'
<1> USE DEF CacheInv
<1>1. /\ Local(t) /\ ReadOf(t) /\ ReadOf(v) /\ Call(t) /\ Call(t)'
      /\ None \notin Files /\ None \notin Nat
  BY LocalStep, CacheAssumption DEF CallInv
<1>2. \A f \in Files : least[f] <= least'[f] /\ (clean'[f] => clean[f])
  BY HistoryStep
<1>3. CASE v # t
  BY <1>1, <1>2, <1>3, ContentStep, ReadFrame
<1>4. SUFFICES ASSUME op'[t] = "get", file'[t] # None PROVE ReadOf(t)'
  BY <1>3 DEF ReadOf
<1>5. ASSUME NEW f \in Files, CallGet(t, f) PROVE ReadOf(t)'
  <2>1. /\ file'[t] = f /\ floor'[t] = least[f] /\ got'[t] = None
        /\ UNCHANGED <<disk, least, clean>> /\ rec[f] # None
    BY <1>1, <1>5 DEF CallGet, CacheType, gvars, Call
  <2>2. clean[f] => disk["content"][f] >= least[f]
    BY <2>1, IndexedIsFresh
  <2>3. least[f] <= least[f]
    BY DEF CacheType
  <2> QED
    BY <2>1, <2>2, <2>3 DEF ReadOf
<1>6. CASE Read(t)
  <2>1. /\ UNCHANGED <<disk, least, clean, file, floor, op>> /\ pc[t] = "read"
        /\ pc'[t] # "read" /\ got[t] = None
        /\ got'[t] \in {None, disk["content"][file[t]]}
    BY <1>1, <1>6 DEF Read, CacheType, cvars, gvars, Goto, Call
  <2> QED
    BY <1>1, <2>1 DEF ReadOf
<1>7. ASSUME UNCHANGED <<least, file, floor, op>>, clean'[file[t]] => clean[file[t]],
             got'[t] \in {None, got[t]}, pc'[t] # "read"
      PROVE  ReadOf(t)'
  BY <1>1, <1>4, <1>7 DEF ReadOf
<1>8. CASE DropUnreadable(t) \/ Evict(t)
  <2>1. /\ UNCHANGED <<least, file, floor, op, got>> /\ file[t] \in Files
        /\ pc[t] \notin {"idle", "read"} /\ pc[t] \notin Removing
    BY <1>1, <1>8 DEF DropUnreadable, Evict, EvictForBytes, EvictForFiles, EvictNoMore, cvars,
       CacheType, Call, Removing
  <2>2. pc'[t] # "read"
    <3>1. CASE DropUnreadable(t)
      BY <3>1, <2>1, TakeOutCall DEF DropUnreadable
    <3>2. CASE EvictForBytes(t) \/ EvictForFiles(t)
      BY <3>2, <2>1, TakeOutCall DEF EvictForBytes, EvictForFiles
    <3>3. CASE EvictNoMore(t)
      BY <3>3 DEF EvictNoMore, Goto, CacheType
    <3> QED
      BY <1>8, <3>1, <3>2, <3>3 DEF Evict
  <2> QED
    BY <1>2, <1>7, <2>1, <2>2
<1>9. CASE Touch(t) \/ RemoveEntry(t) \/ Put(t)
  <2>1. UNCHANGED <<least, file, floor, op, clean>> /\ got'[t] \in {None, got[t]}
    BY <1>9 DEF Touch, RemoveEntry, Uncount, UnlinkContent, UnlinkMeta, Put, Write, Rename,
       Unwind, Insert, Count, CacheType, cvars, gvars
  <2>2. pc'[t] # "read"
    BY <1>9 DEF Touch, RemoveEntry, Uncount, UnlinkContent, UnlinkMeta, Put, Write, Rename,
       Unwind, Insert, Count, CacheType, Goto
  <2> QED
    BY <1>7, <2>1, <2>2
<1>10. ~Return(t) /\ \A f \in Files : ~CallPut(t, f) /\ ~CallInvalidate(t, f)
  BY <1>4 DEF CallPut, CallInvalidate, Return, CacheType
<1> QED
  BY <1>5, <1>6, <1>8, <1>9, <1>10 DEF Step, Get

-----------------------------------------------------------------------------
(* A crash, and the theorems.                                               *)

\* Wherever the process dies, a clean file's pair on disk is one version, and not one
\* older than a get may ask for.
LEMMA SidecarsFresh ==
  ASSUME CacheInv, NEW f \in Restorable, clean[f]
  PROVE  disk["meta"][f] = disk["content"][f] /\ disk["meta"][f] >= least[f]
<1> USE DEF CacheInv
<1>0. f \in Files /\ disk["meta"][f] # None /\ disk["content"][f] # None
  BY DEF Restorable
<1>1. CASE \A t \in Threads : ~Works(t, f)
  BY <1>0, <1>1 DEF FileInv, Rest
<1>2. CASE \E t \in Threads : Works(t, f)
  <2>1. PICK t \in Threads : Works(t, f)
    BY <1>2
  <2>2. Stage(t, f)
    BY <1>0, <2>1 DEF FileInv
  <2>3. CASE victim[t] = f
    <3>1. pc[t] \in Removing
      BY <1>0, <2>3, CacheAssumption DEF CallInv, Call
    <3> QED
      BY <1>0, <2>2, <2>3, <3>1 DEF Stage, Removing
  <2>4. CASE pc[t] = "insert" /\ victim[t] # f
    <3>1. op[t] = "put" /\ file[t] = f
      BY <2>1, <2>4 DEF Works, CallInv, Call, Storing
    <3> QED
      BY <2>2, <2>4, <3>1 DEF Stage
  <2>5. CASE pc[t] # "insert" /\ victim[t] # f
    BY <1>0, <2>2, <2>5 DEF Stage, Rest
  <2> QED
    BY <2>3, <2>4, <2>5
<1> QED
  BY <1>1, <1>2

LEMMA CrashStep ==
  ASSUME CacheInv, CrashRestart
  PROVE  CacheInv'
<1> USE DEF CacheInv
<1>1. /\ \A t \in Threads :
           /\ pc'[t] = "idle" /\ op'[t] = "get" /\ file'[t] = None /\ ver'[t] = None
           /\ part'[t] = "content" /\ victim'[t] = None /\ got'[t] = None
      /\ UNCHANGED <<least, issued, clean>>
  BY DEF CrashRestart, NoThread
<1>2. /\ \A f \in Files : rec'[f] = IF f \in Restorable THEN disk["meta"][f] ELSE None
      /\ rec' \in [Files -> Nat \cup {None}]
  BY DEF CrashRestart, CacheType, Parts
<1>3. \A f \in Files : disk'["meta"][f] = rec'[f] /\ disk'["content"][f] = disk["content"][f]
  BY DEF CrashRestart, CacheType, Parts
<1>4. CacheType'
  <2>1. disk' \in [Parts -> [Files -> Nat \cup {None}]]
    BY <1>2 DEF CrashRestart, CacheType
  <2> QED
    BY <1>2, <2>1 DEF CrashRestart, CacheType, NoThread, Points, Parts
<1>5. CallInv'
  BY <1>1 DEF CallInv, Call, Removing, Storing
<1>6. LeastInv'
  BY <1>1 DEF LeastInv
<1>7. ASSUME NEW f \in Files PROVE FileInv(f)'
  <2>1. \A t \in Threads : ~Works(t, f)'
    BY <1>1 DEF Works
  <2>2. ASSUME clean[f] PROVE Rest(f)'
    BY <1>1, <1>2, <1>3, <2>2, SidecarsFresh, CacheAssumption DEF Rest, CacheType
  <2> QED
    BY <1>1, <2>1, <2>2 DEF FileInv
<1>8. ASSUME NEW t \in Threads PROVE ReadOf(t)'
  BY <1>1 DEF ReadOf
<1> QED
  BY <1>4, <1>5, <1>6, <1>7, <1>8

LEMMA CacheInvInit == Init => CacheInv
<1> SUFFICES ASSUME Init PROVE CacheInv
  OBVIOUS
<1>1. CacheType
  BY DEF Init, CacheType, NoThread, Points, Parts
<1>2. CallInv
  BY DEF Init, CallInv, Call, NoThread, Removing, Storing
<1>3. LeastInv
  BY DEF Init, LeastInv
<1>4. ASSUME NEW f \in Files PROVE FileInv(f)
  BY DEF Init, FileInv, Works, Rest, NoThread, Parts
<1>5. ASSUME NEW t \in Threads PROVE ReadOf(t)
  BY DEF Init, ReadOf, NoThread
<1> QED
  BY <1>1, <1>2, <1>3, <1>4, <1>5 DEF CacheInv

LEMMA CacheInvNext == CacheInv /\ [Next]_vars => CacheInv'
<1> SUFFICES ASSUME CacheInv, [Next]_vars PROVE CacheInv'
  OBVIOUS
<1>1. ASSUME NEW t \in Threads, Step(t) PROVE CacheInv'
  <2>1. CacheType'
    BY <1>1, TypeStep DEF CacheInv
  <2>2. CallInv'
    BY <1>1, <2>1, CallStep DEF CacheInv
  <2>3. LeastInv'
    BY <1>1, <2>1, HistoryStep DEF CacheInv
  <2>4. ASSUME NEW f \in Files PROVE FileInv(f)'
    BY <1>1, CallFile, GetFile, PutFile, EvictFile, RemoveFile DEF Step
  <2>5. \A v \in Threads : ReadOf(v)'
    BY <1>1, <2>1, <2>2, ReadStep
  <2> QED
    BY <2>1, <2>2, <2>3, <2>4, <2>5 DEF CacheInv
<1>2. CASE CrashRestart
  BY <1>2, CrashStep
<1>3. CASE UNCHANGED vars
  BY <1>3 DEF vars, index, cvars, gvars, CacheInv, CacheType, CallInv, Call, LeastInv, FileInv,
     Works, Sole, Stage, Rest, ReadOf
<1> QED
  BY <1>1, <1>2, <1>3 DEF Next, Step

LEMMA CacheInvariant == Spec => []CacheInv
  BY CacheInvInit, CacheInvNext, PTL DEF Spec

\* The restart of cache.py reads a .meta file of the content beside it, wherever the
\* process died, if nobody else worked on the file beside a put or an invalidate.
THEOREM SidecarsAlwaysAgree == Spec => []SidecarsAgree
<1>1. CacheInv => SidecarsAgree
  BY SidecarsFresh DEF SidecarsAgree
<1> QED
  BY <1>1, CacheInvariant, PTL

\* No get returns content older than the last put or invalidate that was over when
\* the get began, across evictions, errors and restarts.
THEOREM HitsAlwaysFresh == Spec => []HitsFresh
<1>1. CacheInv => HitsFresh
  <2> SUFFICES ASSUME CacheInv, NEW t \in Threads, pc[t] = "ret", got[t] # None, clean[file[t]]
               PROVE  got[t] >= floor[t]
    BY DEF HitsFresh
  <2>1. op[t] = "get" /\ file[t] # None
    BY DEF CacheInv, CallInv, Call
  <2> QED
    BY <2>1 DEF CacheInv, ReadOf
<1> QED
  BY <1>1, CacheInvariant, PTL

-----------------------------------------------------------------------------
(* A sum over a finite set, as the number of its numbered units.            *)

Row(x, n)   == {x} \X (1..n)
Units(S, g) == UNION {Row(x, g[x]) : x \in S}

LEMMA RowSize ==
  ASSUME NEW x, NEW n \in Nat
  PROVE  IsFiniteSet(Row(x, n)) /\ Cardinality(Row(x, n)) = n
<1>1. IsFiniteSet({x}) /\ Cardinality({x}) = 1
  BY FS_Singleton
<1>2. IsFiniteSet(1..n) /\ Cardinality(1..n) = n
  BY FS_Interval
<1>3. /\ IsFiniteSet({x} \X (1..n))
      /\ Cardinality({x} \X (1..n)) = Cardinality({x}) * Cardinality(1..n)
  BY <1>1, <1>2, FS_Product
<1>4. 1 * n = n
  OBVIOUS
<1> QED
  BY <1>1, <1>2, <1>3, <1>4 DEF Row

LEMMA UnitsFinite ==
  ASSUME NEW S, IsFiniteSet(S), NEW g, \A x \in S : g[x] \in Nat
  PROVE  IsFiniteSet(Units(S, g)) /\ Cardinality(Units(S, g)) \in Nat
<1> DEFINE T == {Row(x, g[x]) : x \in S}
           h == [x \in S |-> Row(x, g[x])]
<1>1. h \in Surjection(S, T)
  BY DEF Surjection
<1>2. IsFiniteSet(T)
  BY <1>1, FS_Surjection
<1>3. \A V \in T : IsFiniteSet(V)
  BY RowSize
<1>4. IsFiniteSet(UNION T)
  BY <1>2, <1>3, FS_UNION
<1> QED
  BY <1>4, FS_CardinalityType DEF Units

LEMMA UnitsAdd ==
  ASSUME NEW S, IsFiniteSet(S), NEW x, x \notin S, NEW g, \A y \in S \cup {x} : g[y] \in Nat
  PROVE  Cardinality(Units(S \cup {x}, g)) = Cardinality(Units(S, g)) + g[x]
<1>1. Units(S \cup {x}, g) = Units(S, g) \cup Row(x, g[x])
  BY DEF Units
<1>2. Units(S, g) \cap Row(x, g[x]) = {}
  BY DEF Units, Row
<1>3. IsFiniteSet(Units(S, g)) /\ Cardinality(Units(S, g)) \in Nat
  BY UnitsFinite
<1>4. IsFiniteSet(Row(x, g[x])) /\ Cardinality(Row(x, g[x])) = g[x] /\ g[x] \in Nat
  BY RowSize
<1>5. Cardinality(Units(S, g) \cap Row(x, g[x])) = 0
  BY <1>2, FS_EmptySet
<1>6. Cardinality(Units(S, g) \cup Row(x, g[x]))
        = Cardinality(Units(S, g)) + Cardinality(Row(x, g[x]))
            - Cardinality(Units(S, g) \cap Row(x, g[x]))
  BY <1>3, <1>4, FS_Union
<1>7. Cardinality(Units(S \cup {x}, g)) = Cardinality(Units(S, g) \cup Row(x, g[x]))
  BY <1>1
<1>8. \A a, b, c, d : a \in Nat /\ b \in Nat /\ c = 0 /\ d = a + b - c => d = a + b
  OBVIOUS
<1> QED
  BY <1>3, <1>4, <1>5, <1>6, <1>7, <1>8

LEMMA BytesUnits ==
  ASSUME NEW S, NEW v
  PROVE  Bytes(S, v) = Cardinality(Units(S, [x \in S |-> Size[v[x]]]))
<1>1. \A x \in S : [y \in S |-> Size[v[y]]][x] = Size[v[x]]
  OBVIOUS
<1>2. UNION {{x} \X (1..Size[v[x]]) : x \in S}
        = UNION {{x} \X (1..[y \in S |-> Size[v[y]]][x]) : x \in S}
  BY <1>1
<1> QED
  BY <1>2 DEF Bytes, Units, Row

-----------------------------------------------------------------------------
(* The LRU list orders the indexed files.                                   *)

\* An order of a set: every member once.
Orders(s, S) == s \in Seq(S) /\ IsInjective(s) /\ ToSet(s) = S

LEMMA RemoveFirstOrders ==
  ASSUME NEW S, NEW s, Orders(s, S), NEW e \in S
  PROVE  Orders(RemoveFirst(s, e), S \ {e}) /\ Len(RemoveFirst(s, e)) = Len(s) - 1
<1>0. /\ s \in Seq(S) /\ Len(s) \in Nat /\ DOMAIN s = 1..Len(s)
      /\ \A i \in 1..Len(s) : s[i] \in S
      /\ \A i, j \in 1..Len(s) : s[i] = s[j] => i = j
      /\ \A x \in S : \E i \in 1..Len(s) : s[i] = x
  BY DEF Orders, IsInjective, ToSet
<1>1. PICK i \in 1..Len(s) : s[i] = e
  BY <1>0
<1>2. {j \in 1..Len(s) : s[j] = e} = {i}
  BY <1>0, <1>1
<1>3. Min({i}) = i
  BY DEF Min
<1> DEFINE a == SubSeq(s, 1, i - 1)
           b == SubSeq(s, i + 1, Len(s))
<1>4. RemoveFirst(s, e) = a \o b
  BY <1>1, <1>2, <1>3 DEF RemoveFirst, SelectInSeq, RemoveAt
<1>t. PICK T : T = S \ {e}
  OBVIOUS
<1>5. /\ a \in Seq(T) /\ Len(a) = i - 1
      /\ \A k \in 1..(i - 1) : a[k] = s[k]
  <2>1. \A k \in 1..(i - 1) : s[k] \in T /\ 1 + k - 1 = k
    BY <1>t, <1>0, <1>1
  <2>2. /\ a \in Seq(T) /\ Len(a) = IF 1 <= i - 1 THEN i - 1 - 1 + 1 ELSE 0
        /\ \A k \in 1..(i - 1 - 1 + 1) : a[k] = s[1 + k - 1]
    BY <2>1, SubSeqProperties
  <2> HIDE DEF a
  <2> QED
    BY <2>1, <2>2
<1>6. /\ b \in Seq(T) /\ Len(b) = Len(s) - i
      /\ \A k \in 1..(Len(s) - i) : b[k] = s[i + k]
  <2>1. \A k \in (i + 1)..Len(s) : s[k] \in T
    BY <1>t, <1>0, <1>1
  <2>2. /\ b \in Seq(T) /\ Len(b) = IF i + 1 <= Len(s) THEN Len(s) - (i + 1) + 1 ELSE 0
        /\ \A k \in 1..(Len(s) - (i + 1) + 1) : b[k] = s[(i + 1) + k - 1]
    BY <1>0, <2>1, SubSeqProperties
  <2> HIDE DEF b
  <2>3. Len(s) - (i + 1) + 1 = Len(s) - i
    BY <1>0
  <2>4. ASSUME NEW k \in 1..(Len(s) - i) PROVE b[k] = s[i + k]
    <3>1. (i + 1) + k - 1 = i + k
      BY <1>0
    <3>2. b[k] = s[(i + 1) + k - 1]
      BY <2>2, <2>3
    <3> QED
      BY <3>1, <3>2
  <2>5. Len(b) = Len(s) - i
    <3>1. Len(b) = IF i + 1 <= Len(s) THEN Len(s) - (i + 1) + 1 ELSE 0
      BY <2>2
    <3>2. \A n \in Nat : i <= n => (IF i + 1 <= n THEN n - (i + 1) + 1 ELSE 0) = n - i
      OBVIOUS
    <3>3. Len(s) \in Nat /\ i <= Len(s)
      BY <1>0
    <3> QED
      BY <3>1, <3>2, <3>3
  <2> QED
    BY <2>2, <2>4, <2>5
<1> HIDE DEF a, b
<1> DEFINE r == a \o b
<1>7. /\ r \in Seq(T) /\ Len(r) = Len(s) - 1 /\ DOMAIN r = 1..(Len(s) - 1)
      /\ \A k \in 1..(Len(s) - 1) : r[k] = s[IF k < i THEN k ELSE k + 1]
  <2>1. /\ r \in Seq(T) /\ Len(r) = Len(a) + Len(b)
        /\ \A k \in 1..(Len(a) + Len(b)) : r[k] = IF k <= Len(a) THEN a[k] ELSE b[k - Len(a)]
    BY <1>5, <1>6, ConcatProperties
  <2>2. Len(a) + Len(b) = Len(s) - 1
    BY <1>0, <1>5, <1>6
  <2>3. ASSUME NEW k \in 1..(Len(s) - 1) PROVE r[k] = s[IF k < i THEN k ELSE k + 1]
    <3>1. CASE k < i
      BY <1>0, <1>5, <2>1, <2>2, <3>1
    <3>2. CASE ~(k < i)
      <4>1. k - (i - 1) \in 1..(Len(s) - i) /\ i + (k - (i - 1)) = k + 1
        BY <1>0, <3>2
      <4>2. r[k] = b[k - (i - 1)]
        BY <1>0, <1>5, <2>1, <2>2, <3>2
      <4>3. b[k - (i - 1)] = s[k + 1]
        BY <1>6, <4>1
      <4> HIDE DEF r
      <4> QED
        BY <3>2, <4>2, <4>3
    <3> QED
      BY <3>1, <3>2
  <2> HIDE DEF r
  <2>4. r \in Seq(T) /\ Len(r) = Len(s) - 1
    BY <2>1, <2>2
  <2>5. DOMAIN r = 1..(Len(s) - 1)
    BY <2>4, LenProperties
  <2> QED
    BY <2>3, <2>4, <2>5
<1> HIDE DEF r
<1>8. IsInjective(r)
  <2> SUFFICES ASSUME NEW j \in 1..(Len(s) - 1), NEW k \in 1..(Len(s) - 1), r[j] = r[k]
               PROVE  j = k
    BY <1>7 DEF IsInjective
  <2> DEFINE at(n) == IF n < i THEN n ELSE n + 1
  <2>1. at(j) \in 1..Len(s) /\ at(k) \in 1..Len(s) /\ (at(j) = at(k) => j = k)
    BY <1>0
  <2>2. s[at(j)] = s[at(k)]
    BY <1>7
  <2> QED
    BY <1>0, <2>1, <2>2
<1>9. ToSet(r) = T
  <2>1. \A x \in ToSet(r) : x \in T
    BY <1>7 DEF ToSet
  <2>2. ASSUME NEW x \in T PROVE x \in ToSet(r)
    <3>1. PICK j \in 1..Len(s) : s[j] = x
      BY <1>t, <1>0
    <3>2. j # i
      BY <1>t, <1>1, <3>1
    <3> DEFINE k == IF j < i THEN j ELSE j - 1
    <3>3. k \in 1..(Len(s) - 1) /\ (IF k < i THEN k ELSE k + 1) = j
      BY <1>0, <3>2
    <3>4. r[k] = x
      BY <1>7, <3>1, <3>3
    <3> QED
      BY <1>7, <3>3, <3>4 DEF ToSet
  <2> QED
    BY <2>1, <2>2
<1> QED
  BY <1>t, <1>4, <1>7, <1>8, <1>9 DEF Orders, r

LEMMA AppendOrders ==
  ASSUME NEW S, NEW s, Orders(s, S), NEW e, e \notin S
  PROVE  Orders(Append(s, e), S \cup {e}) /\ Len(Append(s, e)) = Len(s) + 1
<1>0. /\ s \in Seq(S \cup {e}) /\ Len(s) \in Nat /\ DOMAIN s = 1..Len(s)
      /\ \A i \in 1..Len(s) : s[i] \in S
      /\ \A i, j \in 1..Len(s) : s[i] = s[j] => i = j
      /\ \A x \in S : \E i \in 1..Len(s) : s[i] = x
  BY SeqMonotonic DEF Orders, IsInjective, ToSet
<1> DEFINE r == Append(s, e)
<1>1. /\ r \in Seq(S \cup {e}) /\ Len(r) = Len(s) + 1 /\ DOMAIN r = 1..(Len(s) + 1)
      /\ \A i \in 1..Len(s) : r[i] = s[i]
      /\ r[Len(s) + 1] = e
  BY <1>0, AppendProperties
<1> HIDE DEF r
<1>2. IsInjective(r)
  <2> SUFFICES ASSUME NEW i \in 1..(Len(s) + 1), NEW j \in 1..(Len(s) + 1), r[i] = r[j]
               PROVE  i = j
    BY <1>1 DEF IsInjective
  <2> QED
    BY <1>0, <1>1
<1>3. ToSet(r) = S \cup {e}
  <2>1. \A x \in ToSet(r) : x \in S \cup {e}
    BY <1>0, <1>1 DEF ToSet
  <2>2. ASSUME NEW x \in S PROVE x \in ToSet(r)
    <3>1. PICK i \in 1..Len(s) : s[i] = x
      BY <1>0
    <3> QED
      BY <1>0, <1>1, <3>1 DEF ToSet
  <2>3. e \in ToSet(r)
    BY <1>0, <1>1 DEF ToSet
  <2> QED
    BY <2>1, <2>2, <2>3
<1> QED
  BY <1>1, <1>2, <1>3 DEF Orders, r

LEMMA SetToSeqsOrders ==
  ASSUME NEW S, IsFiniteSet(S), NEW s \in SetToSeqs(S)
  PROVE  Orders(s, S)
<1> DEFINE D == 1..Cardinality(S)
<1>1. /\ Cardinality(S) \in Nat /\ IsFiniteSet(D) /\ Cardinality(D) = Cardinality(S)
  BY FS_CardinalityType, FS_Interval
<1>2. s \in [D -> S] /\ \A i, j \in D : s[i] = s[j] => i = j
  BY DEF SetToSeqs
<1>3. s \in Injection(D, S)
  BY <1>2 DEF Injection, IsInjective
<1>4. s \in Surjection(D, S)
  BY <1>1, <1>3, FS_Injection
<1>5. ToSet(s) = S
  BY <1>2, <1>4 DEF Surjection, ToSet
<1> QED
  BY <1>1, <1>2, <1>5 DEF Orders, IsInjective

-----------------------------------------------------------------------------
(* The sums of the cache and the steps that change them.                    *)

LEMMA BytesNat ==
  ASSUME NEW S, IsFiniteSet(S), NEW v, \A x \in S : v[x] \in Versions
  PROVE  Bytes(S, v) \in Nat
<1> DEFINE g == [x \in S |-> Size[v[x]]]
<1>1. \A x \in S : g[x] \in Nat
  BY CacheAssumption
<1> HIDE DEF g
<1>2. Cardinality(Units(S, g)) \in Nat
  BY <1>1, UnitsFinite
<1> QED
  BY <1>2, BytesUnits DEF g

\* Only the versions of the members count.
LEMMA BytesSame ==
  ASSUME NEW S, NEW v, NEW w, \A x \in S : v[x] = w[x]
  PROVE  Bytes(S, v) = Bytes(S, w)
<1>1. {{x} \X (1..Size[v[x]]) : x \in S} = {{x} \X (1..Size[w[x]]) : x \in S}
  OBVIOUS
<1> QED
  BY <1>1 DEF Bytes

LEMMA BytesEmpty == \A v : Bytes({}, v) = 0
<1>1. UNION {} = {}
  OBVIOUS
<1>2. \A v : {{x} \X (1..Size[v[x]]) : x \in {}} = {}
  OBVIOUS
<1> QED
  BY <1>1, <1>2, FS_EmptySet DEF Bytes

\* w has the version of one member more.
Extends(w, v, S, x) ==
  /\ IsFiniteSet(S) /\ x \notin S /\ w[x] \in Versions
  /\ \A y \in S : v[y] \in Versions /\ w[y] = v[y]

LEMMA BytesAdd ==
  ASSUME NEW S, NEW x, NEW v, NEW w, Extends(w, v, S, x)
  PROVE  Bytes(S \cup {x}, w) = Bytes(S, v) + Size[w[x]]
<1> USE DEF Extends
<1> DEFINE T == S \cup {x}
           g == [y \in T |-> Size[w[y]]]
<1>1. \A y \in T : g[y] \in Nat
  BY CacheAssumption
<1>2. Cardinality(Units(T, g)) = Cardinality(Units(S, g)) + g[x]
  <2> HIDE DEF g
  <2> QED
    BY <1>1, UnitsAdd
<1>3. Units(S, g) = Units(S, [y \in S |-> Size[v[y]]])
  <2>1. \A y \in S : g[y] = [z \in S |-> Size[v[z]]][y]
    OBVIOUS
  <2> HIDE DEF g
  <2> QED
    BY <2>1 DEF Units
<1>4. g[x] = Size[w[x]]
  OBVIOUS
<1>5. Bytes(T, w) = Cardinality(Units(T, g)) /\ Bytes(S, v) = Cardinality(Units(S, g))
  BY <1>3, BytesUnits
<1> HIDE DEF g
<1> QED
  BY <1>2, <1>4, <1>5

-----------------------------------------------------------------------------
(* Which steps change what is counted.                                      *)

\* The entry of the file, which has one, is taken out of the index.
Takes(t, f) ==
  /\ pc[t] \notin Removing \cup {"count"} /\ pc'[t] = "uncount"
  /\ rec[f] # None /\ rec' = [rec EXCEPT ![f] = None]
  /\ lru' = RemoveFirst(lru, f) /\ out'[t] = rec[f] /\ total' = total

\* Nothing that is counted changes.
Spares(t) ==
  /\ rec' = rec /\ total' = total
  /\ lru' = lru \/ Touch(t)
  /\ pc[t] \notin {"uncount", "count"} /\ pc'[t] \notin {"uncount", "count"}

LEMMA TakeOutKind ==
  ASSUME CacheType, NEW t \in Threads, NEW f \in Files,
         NEW back \in {"write", "trimb", "trimf", "ret"}, TakeOut(t, f, back),
         pc[t] \notin Removing \cup {"count"}, total' = total
  PROVE  Takes(t, f) \/ Spares(t)
<1>1. CASE rec[f] = None
  BY <1>1 DEF TakeOut, Spares, Goto, CacheType, Removing
<1>2. CASE rec[f] # None
  BY <1>2 DEF TakeOut, Takes, Goto, CacheType, Removing
<1> QED
  BY <1>1, <1>2

LEMMA StepKinds ==
  ASSUME CacheType, CallInv, NEW t \in Threads, Step(t)
  PROVE  \/ \E f \in Files : Takes(t, f)
         \/ Uncount(t) \/ Insert(t) \/ Count(t) \/ Spares(t)
<1> USE DEF Removing
<1>1. ASSUME NEW f \in Files, CallGet(t, f) PROVE Spares(t)
  BY <1>1 DEF CallGet, index, Spares, Goto, CacheType
<1>2. ASSUME NEW f \in Files, CallPut(t, f) PROVE Takes(t, f) \/ Spares(t)
  BY <1>2, TakeOutKind DEF CallPut, RemovesOldEntry
<1>3. ASSUME NEW f \in Files, CallInvalidate(t, f) PROVE Takes(t, f) \/ Spares(t)
  BY <1>3, TakeOutKind DEF CallInvalidate
<1>4. CASE DropUnreadable(t)
  <2>1. file[t] \in Files
    BY <1>4 DEF DropUnreadable, CacheType, CallInv, Call
  <2> QED
    BY <1>4, <2>1, TakeOutKind DEF DropUnreadable
<1>5. CASE EvictForBytes(t) \/ EvictForFiles(t)
  <2>1. PICK f \in Files, back \in {"trimb", "trimf"} : TakeOut(t, f, back)
    BY <1>5 DEF EvictForBytes, EvictForFiles
  <2>2. total' = total /\ pc[t] \in {"trimb", "trimf"}
    BY <1>5 DEF EvictForBytes, EvictForFiles
  <2> QED
    BY <2>1, <2>2, TakeOutKind
<1>6. CASE Read(t) \/ Write(t) \/ Rename(t) \/ Unwind(t) \/ UnlinkContent(t) \/ EvictNoMore(t)
           \/ Return(t)
  BY <1>6 DEF Read, Write, Rename, Unwind, UnlinkContent, EvictNoMore, Return, index, Spares,
              Goto, CacheType
<1>7. CASE UnlinkMeta(t)
  BY <1>7 DEF UnlinkMeta, index, Spares, Goto, CacheType
<1>8. CASE Touch(t)
  BY <1>8 DEF Touch, Spares, Goto, CacheType
<1> QED
  BY <1>1, <1>2, <1>3, <1>4, <1>5, <1>6, <1>7, <1>8
     DEF Step, Get, Put, Evict, RemoveEntry

-----------------------------------------------------------------------------
(* Types: the order of the index, and the bounds of versions.               *)

LruInv == Orders(lru, Indexed)

LEMMA LruStep ==
  ASSUME CacheType, CacheType', CallInv, LruInv, NEW t \in Threads, Step(t)
  PROVE  LruInv' /\ (Len(lru') <= Len(lru) \/ Insert(t))
<1>0. Orders(lru, Indexed) /\ Len(lru) \in Nat /\ Indexed \subseteq Files
  BY DEF LruInv, Orders, Indexed
<1>1. ASSUME NEW f \in Files, Takes(t, f) PROVE LruInv' /\ Len(lru') <= Len(lru)
  <2>1. f \in Indexed /\ lru' = RemoveFirst(lru, f)
    BY <1>1 DEF Takes, Indexed
  <2>2. Indexed' = Indexed \ {f}
    BY <1>1 DEF Takes, Indexed, CacheType
  <2>3. Orders(lru', Indexed \ {f}) /\ Len(lru') = Len(lru) - 1
    BY <1>0, <2>1, RemoveFirstOrders
  <2> QED
    BY <1>0, <2>2, <2>3 DEF LruInv
<1>2. CASE Insert(t)
  <2>1. /\ file[t] \in Files /\ ver[t] # None /\ rec' = [rec EXCEPT ![file[t]] = ver[t]]
        /\ lru' = IF rec[file[t]] = None THEN Append(lru, file[t]) ELSE lru
    BY <1>2 DEF Insert, Placed, CacheType, CallInv, Call, Storing
  <2>2. Indexed' = Indexed \cup {file[t]}
    BY <2>1 DEF Indexed, CacheType
  <2>3. CASE rec[file[t]] = None
    <3>1. file[t] \notin Indexed
      BY <2>3 DEF Indexed
    <3>2. Orders(lru', Indexed \cup {file[t]})
      BY <1>0, <2>1, <2>3, <3>1, AppendOrders
    <3> QED
      BY <1>2, <2>2, <3>2 DEF LruInv
  <2>4. CASE rec[file[t]] # None
    <3>1. Indexed' = Indexed /\ lru' = lru
      BY <2>1, <2>2, <2>4 DEF Indexed
    <3> QED
      BY <1>0, <1>2, <3>1 DEF LruInv
  <2> QED
    BY <2>3, <2>4
<1>3. CASE rec' = rec /\ lru' = lru
  <2>1. Indexed' = Indexed
    BY <1>3 DEF Indexed
  <2> QED
    BY <1>0, <1>3, <2>1 DEF LruInv
<1>4. CASE rec' = rec /\ Touch(t) /\ lru' # lru
  <2>1. file[t] \in Indexed /\ lru' = Append(RemoveFirst(lru, file[t]), file[t])
    BY <1>4 DEF Touch, Indexed, CacheType, CallInv, Call
  <2> DEFINE f == file[t]
             r == RemoveFirst(lru, f)
  <2>2. Orders(r, Indexed \ {f}) /\ Len(r) = Len(lru) - 1
    BY <1>0, <2>1, RemoveFirstOrders
  <2>3. Orders(Append(r, f), (Indexed \ {f}) \cup {f}) /\ Len(Append(r, f)) = Len(r) + 1
    BY <2>2, AppendOrders
  <2>4. (Indexed \ {f}) \cup {f} = Indexed /\ Indexed' = Indexed
    BY <1>4, <2>1 DEF Indexed
  <2>5. Len(lru') = Len(lru)
    BY <1>0, <2>1, <2>2, <2>3
  <2>6. Orders(lru', Indexed')
    BY <2>1, <2>3, <2>4
  <2> QED
    BY <1>0, <2>5, <2>6 DEF LruInv
<1>5. CASE Uncount(t) \/ Count(t)
  BY <1>3, <1>5 DEF Uncount, Count
<1> QED
  BY <1>1, <1>2, <1>3, <1>4, <1>5, StepKinds DEF Spares

Known == Versions \cup {None}

Bounded ==
  /\ \A f \in Files :
       /\ issued[f] <= MaxPuts /\ rec[f] \in Known
       /\ \A p \in Parts : disk[p][f] \in Known /\ tmp[p][f] \in Known
  /\ \A t \in Threads :
       /\ ver[t] \in Known /\ out[t] \in Known /\ got[t] \in Known
       /\ floor[t] <= MaxPuts + 1

\* There is room for a put as long as not all are used up.
LEMMA RoomForPut ==
  ASSUME CacheType, PutsLeft, NEW f \in Files
  PROVE  issued[f] + 1 <= MaxPuts
<1>1. PutsLeft <=> Cardinality(Units(Files, issued)) < MaxPuts
  BY DEF PutsLeft, Units, Row
<1>2. \A g \in Files : issued[g] \in Nat
  BY DEF CacheType
<1> DEFINE S == Files \ {f}
<1>3. IsFiniteSet(S) /\ S \cup {f} = Files /\ f \notin S
  BY FS_RemoveElement, CacheAssumption
<1>4. Cardinality(Units(S, issued)) \in Nat
  BY <1>2, <1>3, UnitsFinite
<1>5. Cardinality(Units(S \cup {f}, issued)) = Cardinality(Units(S, issued)) + issued[f]
  BY <1>2, <1>3, UnitsAdd
<1>6. MaxPuts \in Nat /\ issued[f] \in Nat
  BY <1>2, CacheAssumption
<1> HIDE DEF S
<1> QED
  BY <1>1, <1>3, <1>4, <1>5, <1>6

LEMMA TakeOutBounded ==
  ASSUME CacheType, Bounded, NEW t \in Threads, NEW f \in Files, NEW back, TakeOut(t, f, back)
  PROVE  /\ \A g \in Files : rec'[g] \in Known
         /\ \A v \in Threads : out'[v] \in Known
BY DEF TakeOut, CacheType, Bounded, Known

LEMMA BoundedStep ==
  ASSUME CacheType, CallInv, LeastInv, Bounded, NEW t \in Threads, Step(t)
  PROVE  Bounded'
<1>0. MaxPuts \in Nat
  BY CacheAssumption
<1>1. ASSUME NEW f \in Files, CallGet(t, f) PROVE Bounded'
  <2>1. least[f] <= MaxPuts + 1
    BY <1>0 DEF Bounded, LeastInv, CacheType
  <2> QED
    BY <1>1, <2>1 DEF CallGet, Bounded, gvars, index, CacheType
<1>2. ASSUME NEW f \in Files, CallPut(t, f) PROVE Bounded'
  <2>1. TakeOut(t, f, "write") /\ issued[f] + 1 <= MaxPuts
    BY <1>2, RoomForPut DEF CallPut, RemovesOldEntry
  <2>2. issued[f] + 1 \in Known
    BY <1>0, <2>1 DEF Known, Versions, CacheType
  <2>3. \A g \in Files : issued'[g] <= MaxPuts
    BY <1>2, <2>1 DEF CallPut, Bounded, CacheType
  <2>4. \A v \in Threads : ver'[v] \in Known
    BY <1>2, <2>2 DEF CallPut, Bounded, CacheType
  <2> QED
    BY <1>2, <2>1, <2>3, <2>4, TakeOutBounded DEF CallPut, Bounded
<1>3. ASSUME NEW f \in Files, CallInvalidate(t, f) PROVE Bounded'
  BY <1>3, TakeOutBounded DEF CallInvalidate, Bounded
<1>4. CASE Read(t)
  <2>1. \A v \in Threads : got'[v] \in Known
    BY <1>4 DEF Read, Bounded, CacheType, CallInv, Call, Parts
  <2> QED
    BY <1>4, <2>1 DEF Read, Bounded, cvars, gvars, index
<1>5. CASE DropUnreadable(t)
  <2>1. TakeOut(t, file[t], "ret") /\ file[t] \in Files
    BY <1>5 DEF DropUnreadable, CallInv, Call, CacheType
  <2> QED
    BY <1>5, <2>1, TakeOutBounded DEF DropUnreadable, Bounded, cvars
<1>6. CASE Touch(t)
  <2>1. \A v \in Threads : got'[v] \in Known
    BY <1>6 DEF Touch, Bounded, CacheType, Known
  <2> QED
    BY <1>6, <2>1 DEF Touch, Bounded, cvars, gvars
<1>7. CASE Write(t) \/ Unwind(t)
  <2>1. file[t] \in Files /\ part[t] \in Parts /\ ver[t] \in Known
    BY <1>7 DEF Write, Unwind, CacheType, CallInv, Call, Bounded
  <2>2. \A p \in Parts, f \in Files : tmp'[p][f] \in {tmp[p][f], ver[t], None}
    BY <1>7, <2>1 DEF Write, Unwind, CacheType
  <2>3. \A p \in Parts, f \in Files : tmp'[p][f] \in Known
    BY <2>1, <2>2 DEF Bounded, Known
  <2> QED
    BY <1>7, <2>3 DEF Write, Unwind, Bounded, cvars, gvars, index
<1>8. CASE Rename(t)
  <2>1. file[t] \in Files /\ part[t] \in Parts
    BY <1>8 DEF Rename, CacheType, CallInv, Call
  <2>2. \A p \in Parts, f \in Files :
          tmp'[p][f] \in {tmp[p][f], None} /\ disk'[p][f] \in {disk[p][f], tmp[p][f]}
    <3>1. CASE tmp[part[t]][file[t]] # None
      <4>1. /\ disk' = [disk EXCEPT ![part[t]][file[t]] = tmp[part[t]][file[t]]]
            /\ tmp'  = [tmp EXCEPT ![part[t]][file[t]] = None]
        BY <1>8, <3>1 DEF Rename
      <4> QED
        BY <2>1, <4>1 DEF CacheType
    <3>2. CASE tmp[part[t]][file[t]] = None
      BY <1>8, <3>2 DEF Rename
    <3> QED
      BY <3>1, <3>2
  <2>3. \A p \in Parts, f \in Files : tmp'[p][f] \in Known /\ disk'[p][f] \in Known
    BY <2>2 DEF Bounded, Known
  <2> QED
    BY <1>8, <2>3 DEF Rename, Bounded, cvars, gvars, index
<1>9. CASE Insert(t)
  <2>1. \A f \in Files : rec'[f] \in {rec[f], ver[t]}
    BY <1>9 DEF Insert, CacheType
  <2> QED
    BY <1>9, <2>1 DEF Insert, Bounded, cvars, gvars
<1>10. CASE Count(t) \/ Uncount(t)
  BY <1>10 DEF Count, Uncount, Bounded, cvars, gvars
<1>11. CASE EvictForBytes(t) \/ EvictForFiles(t)
  <2>1. PICK f \in Files, back \in {"trimb", "trimf"} : TakeOut(t, f, back)
    BY <1>11 DEF EvictForBytes, EvictForFiles
  <2> QED
    BY <1>11, <2>1, TakeOutBounded DEF EvictForBytes, EvictForFiles, Bounded, cvars
<1>12. CASE EvictNoMore(t)
  BY <1>12 DEF EvictNoMore, Bounded, cvars, index
<1>13. CASE UnlinkContent(t) \/ UnlinkMeta(t)
  <2>1. \A p \in Parts, f \in Files : disk'[p][f] \in {disk[p][f], None}
    BY <1>13 DEF UnlinkContent, UnlinkMeta, CacheType, Parts
  <2>2. \A v \in Threads : out'[v] \in {out[v], None}
    BY <1>13 DEF UnlinkContent, UnlinkMeta, CacheType
  <2>3. /\ \A p \in Parts, f \in Files : disk'[p][f] \in Known
        /\ \A v \in Threads : out'[v] \in Known
    BY <2>1, <2>2 DEF Bounded, Known
  <2> QED
    BY <1>13, <2>3 DEF UnlinkContent, UnlinkMeta, Bounded, cvars, gvars, index
<1>14. CASE Return(t)
  BY <1>0, <1>14 DEF Return, Bounded, index, CacheType, Known
<1> QED
  BY <1>1, <1>2, <1>3, <1>4, <1>5, <1>6, <1>7, <1>8, <1>9, <1>10, <1>11, <1>12, <1>13, <1>14
     DEF Step, Get, Put, Evict, RemoveEntry

-----------------------------------------------------------------------------
(* The byte count.                                                          *)

Counting   == {t \in Threads : pc[t] = "count"}
Uncounting == {t \in Threads : pc[t] = "uncount"}

\* _total_bytes is never too small, and exact while every file is clean: a put that
\* replaces an entry in the index makes it too large.
ByteInv ==
  /\ total \in Int
  /\ total + Bytes(Counting, ver) >= Bytes(Indexed, rec) + Bytes(Uncounting, out)
  /\ (\A f \in Files : clean[f])
       => total + Bytes(Counting, ver) = Bytes(Indexed, rec) + Bytes(Uncounting, out)

\* What is counted, and that it can be.
Countable ==
  /\ IsFiniteSet(Counting) /\ \A t \in Counting : ver[t] \in Versions
  /\ IsFiniteSet(Uncounting) /\ \A t \in Uncounting : out[t] \in Versions
  /\ IsFiniteSet(Indexed) /\ \A f \in Indexed : rec[f] \in Versions
  /\ Bytes(Counting, ver) \in Nat /\ Bytes(Uncounting, out) \in Nat
  /\ Bytes(Indexed, rec) \in Nat

LEMMA AllCountable == CacheType /\ CallInv /\ Bounded => Countable
<1> SUFFICES ASSUME CacheType, CallInv, Bounded PROVE Countable
  OBVIOUS
<1>1. Counting \in SUBSET Threads /\ Uncounting \in SUBSET Threads /\ Indexed \in SUBSET Files
  BY DEF Counting, Uncounting, Indexed
<1>2. IsFiniteSet(Counting) /\ IsFiniteSet(Uncounting) /\ IsFiniteSet(Indexed)
  BY <1>1, FS_Subset, CacheAssumption
<1>3. \A t \in Counting : ver[t] \in Versions
  BY DEF Counting, Bounded, Known, CallInv, Call, Storing
<1>4. \A t \in Uncounting : out[t] \in Versions
  BY DEF Uncounting, Bounded, Known, CallInv, Call
<1>5. \A f \in Indexed : rec[f] \in Versions
  BY DEF Indexed, Bounded, Known
<1> QED
  BY <1>2, <1>3, <1>4, <1>5, BytesNat DEF Countable

LEMMA SizeNat == \A v \in Versions : Size[v] \in Nat
BY CacheAssumption

LEMMA ByteStep ==
  ASSUME CacheInv, CacheType', CallInv', Bounded, Bounded', ByteInv,
         NEW t \in Threads, Step(t)
  PROVE  ByteInv'
<1> USE DEF CacheInv
<1> DEFINE C == Bytes(Counting, ver)
           U == Bytes(Uncounting, out)
           B == Bytes(Indexed, rec)
<1>0. /\ total \in Int /\ total + C >= B + U
      /\ (\A f \in Files : clean[f]) => total + C = B + U
  BY DEF ByteInv
<1>a. Local(t)
  BY LocalStep
<1>b. /\ IsFiniteSet(Counting) /\ \A u \in Counting : ver[u] \in Versions
      /\ IsFiniteSet(Uncounting) /\ \A u \in Uncounting : out[u] \in Versions
      /\ IsFiniteSet(Indexed) /\ \A f \in Indexed : rec[f] \in Versions
      /\ C \in Nat /\ U \in Nat /\ B \in Nat
  BY AllCountable DEF Countable
<1>c. /\ IsFiniteSet(Counting') /\ \A u \in Counting' : ver'[u] \in Versions
      /\ IsFiniteSet(Uncounting') /\ \A u \in Uncounting' : out'[u] \in Versions
      /\ IsFiniteSet(Indexed') /\ \A f \in Indexed' : rec'[f] \in Versions
      /\ C' \in Nat /\ U' \in Nat /\ B' \in Nat
  <2>1. Countable'
    BY AllCountable, PTL
  <2> QED
    BY <2>1 DEF Countable
<1>d. (\A f \in Files : clean'[f]) => (\A f \in Files : clean[f])
  BY HistoryStep
<1>e. ByteInv' <=> /\ total' \in Int /\ total' + C' >= B' + U'
                   /\ (\A f \in Files : clean'[f]) => total' + C' = B' + U'
  BY DEF ByteInv
<1>1. ASSUME pc[t] # "count", pc'[t] # "count" PROVE C' = C
  <2>1. Counting' = Counting /\ \A u \in Counting : ver'[u] = ver[u]
    BY <1>1, <1>a DEF Counting, Local
  <2> QED
    BY <2>1, BytesSame
<1>2. ASSUME pc[t] # "uncount", pc'[t] # "uncount" PROVE U' = U
  <2>1. Uncounting' = Uncounting /\ \A u \in Uncounting : out'[u] = out[u]
    BY <1>2, <1>a DEF Uncounting, Local
  <2> QED
    BY <2>1, BytesSame
<1>3. ASSUME rec' = rec PROVE B' = B
  BY <1>3 DEF Indexed
<1>4. ASSUME NEW f \in Files, Takes(t, f) PROVE ByteInv'
  <2>1. C' = C /\ total' = total
    BY <1>1, <1>4 DEF Takes
  <2>2. U' = U + Size[rec[f]]
    <3>1. Uncounting' = Uncounting \cup {t} /\ t \notin Uncounting
      BY <1>4, <1>a DEF Takes, Uncounting, Local, Removing
    <3>2. \A u \in Uncounting : out[u] \in Versions /\ out'[u] = out[u]
      BY <1>a, <1>b, <3>1 DEF Local, Uncounting
    <3>3. out'[t] \in Versions /\ out'[t] = rec[f]
      BY <1>4, <1>c, <3>1 DEF Takes
    <3>4. Bytes(Uncounting \cup {t}, out') = Bytes(Uncounting, out) + Size[out'[t]]
      <4>1. Extends(out', out, Uncounting, t)
        BY <1>b, <3>1, <3>2, <3>3 DEF Extends
      <4> QED
        BY <4>1, BytesAdd
    <3> QED
      BY <3>1, <3>3, <3>4
  <2>3. B = B' + Size[rec[f]]
    <3>1. Indexed = Indexed' \cup {f} /\ f \notin Indexed' /\ f \in Indexed
      BY <1>4 DEF Takes, Indexed, CacheType
    <3>2. \A g \in Indexed' : rec'[g] \in Versions /\ rec[g] = rec'[g]
      BY <1>4, <1>c, <3>1 DEF Takes, CacheType
    <3>3. rec[f] \in Versions
      BY <1>b, <3>1
    <3>4. Bytes(Indexed' \cup {f}, rec) = Bytes(Indexed', rec') + Size[rec[f]]
      <4>1. Extends(rec, rec', Indexed', f)
        BY <1>c, <3>1, <3>2, <3>3 DEF Extends
      <4> QED
        BY <4>1, BytesAdd
    <3> QED
      BY <3>1, <3>4
  <2>4. Size[rec[f]] \in Nat
    BY <1>b, <1>4, SizeNat DEF Takes, Indexed
  <2> HIDE DEF C, U, B
  <2> QED
    BY <1>0, <1>b, <1>c, <1>d, <1>e, <2>1, <2>2, <2>3, <2>4
<1>5. CASE Uncount(t)
  <2>1. /\ C' = C /\ B' = B /\ total' = total - Size[out[t]]
        /\ pc[t] = "uncount" /\ pc'[t] = "unlinkc" /\ out' = out /\ clean' = clean
    BY <1>1, <1>3, <1>5 DEF Uncount, SizeOut, Goto, CacheType, gvars
  <2>2. U = U' + Size[out[t]]
    <3>1. Uncounting = Uncounting' \cup {t} /\ t \notin Uncounting'
      BY <2>1, <1>a DEF Uncounting, Local
    <3>2. \A u \in Uncounting' : out'[u] \in Versions /\ out[u] = out'[u]
      BY <1>c, <2>1
    <3>3. out[t] \in Versions
      BY <1>b, <3>1
    <3>4. Bytes(Uncounting' \cup {t}, out) = Bytes(Uncounting', out') + Size[out[t]]
      <4>1. Extends(out, out', Uncounting', t)
        BY <1>c, <3>1, <3>2, <3>3 DEF Extends
      <4> QED
        BY <4>1, BytesAdd
    <3> QED
      BY <3>1, <3>4
  <2>3. Size[out[t]] \in Nat
    BY <1>b, <2>1, SizeNat DEF Uncounting
  <2> HIDE DEF C, U, B
  <2> QED
    BY <1>0, <1>b, <1>c, <1>d, <1>e, <2>1, <2>2, <2>3
<1>6. CASE Count(t)
  <2>1. /\ U' = U /\ B' = B /\ total' = total + Size[ver[t]]
        /\ pc[t] = "count" /\ pc'[t] = "trimb" /\ ver' = ver
    BY <1>2, <1>3, <1>6 DEF Count, Goto, CacheType, cvars
  <2>2. C = C' + Size[ver[t]]
    <3>1. Counting = Counting' \cup {t} /\ t \notin Counting'
      BY <2>1, <1>a DEF Counting, Local
    <3>2. \A u \in Counting' : ver'[u] \in Versions /\ ver[u] = ver'[u]
      BY <1>c, <2>1
    <3>3. ver[t] \in Versions
      BY <1>b, <3>1
    <3>4. Bytes(Counting' \cup {t}, ver) = Bytes(Counting', ver') + Size[ver[t]]
      <4>1. Extends(ver, ver', Counting', t)
        BY <1>c, <3>1, <3>2, <3>3 DEF Extends
      <4> QED
        BY <4>1, BytesAdd
    <3> QED
      BY <3>1, <3>4
  <2>3. Size[ver[t]] \in Nat
    BY <1>b, <2>1, SizeNat DEF Counting
  <2> HIDE DEF C, U, B
  <2> QED
    BY <1>0, <1>b, <1>c, <1>d, <1>e, <2>1, <2>2, <2>3
<1>7. CASE Insert(t)
  <2> DEFINE f == file[t]
             R == Indexed \ {f}
  <2>1. /\ U' = U /\ total' = total /\ clean' = clean /\ ver' = ver
        /\ pc[t] = "insert" /\ pc'[t] = "count" /\ f \in Files
        /\ op[t] = "put" /\ rec' = [rec EXCEPT ![f] = ver[t]] /\ ver[t] # None
    BY <1>2, <1>7 DEF Insert, Goto, CacheType, cvars, gvars, CallInv, Call, Storing
  <2>2. ver[t] \in Versions
    BY <2>1 DEF Bounded, Known
  <2>3. C' = C + Size[ver[t]]
    <3>1. Counting' = Counting \cup {t} /\ t \notin Counting
      BY <2>1, <1>a DEF Counting, Local
    <3>2. Extends(ver', ver, Counting, t)
      BY <1>b, <2>1, <2>2, <3>1 DEF Extends
    <3> QED
      BY <2>1, <3>1, <3>2, BytesAdd
  <2>4. IsFiniteSet(R) /\ f \notin R /\ \A g \in R : rec[g] \in Versions /\ rec'[g] = rec[g]
    BY <1>b, <2>1, FS_RemoveElement DEF Indexed, CacheType
  <2>5. B' = Bytes(R, rec) + Size[ver[t]]
    <3>1. Indexed' = R \cup {f} /\ rec'[f] = ver[t]
      BY <2>1 DEF Indexed, CacheType
    <3>2. rec'[f] \in Versions
      BY <2>2, <3>1
    <3> HIDE DEF R, f
    <3>3. Bytes(R \cup {f}, rec') = Bytes(R, rec) + Size[rec'[f]]
      <4>1. Extends(rec', rec, R, f)
        BY <2>4, <3>2 DEF Extends
      <4> QED
        BY <4>1, BytesAdd
    <3> QED
      BY <3>1, <3>3
  <2>6. Bytes(R, rec) \in Nat
    BY <2>4, BytesNat
  <2>7. CASE rec[f] = None
    <3>1. R = Indexed
      BY <2>7 DEF Indexed
    <3>2. Size[ver[t]] \in Nat
      BY <2>2, SizeNat
    <3>3. B' = B + Size[ver[t]]
      BY <2>5, <3>1
    <3> HIDE DEF C, U, B
    <3> QED
      BY <1>0, <1>b, <1>c, <1>d, <1>e, <2>1, <2>3, <3>2, <3>3
  <2>8. CASE rec[f] # None
    <3>1. Indexed = R \cup {f} /\ rec[f] \in Versions
      BY <1>b, <2>1, <2>8 DEF Indexed
    <3>2. B = Bytes(R, rec) + Size[rec[f]]
      <4> HIDE DEF R, f
      <4>1. Extends(rec, rec, R, f)
        BY <2>4, <3>1 DEF Extends
      <4> QED
        BY <3>1, <4>1, BytesAdd
    <3>3. Size[rec[f]] \in Nat /\ Size[ver[t]] \in Nat
      BY <2>2, <3>1, SizeNat
    <3>4. ~clean[f]
      <4>1. Works(t, f) /\ victim[t] # f
        BY <2>1, CacheAssumption DEF Works, CallInv, Call, Removing
      <4>2. clean[f] => Stage(t, f)
        BY <2>1, <4>1 DEF FileInv
      <4> QED
        BY <2>1, <2>8, <4>1, <4>2 DEF Stage
    <3>5. ~(\A g \in Files : clean'[g])
      BY <2>1, <3>4
    <3> HIDE DEF C, U, B
    <3> QED
      BY <1>0, <1>b, <1>c, <1>e, <2>1, <2>3, <2>5, <2>6, <3>2, <3>3, <3>5
  <2> QED
    BY <2>7, <2>8
<1>8. CASE Spares(t)
  <2>1. C' = C /\ U' = U /\ B' = B /\ total' = total
    BY <1>1, <1>2, <1>3, <1>8 DEF Spares
  <2> HIDE DEF C, U, B
  <2> QED
    BY <1>0, <1>d, <1>e, <2>1
<1> QED
  BY <1>4, <1>5, <1>6, <1>7, <1>8, StepKinds

-----------------------------------------------------------------------------
(* The budgets.                                                             *)

\* The thread evicts for the bytes ("trimb") or for the files ("trimf").
Trimming(t, p) == pc[t] = p \/ (pc[t] \in Removing /\ then[t] = p)

BytesDone == \A t \in Threads : pc[t] # "count" /\ ~Trimming(t, "trimb")
FilesDone == \A t \in Threads : ~Trimming(t, "trimf")

\* What one thread has inserted since another one looked at a budget, it will look at
\* itself: a budget may be exceeded only as long as a thread has not yet looked.
TrimInv ==
  /\ trimmed \/ ~FilesDone => (BytesDone => Bytes(Indexed, rec) <= MaxBytes)
  /\ trimmed /\ BytesDone /\ FilesDone => Len(lru) <= MaxFiles

\* How the other steps of a thread bear on its evictions.
LEMMA TrimMove ==
  ASSUME CacheType, CallInv, NEW t \in Threads, Step(t), ~EvictNoMore(t)
  PROVE  /\ trimmed' = trimmed
         /\ \A p \in {"trimb", "trimf"} : Trimming(t, p) => Trimming(t, p)'
         /\ Trimming(t, "trimf")' => Trimming(t, "trimf")
         /\ pc[t] = "count" => Trimming(t, "trimb")'
<1> USE DEF Trimming, Removing
<1>1. ASSUME NEW f \in Files, CallGet(t, f) \/ CallPut(t, f) \/ CallInvalidate(t, f)
      PROVE  /\ trimmed' = trimmed /\ pc[t] = "idle"
             /\ pc'[t] \in {"read", "write", "ret"} \/ (pc'[t] = "uncount" /\ then'[t] # "trimf")
  BY <1>1 DEF CallGet, CallPut, RemovesOldEntry, CallInvalidate, TakeOut, Goto, CacheType, gvars
<1>2. CASE DropUnreadable(t)
  BY <1>2 DEF DropUnreadable, TakeOut, Goto, CacheType
<1>3. CASE Read(t) \/ Touch(t) \/ Put(t) \/ Return(t)
  BY <1>3 DEF Read, Touch, Put, Write, Rename, Unwind, Insert, Count, Return, Goto, CacheType,
              gvars
<1>4. CASE EvictForBytes(t) \/ EvictForFiles(t)
  BY <1>4 DEF EvictForBytes, EvictForFiles, TakeOut, Goto, CacheType
<1>5. CASE RemoveEntry(t)
  BY <1>5 DEF RemoveEntry, Uncount, UnlinkContent, UnlinkMeta, Goto, CacheType, gvars
<1> QED
  BY <1>1, <1>2, <1>3, <1>4, <1>5 DEF Step, Get, Evict

\* The indexed files hold as many bytes, or fewer, unless one is inserted.
LEMMA BytesFall ==
  ASSUME CacheInv, CacheType', CallInv', Bounded, Bounded', NEW t \in Threads, Step(t),
         ~Insert(t)
  PROVE  Bytes(Indexed, rec)' <= Bytes(Indexed, rec)
<1> USE DEF CacheInv
<1>1. Countable /\ Countable'
  BY AllCountable, PTL
<1>2. Bytes(Indexed, rec) \in Nat /\ Bytes(Indexed, rec)' \in Nat
  BY <1>1 DEF Countable
<1>3. ASSUME NEW f \in Files, Takes(t, f)
      PROVE  Bytes(Indexed, rec)' <= Bytes(Indexed, rec)
  <2>1. Indexed = Indexed' \cup {f} /\ f \in Indexed
    BY <1>3 DEF Takes, Indexed, CacheType
  <2>2. Extends(rec, rec', Indexed', f)
    BY <1>1, <1>3, <2>1 DEF Takes, Indexed, CacheType, Countable, Extends
  <2>3. Bytes(Indexed, rec) = Bytes(Indexed, rec)' + Size[rec[f]]
    BY <2>1, <2>2, BytesAdd
  <2>4. Size[rec[f]] \in Nat
    BY <1>1, <2>1, SizeNat DEF Countable
  <2> QED
    BY <1>2, <2>3, <2>4
<1>4. ASSUME rec' = rec PROVE Bytes(Indexed, rec)' <= Bytes(Indexed, rec)
  <2>1. Bytes(Indexed, rec)' = Bytes(Indexed, rec)
    BY <1>4 DEF Indexed
  <2> QED
    BY <1>2, <2>1
<1> QED
  BY <1>3, <1>4, StepKinds DEF Spares, Uncount, Count

LEMMA TrimStep ==
  ASSUME CacheInv, CacheType', CallInv', Bounded, Bounded', ByteInv, LruInv, TrimInv,
         NEW t \in Threads, Step(t)
  PROVE  TrimInv'
<1> USE DEF CacheInv
<1>0. Local(t)
  BY LocalStep
<1>1. \A v \in Threads \ {t} :
        /\ pc'[v] = pc[v]
        /\ \A p \in {"trimb", "trimf"} : Trimming(v, p)' <=> Trimming(v, p)
  BY <1>0 DEF Local, Trimming
<1>2. MaxBytes \in Nat /\ MaxFiles \in Nat /\ Len(lru) \in Nat
  BY CacheAssumption DEF LruInv, Orders
<1>3. Countable /\ Countable'
  BY AllCountable, PTL
<1>4. Bytes(Indexed, rec) \in Nat /\ Bytes(Indexed, rec)' \in Nat
  BY <1>3 DEF Countable
<1>5. CASE Insert(t)
  <2>1. pc'[t] = "count"
    BY <1>5 DEF Insert, Goto, CacheType
  <2> QED
    BY <2>1 DEF TrimInv, BytesDone
<1>6. CASE EvictNoMore(t) /\ pc[t] = "trimb"
  <2>1. /\ pc'[t] = "trimf" /\ UNCHANGED <<rec, lru, trimmed, total>>
        /\ total <= MaxBytes \/ lru = <<>>
    BY <1>2, <1>6 DEF EvictNoMore, OverBytes, Goto, CacheType, index, ByteInv
  <2>2. ~FilesDone' /\ Bytes(Indexed, rec)' = Bytes(Indexed, rec)
    BY <2>1 DEF FilesDone, Trimming, Indexed
  <2>3. ASSUME BytesDone' PROVE Bytes(Indexed, rec) <= MaxBytes
    <3>1. CASE total <= MaxBytes
      <4>1. Counting = {}
        BY <1>1, <1>6, <2>3 DEF BytesDone, Counting
      <4>2. Bytes(Counting, ver) = 0
        BY <4>1, BytesEmpty
      <4>3. total \in Int /\ total + 0 >= Bytes(Indexed, rec) + Bytes(Uncounting, out)
        BY <4>2 DEF ByteInv
      <4>4. Bytes(Uncounting, out) \in Nat
        BY <1>3 DEF Countable
      <4> QED
        BY <1>2, <1>4, <3>1, <4>3, <4>4
    <3>2. CASE lru = <<>>
      <4>1. Indexed = {}
        BY <3>2 DEF LruInv, Orders, ToSet
      <4>2. Bytes(Indexed, rec) = 0
        BY <4>1, BytesEmpty
      <4> QED
        BY <1>2, <4>2
    <3> QED
      BY <2>1, <3>1, <3>2
  <2> QED
    BY <2>2, <2>3 DEF TrimInv
<1>7. CASE EvictNoMore(t) /\ pc[t] = "trimf"
  <2>1. pc'[t] = "ret" /\ UNCHANGED <<rec, lru>> /\ ~(Len(lru) > MaxFiles)
    BY <1>7 DEF EvictNoMore, OverFiles, Goto, CacheType, index
  <2>2. ~FilesDone /\ Bytes(Indexed, rec)' = Bytes(Indexed, rec)
    BY <1>7, <2>1 DEF FilesDone, Trimming, Indexed
  <2>3. ASSUME BytesDone' PROVE BytesDone
    BY <1>1, <1>7, <2>3 DEF BytesDone, Trimming, Removing
  <2> QED
    BY <1>2, <2>1, <2>2, <2>3 DEF TrimInv
<1>8. CASE ~EvictNoMore(t) /\ ~Insert(t)
  <2>1. /\ trimmed' = trimmed
        /\ \A p \in {"trimb", "trimf"} : Trimming(t, p) => Trimming(t, p)'
        /\ Trimming(t, "trimf")' => Trimming(t, "trimf")
        /\ pc[t] = "count" => Trimming(t, "trimb")'
    BY <1>8, TrimMove
  <2>2. FilesDone' <=> FilesDone
    BY <1>1, <2>1 DEF FilesDone
  <2>3. ASSUME BytesDone' PROVE BytesDone
    BY <1>1, <2>1, <2>3 DEF BytesDone
  <2>4. Bytes(Indexed, rec)' <= Bytes(Indexed, rec)
    BY <1>8, BytesFall
  <2>5. LruInv' /\ Len(lru') <= Len(lru)
    BY <1>8, LruStep
  <2>6. Len(lru') \in Nat
    BY <2>5 DEF LruInv, Orders
  <2>7. BytesDone' /\ (trimmed' \/ ~FilesDone') => Bytes(Indexed, rec)' <= MaxBytes
    BY <1>2, <1>4, <2>1, <2>2, <2>3, <2>4 DEF TrimInv
  <2>8. BytesDone' /\ trimmed' /\ FilesDone' => Len(lru') <= MaxFiles
    BY <1>2, <2>1, <2>2, <2>3, <2>5, <2>6 DEF TrimInv
  <2> QED
    BY <2>7, <2>8 DEF TrimInv
<1> QED
  BY <1>5, <1>6, <1>7, <1>8 DEF EvictNoMore

-----------------------------------------------------------------------------
(* A crash, and the theorems about the index.                               *)

Limits == trimmed \in BOOLEAN /\ errors \in 0..MaxErrors /\ crashes \in 0..MaxCrashes

IndexInv == CacheInv /\ LruInv /\ Bounded /\ ByteInv /\ TrimInv /\ Limits

LEMMA LimitsStep ==
  ASSUME Limits, NEW t \in Threads, Step(t)
  PROVE  Limits'
<1>1. MaxErrors \in Nat
  BY CacheAssumption
<1>2. \/ errors' = errors
      \/ errors < MaxErrors /\ errors' = errors + 1
  BY DEF Step, CallGet, CallPut, CallInvalidate, Get, Read, DropUnreadable, Touch, Put, Write,
     Rename, Unwind, Insert, Count, Evict, EvictForBytes, EvictForFiles, EvictNoMore,
     RemoveEntry, Uncount, UnlinkContent, UnlinkMeta, Return
<1>3. trimmed' \in {trimmed, TRUE} /\ crashes' = crashes
  BY DEF Step, CallGet, CallPut, CallInvalidate, Get, Read, DropUnreadable, Touch, Put, Write,
     Rename, Unwind, Insert, Count, Evict, EvictForBytes, EvictForFiles, EvictNoMore,
     RemoveEntry, Uncount, UnlinkContent, UnlinkMeta, Return, gvars
<1>4. errors' \in 0..MaxErrors
  BY <1>1, <1>2 DEF Limits
<1>5. trimmed' \in BOOLEAN
  BY <1>3, Zenon DEF Limits
<1>6. crashes' \in 0..MaxCrashes
  BY <1>3 DEF Limits
<1> QED
  BY <1>4, <1>5, <1>6, Zenon DEF Limits

LEMMA IndexCrash ==
  ASSUME IndexInv, CrashRestart
  PROVE  LruInv' /\ Bounded' /\ ByteInv' /\ TrimInv' /\ Limits'
<1> USE DEF IndexInv, CacheInv
<1>1. /\ \A t \in Threads :
           /\ pc'[t] = "idle" /\ ver'[t] = None /\ out'[t] = None /\ got'[t] = None
           /\ floor'[t] = 0
      /\ UNCHANGED <<tmp, issued, clean, errors>> /\ ~trimmed'
      /\ crashes < MaxCrashes /\ crashes' = crashes + 1
  BY DEF CrashRestart, NoThread
<1>2. \A f \in Files : rec'[f] = IF f \in Restorable THEN disk["meta"][f] ELSE None
  BY DEF CrashRestart
<1>3. Indexed' = Restorable
  BY <1>2 DEF Indexed, Restorable
<1>4. LruInv'
  <2>1. Restorable \in SUBSET Files
    BY DEF Restorable
  <2>2. IsFiniteSet(Restorable)
    BY <2>1, FS_Subset, CacheAssumption
  <2>3. Orders(lru', Restorable)
    BY <2>2, SetToSeqsOrders DEF CrashRestart
  <2> QED
    BY <1>3, <2>3 DEF LruInv
<1>5. Bounded'
  <2>1. \A f \in Files : rec'[f] \in Known
    BY <1>2 DEF Bounded, Known, Parts
  <2>2. \A f \in Files : disk'["meta"][f] = rec'[f] /\ disk'["content"][f] = disk["content"][f]
    BY DEF CrashRestart, CacheType, Parts
  <2>3. \A p \in Parts, f \in Files : disk'[p][f] \in Known
    BY <2>1, <2>2 DEF Bounded, Parts
  <2>4. MaxPuts \in Nat
    BY CacheAssumption
  <2> QED
    BY <1>1, <2>1, <2>3, <2>4 DEF Bounded, Known
<1>6. ByteInv'
  <2>1. Counting' = {} /\ Uncounting' = {}
    BY <1>1 DEF Counting, Uncounting
  <2>2. Bytes(Counting', ver') = 0 /\ Bytes(Uncounting', out') = 0
    BY <2>1, BytesEmpty
  <2>3. Bytes(Restorable, disk["meta"]) = Bytes(Restorable, rec')
    <3>1. \A f \in Restorable : disk["meta"][f] = rec'[f]
      BY <1>2 DEF Restorable
    <3> QED
      BY <3>1, BytesSame
  <2>4. total' = Bytes(Indexed', rec')
    BY <1>3, <2>3 DEF CrashRestart, BytesRestored
  <2>5. Bytes(Indexed', rec') \in Nat
    <3>1. IsFiniteSet(Indexed') /\ \A f \in Indexed' : rec'[f] \in Versions
      <4>1. Indexed' \in SUBSET Files
        BY <1>3 DEF Restorable
      <4> QED
        BY <1>5, <4>1, FS_Subset, CacheAssumption DEF Bounded, Known, Indexed
    <3> QED
      BY <3>1, BytesNat
  <2> QED
    BY <2>2, <2>4, <2>5 DEF ByteInv
<1>7. TrimInv'
  BY <1>1 DEF TrimInv, FilesDone, Trimming, Removing
<1>8. Limits'
  <2>1. trimmed' = FALSE
    BY Zenon DEF CrashRestart
  <2>2. MaxCrashes \in Nat
    BY CacheAssumption
  <2>3. crashes' \in 0..MaxCrashes
    BY <1>1, <2>2 DEF Limits
  <2>4. errors' \in 0..MaxErrors
    BY <1>1 DEF Limits
  <2> QED
    BY <2>1, <2>3, <2>4, Zenon DEF Limits
<1> QED
  BY <1>4, <1>5, <1>6, <1>7, <1>8

LEMMA IndexInvInit == Init => IndexInv
<1> SUFFICES ASSUME Init PROVE IndexInv
  OBVIOUS
<1>0. CacheInv
  BY CacheInvInit
<1>1. Indexed = {} /\ lru = <<>> /\ total = 0 /\ \A t \in Threads : pc[t] = "idle"
  BY DEF Init, Indexed, NoThread
<1>2. LruInv
  BY <1>1 DEF LruInv, Orders, IsInjective, ToSet
<1>3. MaxPuts \in Nat /\ MaxErrors \in Nat /\ MaxCrashes \in Nat /\ MaxBytes \in Nat
      /\ MaxFiles \in Nat
  BY CacheAssumption
<1>4. Bounded
  BY <1>3 DEF Init, Bounded, Known, NoThread, Parts
<1>5. ByteInv
  <2>1. Counting = {} /\ Uncounting = {}
    BY <1>1 DEF Counting, Uncounting
  <2> QED
    BY <1>1, <2>1, BytesEmpty DEF ByteInv
<1>6. TrimInv
  <2>1. Bytes(Indexed, rec) = 0
    BY <1>1, BytesEmpty
  <2> QED
    BY <1>1, <1>3, <2>1 DEF TrimInv
<1>7. Limits
  BY <1>3 DEF Init, Limits
<1> QED
  BY <1>0, <1>2, <1>4, <1>5, <1>6, <1>7 DEF IndexInv

LEMMA IndexInvNext == IndexInv /\ [Next]_vars => IndexInv'
<1> SUFFICES ASSUME IndexInv, [Next]_vars PROVE IndexInv'
  OBVIOUS
<1>0. CacheInv' /\ CacheInv
  BY CacheInvNext DEF IndexInv
<1>1. ASSUME NEW t \in Threads, Step(t) PROVE IndexInv'
  <2>1. CacheType' /\ CallInv'
    BY <1>0 DEF CacheInv
  <2>2. LruInv'
    BY <1>0, <1>1, <2>1, LruStep DEF CacheInv, IndexInv
  <2>3. Bounded'
    BY <1>0, <1>1, BoundedStep DEF CacheInv, IndexInv
  <2>4. ByteInv'
    BY <1>1, <2>1, <2>3, ByteStep DEF IndexInv
  <2>5. TrimInv'
    BY <1>1, <2>1, <2>3, TrimStep DEF IndexInv
  <2>6. Limits'
    BY <1>1, LimitsStep DEF IndexInv
  <2> QED
    BY <1>0, <2>2, <2>3, <2>4, <2>5, <2>6 DEF IndexInv
<1>2. CASE CrashRestart
  BY <1>0, <1>2, IndexCrash DEF IndexInv
<1>3. CASE UNCHANGED vars
  <2>1. LruInv' /\ Bounded' /\ Limits'
    BY <1>3 DEF vars, index, cvars, gvars, IndexInv, LruInv, Indexed, Bounded, Limits
  <2>2. Counting' = Counting /\ Uncounting' = Uncounting /\ Indexed' = Indexed
        /\ BytesDone' = BytesDone /\ FilesDone' = FilesDone
    BY <1>3 DEF vars, index, cvars, gvars, Counting, Uncounting, Indexed, BytesDone, FilesDone,
       Trimming
  <2>3. ByteInv' /\ TrimInv'
    BY <1>3, <2>2 DEF vars, index, cvars, gvars, IndexInv, ByteInv, TrimInv
  <2> QED
    BY <1>0, <2>1, <2>3 DEF IndexInv
<1> QED
  BY <1>1, <1>2, <1>3 DEF Next, Step

LEMMA IndexInvariant == Spec => []IndexInv
  BY IndexInvInit, IndexInvNext, PTL DEF Spec

\* The variables of the cache keep their types; above all, the LRU order of cache.py
\* holds every indexed file once, whatever two calls do to it in turns.
THEOREM CacheTypeOK == Spec => []TypeOK
<1>1. IndexInv => TypeOK
  <2> SUFFICES ASSUME IndexInv PROVE TypeOK
    OBVIOUS
  <2>0. CacheType /\ Bounded /\ LruInv /\ LeastInv /\ Limits /\ total \in Int
    BY DEF IndexInv, CacheInv, ByteInv
  <2>1. rec \in [Files -> Versions \cup {None}] /\ issued \in [Files -> 0..MaxPuts]
    BY <2>0 DEF CacheType, Bounded, Known
  <2>2. /\ disk \in [Parts -> [Files -> Versions \cup {None}]]
        /\ tmp \in [Parts -> [Files -> Versions \cup {None}]]
    <3>1. \A p \in Parts : disk[p] \in [Files -> Versions \cup {None}]
      BY <2>0 DEF CacheType, Bounded, Known
    <3>2. \A p \in Parts : tmp[p] \in [Files -> Versions \cup {None}]
      BY <2>0 DEF CacheType, Bounded, Known
    <3> QED
      BY <2>0, <3>1, <3>2 DEF CacheType
  <2>3. /\ ver \in [Threads -> Versions \cup {None}] /\ out \in [Threads -> Versions \cup {None}]
        /\ got \in [Threads -> Versions \cup {None}]
    BY <2>0 DEF CacheType, Bounded, Known
  <2>4. floor \in [Threads -> 0..MaxPuts + 1] /\ least \in [Files -> 0..MaxPuts + 1]
    <3>1. MaxPuts \in Nat
      BY CacheAssumption
    <3>2. \A t \in Threads : floor[t] \in 0..MaxPuts + 1
      BY <2>0, <3>1 DEF CacheType, Bounded
    <3>3. \A f \in Files : least[f] \in 0..MaxPuts + 1
      BY <2>0, <3>1 DEF CacheType, Bounded, LeastInv
    <3> QED
      BY <2>0, <3>2, <3>3 DEF CacheType
  <2>5. lru \in Seq(Files) /\ IsInjective(lru) /\ ToSet(lru) = {f \in Files : rec[f] # None}
    <3>1. Orders(lru, Indexed) /\ Indexed \subseteq Files
      BY <2>0 DEF LruInv, Indexed
    <3>2. lru \in Seq(Files)
      BY <3>1, SeqMonotonic DEF Orders
    <3> QED
      BY <3>1, <3>2 DEF Orders, Indexed
  <2> QED
    BY <2>0, <2>1, <2>2, <2>3, <2>4, <2>5 DEF TypeOK, CacheType, Limits
<1> QED
  BY <1>1, IndexInvariant, PTL

\* _total_bytes of cache.py never falls below the sizes of the indexed files, but for
\* what a thread is about to add, in whatever order threads put, get and evict.
THEOREM CacheNeverUndercounts == Spec => []NeverUndercounts
<1>1. IndexInv => NeverUndercounts
  BY DEF IndexInv, ByteInv, NeverUndercounts, BytesAt, BytesIndexed, Counting, Uncounting
<1> QED
  BY <1>1, IndexInvariant, PTL

\* When no call is under way, the index is within the byte budget and the file budget,
\* if a put has run its evictions since the start.
THEOREM CacheBudgetKept == Spec => []BudgetKept
<1>1. IndexInv => BudgetKept
  <2> SUFFICES ASSUME IndexInv, Quiet, trimmed
               PROVE  BytesIndexed <= MaxBytes /\ Len(lru) <= MaxFiles
    BY DEF BudgetKept
  <2>1. BytesDone /\ FilesDone
    BY DEF Quiet, BytesDone, FilesDone, Trimming, Removing
  <2> QED
    BY <2>1 DEF IndexInv, TrimInv, BytesIndexed
<1> QED
  BY <1>1, IndexInvariant, PTL

\* When no call is under way and no two calls have worked on one file at once, the byte
\* count is exact and the content of every indexed file is on disk.
THEOREM CacheCountExact == Spec => []CountExact
<1>1. IndexInv => CountExact
  <2> SUFFICES ASSUME IndexInv, Quiet, \A f \in Files : clean[f]
               PROVE  total = BytesIndexed /\ \A f \in Indexed : disk["content"][f] # None
    BY DEF CountExact
  <2>1. Counting = {} /\ Uncounting = {}
    BY DEF Quiet, Counting, Uncounting
  <2>2. Bytes(Counting, ver) = 0 /\ Bytes(Uncounting, out) = 0
    BY <2>1, BytesEmpty
  <2>3. Countable /\ total \in Int
    BY AllCountable DEF IndexInv, CacheInv, ByteInv
  <2>4. total = BytesIndexed
    BY <2>2, <2>3 DEF IndexInv, ByteInv, BytesIndexed, Countable
  <2>5. ASSUME NEW f \in Indexed PROVE disk["content"][f] # None
    <3>1. f \in Files /\ rec[f] # None /\ \A t \in Threads : ~Works(t, f)
      BY DEF Indexed, Quiet, Works
    <3>2. Rest(f)
      BY <3>1 DEF IndexInv, CacheInv, FileInv
    <3> QED
      BY <3>1, <3>2 DEF Rest
  <2> QED
    BY <2>4, <2>5
<1> QED
  BY <1>1, IndexInvariant, PTL
===============================================================================
