-------------------------- MODULE WriteBufferProofs --------------------------
(***************************************************************************)
(* Theorems about WriteBuffer, for any number of files and threads and any *)
(* values of the other constants.                                          *)
(***************************************************************************)
EXTENDS WriteBuffer, TLAPS

-----------------------------------------------------------------------------
(* Type correctness.  TypeOK is not inductive by itself: an uploader that  *)
(* is past the choice of a write has one, and a thread inside enqueue has  *)
(* its job.                                                                *)

Busy == {"http", "caught", "check", "pop", "unbuf", "unmeta"}

JobsOK ==
  \A t \in Threads : tpc[t] # "idle" => jobFile[t] \in Files /\ jobVer[t] \in Versions

WorkOK ==
  \A u \in Uploaders :
    /\ upc[u] \in Busy => cur[u] \in Files /\ batch[u][cur[u]] \in Versions
    /\ upc[u] = "http" => sent[u] \in Versions \cup {Blank}

TypeInv == TypeOK /\ JobsOK /\ WorkOK

LEMMA InitTypeInv == Init => TypeInv
<1> SUFFICES ASSUME Init PROVE TypeInv
  OBVIOUS
<1>1. /\ queue \in [Files -> Versions \cup {None}]
      /\ status \in [Files -> [Versions -> Statuses]]
      /\ tries \in [Files -> [Versions -> Nat]]
      /\ body \in [Files -> [Versions -> Versions \cup {Blank}]]
  BY DEF Init, Statuses
<1>2. /\ stopped \in BOOLEAN
      /\ upc \in [Uploaders -> DrainPoints \cup FlushPoints]
      /\ batch \in [Uploaders -> [Files -> Versions \cup {None}]]
      /\ cur \in [Uploaders -> Files \cup {None}]
      /\ sent \in [Uploaders -> Versions \cup {Blank, None}]
  BY DEF Init, NoBatch, DrainPoints, FlushPoints
<1>3. /\ tpc \in [Threads -> EnqueuePoints]
      /\ jobFile \in [Threads -> Files \cup {None}]
      /\ jobVer \in [Threads -> Versions \cup {None}]
  BY DEF Init, EnqueuePoints
<1>4. /\ buf \in [Files -> Versions \cup {None}]
      /\ tmp \in [Files -> Versions \cup {None}]
      /\ wmeta \in [Files -> {"none", "torn", "ok"}]
      /\ cloud \in [Files -> Versions \cup {0, Blank}]
      /\ report \in {"none", "ok", "errors"}
  BY DEF Init
<1>5. /\ issued \in [Files -> 0..MaxWrites]
      /\ acked \in [Files -> 0..MaxWrites]
      /\ spaced \in [Files -> BOOLEAN]
      /\ serial \in [Files -> BOOLEAN]
      /\ kept \in [Files -> BOOLEAN]
      /\ dropped \in [Files -> BOOLEAN]
      /\ skipped \in [Files -> BOOLEAN]
      /\ crashes \in 0..MaxCrashes
      /\ faults \in 0..MaxFaults
      /\ flushes \in 0..MaxFlushes
  BY BoundAssumption DEF Init
<1>6. TypeOK
  BY <1>1, <1>2, <1>3, <1>4, <1>5 DEF TypeOK
<1>7. JobsOK /\ WorkOK
  BY DEF Init, JobsOK, WorkOK, Busy, Uploaders
<1> QED
  BY <1>6, <1>7 DEF TypeInv

LEMMA QueuedWithType ==
  ASSUME TypeOK, NEW statuses
  PROVE  QueuedWith(statuses) \in [Files -> Versions \cup {None}]
BY DEF TypeOK, QueuedWith

LEMMA EnqueueTypeInv ==
  ASSUME TypeInv, NEW t \in Threads, Enqueue(t)
  PROVE  TypeInv'
<1> USE DEF heap, uvars, tvars, disk, ghosts, promise, bounds
<1>0. TypeOK /\ JobsOK /\ WorkOK
  BY DEF TypeInv
<1>1. CASE \E f \in Files : EnqueueInsert(t, f)
  <2> PICK f \in Files : EnqueueInsert(t, f)
    BY <1>1
  <2>1. issued[f] + 1 \in Versions /\ issued[f] + 1 \in 0..MaxWrites
    BY <1>0, BoundAssumption DEF EnqueueInsert, TypeOK, Versions
  <2>2. issued' \in [Files -> 0..MaxWrites] /\ queue' \in [Files -> Versions \cup {None}]
    BY <1>0, <2>1 DEF EnqueueInsert, TypeOK
  <2>3. /\ tpc' \in [Threads -> EnqueuePoints]
        /\ jobFile' \in [Threads -> Files \cup {None}]
        /\ jobVer' \in [Threads -> Versions \cup {None}]
        /\ JobsOK'
    BY <1>0, <2>1 DEF EnqueueInsert, TypeOK, EnqueuePoints, JobsOK
  <2>4. spaced' \in [Files -> BOOLEAN] /\ serial' \in [Files -> BOOLEAN]
    <3>1. Quiescent(f) \in BOOLEAN /\ Unwritten(f) \in BOOLEAN
      BY DEF Quiescent, Unwritten
    <3> QED
      BY <1>0, <3>1 DEF EnqueueInsert, TypeOK
  <2>5. TypeOK'
    BY <1>0, <2>2, <2>3, <2>4 DEF EnqueueInsert, TypeOK
  <2>6. WorkOK'
    BY <1>0 DEF EnqueueInsert, WorkOK
  <2> QED
    BY <2>3, <2>5, <2>6 DEF TypeInv
<1>2. CASE WriteTmp(t)
  <2>0. kept' \in [Files -> BOOLEAN] /\ tmp' \in [Files -> Versions \cup {None}]
    <3>1. jobFile[t] \in Files /\ jobVer[t] \in Versions
      BY <1>0, <1>2 DEF WriteTmp, JobsOK
    <3> QED
      BY <1>0, <1>2, <3>1 DEF WriteTmp, TypeOK
  <2>1. TypeOK' /\ JobsOK'
    BY <1>0, <1>2, <2>0 DEF WriteTmp, TypeOK, EnqueuePoints, JobsOK
  <2> QED
    BY <1>0, <1>2, <2>1 DEF WriteTmp, WorkOK, TypeInv
<1>3. CASE RenameTmp(t)
  <2>1. buf' \in [Files -> Versions \cup {None}] /\ tmp' \in [Files -> Versions \cup {None}]
    <3>1. jobFile[t] \in Files
      BY <1>0, <1>3 DEF RenameTmp, JobsOK
    <3>2. CASE tmp[jobFile[t]] = None
      BY <1>0, <1>3, <3>2 DEF RenameTmp, TypeOK
    <3>3. CASE tmp[jobFile[t]] # None
      <4>1. tmp[jobFile[t]] \in Versions \cup {None}
        BY <1>0, <3>1 DEF TypeOK
      <4>2. /\ buf' = [buf EXCEPT ![jobFile[t]] = tmp[jobFile[t]]]
            /\ tmp' = [tmp EXCEPT ![jobFile[t]] = None]
        BY <1>3, <3>3 DEF RenameTmp, Renamed
      <4> QED
        BY <1>0, <3>1, <4>1, <4>2 DEF TypeOK
    <3> QED
      BY <3>2, <3>3
  <2>2. TypeOK' /\ JobsOK'
    BY <1>0, <1>3, <2>1 DEF RenameTmp, TypeOK, EnqueuePoints, JobsOK
  <2> QED
    BY <1>0, <1>3, <2>2 DEF RenameTmp, WorkOK, TypeInv
<1>4. CASE OpenMeta(t)
  <2>0. kept' \in [Files -> BOOLEAN]
    BY <1>0, <1>4 DEF OpenMeta, TypeOK
  <2>1. TypeOK' /\ JobsOK'
    BY <1>0, <1>4, <2>0 DEF OpenMeta, TypeOK, EnqueuePoints, JobsOK
  <2> QED
    BY <1>0, <1>4, <2>1 DEF OpenMeta, WorkOK, TypeInv
<1>5. CASE WriteMeta(t)
  <2>1. jobVer[t] \in 0..MaxWrites
    BY <1>0, <1>5 DEF WriteMeta, JobsOK, Versions
  <2>2. acked' \in [Files -> 0..MaxWrites] /\ wmeta' \in [Files -> {"none", "torn", "ok"}]
    BY <1>0, <1>5, <2>1 DEF WriteMeta, TypeOK
  <2>3. TypeOK' /\ JobsOK'
    BY <1>0, <1>5, <2>2 DEF WriteMeta, TypeOK, EnqueuePoints, JobsOK
  <2> QED
    BY <1>0, <1>5, <2>3 DEF WriteMeta, WorkOK, TypeInv
<1> QED
  BY <1>1, <1>2, <1>3, <1>4, <1>5 DEF Enqueue

\* The next write of the list, and what follows a failed upload.
LEMMA NextWriteType ==
  ASSUME TypeInv, NEW u \in Uploaders, upc[u] \in Busy, NextWrite(u)
  PROVE  /\ upc' \in [Uploaders -> DrainPoints \cup FlushPoints]
         /\ batch' \in [Uploaders -> [Files -> Versions \cup {None}]]
         /\ cur' \in [Uploaders -> Files \cup {None}]
         /\ upc'[u] = "loop"
         /\ \A v \in Uploaders \ {u} :
              upc'[v] = upc[v] /\ batch'[v] = batch[v] /\ cur'[v] = cur[v]
BY DEF TypeInv, TypeOK, WorkOK, NextWrite, Goto, DrainPoints, UploadPoints

LEMMA AfterFailureType ==
  ASSUME TypeInv, NEW u \in Uploaders, upc[u] \in Busy, AfterFailure(u)
  PROVE  /\ upc' \in [Uploaders -> DrainPoints \cup FlushPoints]
         /\ batch' \in [Uploaders -> [Files -> Versions \cup {None}]]
         /\ cur' \in [Uploaders -> Files \cup {None}]
         /\ \/ upc'[u] = "loop"
            \/ upc'[u] = "check" /\ batch'[u] = batch[u] /\ cur'[u] = cur[u]
         /\ \A v \in Uploaders \ {u} :
              upc'[v] = upc[v] /\ batch'[v] = batch[v] /\ cur'[v] = cur[v]
<1>1. CASE u = "drain"
  BY <1>1, NextWriteType DEF AfterFailure
<1>2. CASE u # "drain"
  BY <1>2 DEF AfterFailure, Goto, TypeInv, TypeOK, DrainPoints, UploadPoints
<1> QED
  BY <1>1, <1>2

LEMMA UploadTypeInv ==
  ASSUME TypeInv, NEW u \in Uploaders, Upload(u)
  PROVE  TypeInv'
<1> USE DEF heap, uvars, tvars, disk, ghosts, promise, bounds
<1>0. TypeOK /\ JobsOK /\ WorkOK
  BY DEF TypeInv
<1>a. upc[u] \in Busy => cur[u] \in Files /\ batch[u][cur[u]] \in Versions
  BY <1>0 DEF WorkOK
<1>b. "http" \in Busy /\ "caught" \in Busy /\ "pop" \in Busy
      /\ "unbuf" \in Busy /\ "unmeta" \in Busy /\ "check" \in Busy /\ "loop" \notin Busy
  BY DEF Busy
<1>1. CASE TakeWrite(u)
  <2> PICK f \in Files :
        /\ batch[u][f] # None
        /\ status' = [status EXCEPT ![f][batch[u][f]] = "uploading"]
        /\ sent' = [sent EXCEPT ![u] = body[f][batch[u][f]]]
        /\ cur' = [cur EXCEPT ![u] = f]
        /\ Goto(u, "http")
        /\ UNCHANGED <<queue, tries, body, stopped, batch, tvars, disk, cloud, report,
                       ghosts, bounds>>
    BY <1>1 DEF TakeWrite
  <2>1. batch[u][f] \in Versions
    BY <1>0 DEF TypeOK
  <2>2. body[f][batch[u][f]] \in Versions \cup {Blank}
    BY <1>0, <2>1 DEF TypeOK
  <2>3. TypeOK'
    BY <1>0, <2>1, <2>2 DEF TypeOK, Statuses, Goto, DrainPoints, UploadPoints
  <2>4. WorkOK' /\ JobsOK'
    BY <1>0, <2>1, <2>2 DEF TypeOK, WorkOK, JobsOK, Goto
  <2> QED
    BY <2>3, <2>4 DEF TypeInv
<1>2. CASE UploadOk(u)
  <2>1. sent[u] \in Versions \cup {Blank} /\ cur[u] \in Files
    BY <1>0, <1>2, <1>a, <1>b DEF UploadOk, WorkOK
  <2>2. TypeOK'
    BY <1>0, <1>2, <2>1 DEF UploadOk, TypeOK, Goto, DrainPoints, UploadPoints
  <2>3. WorkOK' /\ JobsOK'
    BY <1>0, <1>2, <1>a, <1>b DEF UploadOk, TypeOK, WorkOK, JobsOK, Goto
  <2> QED
    BY <2>2, <2>3 DEF TypeInv
<1>3. CASE UploadRefused(u)
  <2>1. upc[u] \in Busy /\ AfterFailure(u)
    BY <1>3, <1>b DEF UploadRefused
  <2>2. /\ tries' \in [Files -> [Versions -> Nat]]
        /\ status' \in [Files -> [Versions -> Statuses]]
        /\ body' \in [Files -> [Versions -> Versions \cup {Blank}]]
        /\ dropped' \in [Files -> BOOLEAN] /\ skipped' = skipped
    BY <1>0, <1>3, <1>a, <2>1 DEF UploadRefused, Counted, MarkFailed, TypeOK, Statuses
  <2>3. sent' \in [Uploaders -> Versions \cup {Blank, None}] /\ faults' \in 0..MaxFaults
        /\ \A v \in Uploaders \ {u} : sent'[v] = sent[v]
    BY <1>0, <1>3, BoundAssumption DEF UploadRefused, MayFail, FaultsAfter, TypeOK
  <2>4. TypeOK'
    BY <1>0, <1>3, <2>1, <2>2, <2>3, AfterFailureType DEF UploadRefused, TypeOK
  <2>5. WorkOK' /\ JobsOK'
    BY <1>0, <1>3, <1>a, <1>b, <2>1, <2>3, AfterFailureType DEF UploadRefused, WorkOK, JobsOK
  <2> QED
    BY <2>4, <2>5 DEF TypeInv
<1>4. CASE UploadError(u)
  <2>1. sent[u] \in Versions \cup {Blank} /\ cur[u] \in Files /\ batch[u][cur[u]] \in Versions
    BY <1>0, <1>4, <1>a, <1>b DEF UploadError, WorkOK
  <2>2. /\ tries' \in [Files -> [Versions -> Nat]]
        /\ status' \in [Files -> [Versions -> Statuses]]
        /\ cloud' \in [Files -> Versions \cup {0, Blank}]
    <3>1. cloud' = cloud \/ cloud' = [cloud EXCEPT ![cur[u]] = sent[u]]
      BY <1>4 DEF UploadError
    <3>2. cloud' \in [Files -> Versions \cup {0, Blank}]
      BY <1>0, <2>1, <3>1 DEF TypeOK
    <3>3. StatusAfterError(Counted(tries[cur[u]][batch[u][cur[u]]])) \in Statuses
      BY DEF StatusAfterError, Statuses
    <3>4. status' \in [Files -> [Versions -> Statuses]]
      BY <1>0, <1>4, <2>1, <3>3 DEF UploadError, TypeOK
    <3>5. tries' \in [Files -> [Versions -> Nat]]
      BY <1>0, <1>4, <2>1 DEF UploadError, Counted, TypeOK
    <3> QED
      BY <3>2, <3>4, <3>5
  <2>3. sent' \in [Uploaders -> Versions \cup {Blank, None}] /\ faults' \in 0..MaxFaults
        /\ upc' \in [Uploaders -> DrainPoints \cup FlushPoints]
    BY <1>0, <1>4, BoundAssumption
    DEF UploadError, MayFail, FaultsAfter, TypeOK, Goto, DrainPoints, UploadPoints
  <2>4. TypeOK'
    BY <1>0, <1>4, <2>2, <2>3 DEF UploadError, TypeOK
  <2>5. WorkOK' /\ JobsOK'
    BY <1>0, <1>4, <1>a, <1>b DEF UploadError, TypeOK, WorkOK, JobsOK, Goto
  <2> QED
    BY <2>4, <2>5 DEF TypeInv
<1>5. CASE AfterError(u)
  <2>1. upc[u] \in Busy /\ AfterFailure(u)
    BY <1>5, <1>b DEF AfterError
  <2>2. /\ status' \in [Files -> [Versions -> Statuses]]
        /\ body' \in [Files -> [Versions -> Versions \cup {Blank}]]
        /\ dropped' \in [Files -> BOOLEAN] /\ skipped' = skipped
    <3>1. CASE status[cur[u]][batch[u][cur[u]]] = "pending"
      BY <1>0, <1>5, <3>1 DEF AfterError, TypeOK
    <3>2. CASE status[cur[u]][batch[u][cur[u]]] # "pending"
      <4>1. MarkFailed(u, cur[u], batch[u][cur[u]], tries[cur[u]][batch[u][cur[u]]])
        BY <1>5, <3>2 DEF AfterError
      <4>2. "failed" \in Statuses
        BY DEF Statuses
      <4> QED
        BY <1>0, <1>a, <2>1, <4>1, <4>2 DEF MarkFailed, TypeOK
    <3> QED
      BY <3>1, <3>2
  <2>3. TypeOK'
    BY <1>0, <1>5, <2>1, <2>2, AfterFailureType DEF AfterError, TypeOK
  <2>4. WorkOK' /\ JobsOK'
    BY <1>0, <1>5, <1>a, <1>b, <2>1, AfterFailureType DEF AfterError, WorkOK, JobsOK
  <2> QED
    BY <2>3, <2>4 DEF TypeInv
<1>6. CASE PopUploaded(u)
  <2>1. TypeOK'
    BY <1>0, <1>6, <1>a, <1>b DEF PopUploaded, TypeOK, Goto, DrainPoints, UploadPoints
  <2>2. WorkOK' /\ JobsOK'
    BY <1>0, <1>6, <1>a, <1>b DEF PopUploaded, TypeOK, WorkOK, JobsOK, Goto
  <2> QED
    BY <2>1, <2>2 DEF TypeInv
<1>7. CASE UnlinkBuf(u)
  <2>1. TypeOK'
    BY <1>0, <1>7, <1>a, <1>b DEF UnlinkBuf, TypeOK, Goto, DrainPoints, UploadPoints
  <2>2. WorkOK' /\ JobsOK'
    BY <1>0, <1>7, <1>a, <1>b DEF UnlinkBuf, TypeOK, WorkOK, JobsOK, Goto
  <2> QED
    BY <2>1, <2>2 DEF TypeInv
<1>8. CASE UnlinkMeta(u)
  <2>1. upc[u] \in Busy /\ NextWrite(u)
    BY <1>8, <1>b DEF UnlinkMeta
  <2>2. wmeta' \in [Files -> {"none", "torn", "ok"}] /\ tpc' \in [Threads -> EnqueuePoints]
    BY <1>0, <1>8, <1>a, <2>1 DEF UnlinkMeta, TypeOK, EnqueuePoints
  <2>3. TypeOK'
    BY <1>0, <1>8, <2>1, <2>2, NextWriteType DEF UnlinkMeta, TypeOK
  <2>4. WorkOK'
    BY <1>0, <1>8, <1>a, <1>b, <2>1, NextWriteType DEF UnlinkMeta, WorkOK
  <2>5. JobsOK'
    BY <1>0, <1>8 DEF UnlinkMeta, JobsOK, TypeOK
  <2> QED
    BY <2>3, <2>4, <2>5 DEF TypeInv
<1> QED
  BY <1>1, <1>2, <1>3, <1>4, <1>5, <1>6, <1>7, <1>8 DEF Upload

LEMMA DrainTypeInv ==
  ASSUME TypeInv, Drain
  PROVE  TypeInv'
<1> USE DEF heap, uvars, tvars, disk, ghosts, promise, bounds
<1>0. TypeOK /\ JobsOK /\ WorkOK /\ "drain" \in Uploaders
  BY DEF TypeInv, Uploaders
<1>a. NoBatch \in [Files -> Versions \cup {None}]
  BY DEF NoBatch
<1>b. "snap" \notin Busy /\ "loop" \notin Busy /\ "idle" \notin Busy /\ "done" \notin Busy
  BY DEF Busy
<1>1. CASE DrainExit
  BY <1>0, <1>1, <1>b DEF DrainExit, TypeInv, TypeOK, WorkOK, JobsOK, Goto, DrainPoints
<1>2. CASE DrainPurge
  <2>1. queue' \in [Files -> Versions \cup {None}]
    BY <1>0, <1>2, QueuedWithType DEF DrainPurge, Purged
  <2> QED
    BY <1>0, <1>2, <1>b, <2>1
    DEF DrainPurge, TypeInv, TypeOK, WorkOK, JobsOK, Goto, DrainPoints, UploadPoints
<1>3. CASE DrainSnapshot
  <2>1. QueuedWith({"pending"}) \in [Files -> Versions \cup {None}]
    BY <1>0, QueuedWithType
  <2> QED
    BY <1>0, <1>3, <1>b, <2>1
    DEF DrainSnapshot, TypeInv, TypeOK, WorkOK, JobsOK, Goto, DrainPoints, UploadPoints
<1>4. CASE DrainBatchEnd
  BY <1>0, <1>4, <1>a, <1>b
  DEF DrainBatchEnd, TypeInv, TypeOK, WorkOK, JobsOK, Goto, DrainPoints
<1>5. CASE Upload("drain")
  BY <1>0, <1>5, UploadTypeInv
<1> QED
  BY <1>1, <1>2, <1>3, <1>4, <1>5 DEF Drain

LEMMA FlushTypeInv ==
  ASSUME TypeInv, Flush
  PROVE  TypeInv'
<1> USE DEF heap, uvars, tvars, disk, ghosts, promise, bounds
<1>0. TypeOK /\ JobsOK /\ WorkOK /\ "flush" \in Uploaders
  BY DEF TypeInv, Uploaders
<1>a. FlushList \in [Files -> Versions \cup {None}]
  BY <1>0, QueuedWithType DEF FlushList
<1>b. "snap" \notin Busy /\ "loop" \notin Busy /\ "join" \notin Busy /\ "done" \notin Busy
  BY DEF Busy
<1>1. CASE FlushStart
  <2>1. flushes' \in 0..MaxFlushes
    BY <1>0, <1>1, BoundAssumption DEF FlushStart, TypeOK
  <2> QED
    BY <1>0, <1>1, <1>b, <2>1
    DEF FlushStart, TypeInv, TypeOK, WorkOK, JobsOK, Goto, FlushPoints
<1>2. CASE FlushJoin
  BY <1>0, <1>2, <1>b
  DEF FlushJoin, TypeInv, TypeOK, WorkOK, JobsOK, Goto, FlushPoints, UploadPoints
<1>3. CASE FlushSnapshot
  BY <1>0, <1>3, <1>a, <1>b
  DEF FlushSnapshot, TypeInv, TypeOK, WorkOK, JobsOK, Goto, FlushPoints, UploadPoints
<1>4. CASE FlushReturn \/ FlushTimeout
  <2>1. report' \in {"none", "ok", "errors"} /\ upc' = [upc EXCEPT !["flush"] = "done"]
    BY <1>0, <1>4 DEF FlushReturn, FlushTimeout, FinalReport, TypeOK, Goto
  <2>2. UNCHANGED <<queue, heap, stopped, batch, cur, sent, tvars, disk, cloud, ghosts, bounds>>
    BY <1>4 DEF FlushReturn, FlushTimeout
  <2> QED
    BY <1>0, <1>b, <2>1, <2>2 DEF TypeInv, TypeOK, WorkOK, JobsOK, FlushPoints
<1>5. CASE FlushBatchEnd
  BY <1>0, <1>5, <1>b
  DEF FlushBatchEnd, TypeInv, TypeOK, WorkOK, JobsOK, Goto, FlushPoints, UploadPoints
<1>6. CASE FlushCheck
  <2>1. upc["flush"] \in Busy /\ NextWrite("flush")
    BY <1>6 DEF FlushCheck, Busy
  <2>2. queue' \in [Files -> Versions \cup {None}] /\ report' \in {"none", "ok", "errors"}
    <3>1. CASE queue' = queue /\ report' = report
      BY <1>0, <3>1 DEF TypeOK
    <3>2. CASE queue' = [queue EXCEPT ![cur["flush"]] = None] /\ report' = "errors"
      BY <1>0, <3>2 DEF TypeOK
    <3> QED
      BY <1>6, <3>1, <3>2 DEF FlushCheck
  <2>3. TypeOK'
    BY <1>0, <1>6, <2>1, <2>2, NextWriteType DEF FlushCheck, TypeOK
  <2>4. WorkOK' /\ JobsOK'
    BY <1>0, <1>6, <1>b, <2>1, NextWriteType DEF FlushCheck, WorkOK, JobsOK
  <2> QED
    BY <2>3, <2>4 DEF TypeInv
<1>7. CASE Upload("flush")
  BY <1>0, <1>7, UploadTypeInv
<1> QED
  BY <1>1, <1>2, <1>3, <1>4, <1>5, <1>6, <1>7 DEF Flush

LEMMA CrashTypeInv ==
  ASSUME TypeInv, CrashRestart
  PROVE  TypeInv'
<1> USE DEF heap, uvars, tvars, disk, ghosts, promise, bounds
<1>0. TypeOK
  BY DEF TypeInv
<1>1. queue' \in [Files -> Versions \cup {None}] /\ skipped' \in [Files -> BOOLEAN]
      /\ wmeta' \in [Files -> {"none", "torn", "ok"}]
  <2> PICK R \in RestoredSets :
        /\ queue' = [f \in Files |-> IF f \in R THEN buf[f] ELSE None]
        /\ skipped' = [f \in Files |-> f \in Restorable \ R]
    BY DEF CrashRestart, Restore
  <2> QED
    BY <1>0 DEF CrashRestart, Restore, TypeOK
<1>2. /\ status' \in [Files -> [Versions -> Statuses]]
      /\ tries' \in [Files -> [Versions -> Nat]]
      /\ body' \in [Files -> [Versions -> Versions \cup {Blank}]]
  BY DEF CrashRestart, Statuses
<1>3. /\ stopped' \in BOOLEAN
      /\ upc' \in [Uploaders -> DrainPoints \cup FlushPoints]
      /\ batch' \in [Uploaders -> [Files -> Versions \cup {None}]]
      /\ cur' \in [Uploaders -> Files \cup {None}]
      /\ sent' \in [Uploaders -> Versions \cup {Blank, None}]
  BY DEF CrashRestart, NoBatch, DrainPoints, FlushPoints
<1>4. /\ tpc' \in [Threads -> EnqueuePoints]
      /\ jobFile' \in [Threads -> Files \cup {None}]
      /\ jobVer' \in [Threads -> Versions \cup {None}]
  BY DEF CrashRestart, EnqueuePoints
<1>5. report' \in {"none", "ok", "errors"} /\ crashes' \in 0..MaxCrashes
  BY <1>0, BoundAssumption DEF CrashRestart, TypeOK
<1>6. TypeOK'
  BY <1>0, <1>1, <1>2, <1>3, <1>4, <1>5 DEF CrashRestart, TypeOK
<1>7. WorkOK' /\ JobsOK'
  BY DEF CrashRestart, WorkOK, JobsOK, Busy
<1> QED
  BY <1>6, <1>7 DEF TypeInv

LEMMA StepTypeInv == TypeInv /\ [Next]_vars => TypeInv'
<1> SUFFICES ASSUME TypeInv, [Next]_vars PROVE TypeInv'
  OBVIOUS
<1>1. CASE Next
  BY <1>1, EnqueueTypeInv, DrainTypeInv, FlushTypeInv, CrashTypeInv DEF Next, DrainNext
<1>2. CASE UNCHANGED vars
  BY <1>2 DEF vars, heap, uvars, tvars, disk, ghosts, promise, bounds, TypeInv, TypeOK, JobsOK, WorkOK
<1> QED
  BY <1>1, <1>2

\* Every variable keeps its type under any interleaving of writers, the drain
\* thread, flush_all, failing uploads and crashes.
THEOREM TypeCorrect == Spec => []TypeOK
<1>1. TypeInv => TypeOK
  BY DEF TypeInv
<1> QED
  BY <1>1, InitTypeInv, StepTypeInv, PTL DEF Spec

-----------------------------------------------------------------------------
(* Durability of the writes that do not overlap, as long as flush_all has  *)
(* not been called (DrainSpec) and the disk does not refuse a file.        *)

\* flush_all has not been called.
NoFlush ==
  /\ upc["flush"] = "off" /\ cur["flush"] = None /\ sent["flush"] = None
  /\ batch["flush"] = NoBatch

\* The drain thread lists pending writes only, and a pending write has its
\* content; what it sends is what it listed, and what it cleans up after is
\* what the cloud now has.
DrainInv ==
  /\ upc["drain"] # "check"
  /\ upc["drain"] \notin Busy => cur["drain"] = None
  /\ \A f \in Files : \A n \in Versions : status[f][n] = "pending" => body[f][n] = n
  /\ \A f \in Files : batch["drain"][f] # None /\ cur["drain"] # f
                        => status[f][batch["drain"][f]] = "pending"
  /\ LET f == cur["drain"]
         n == batch["drain"][f] IN
     /\ upc["drain"] \in {"http", "caught"} => body[f][n] = n
     /\ IF upc["drain"] = "http" THEN sent["drain"] = n ELSE sent["drain"] = None
     /\ upc["drain"] \in {"pop", "unbuf", "unmeta"} => cloud[f] = n

\* Where the newest write of a file that thread t is enqueuing has got to.
JobInv(t, f) ==
  /\ jobVer[t] = issued[f] /\ acked[f] < issued[f]
  /\ tpc[t] = "rename" => tmp[f] = issued[f]
  /\ tpc[t] \in {"meta", "metaw"} => issued[f] \in {buf[f], cloud[f]}
  /\ tpc[t] = "orphan" => cloud[f] = issued[f]

\* While the writes of f are spaced, memory and disk know its newest write
\* only.
SpacedInv(f) ==
  /\ queue[f] \in {None, issued[f]}
  /\ batch["drain"][f] \in {None, issued[f]}
  /\ buf[f] \in {None, issued[f]}
  /\ \A t \in Threads : jobFile[t] = f => JobInv(t, f)
  /\ \A t, v \in Threads : jobFile[t] = f /\ jobFile[v] = f => t = v
  /\ acked[f] <= issued[f]
  /\ \/ InCloud(f)
     \/ buf[f] = issued[f] /\ acked[f] = issued[f] /\ wmeta[f] = "ok"

DurableInv ==
  /\ NoFlush
  /\ DrainInv
  /\ \A f \in Files : kept[f] /\ spaced[f] => SpacedInv(f)

LEMMA InitDurableInv == Init => DurableInv
<1> SUFFICES ASSUME Init PROVE DurableInv
  OBVIOUS
<1>1. NoFlush /\ DrainInv
  BY DEF Init, NoFlush, DrainInv, NoBatch, Busy, Uploaders
<1>2. \A f \in Files : SpacedInv(f)
  BY BoundAssumption, SentinelAssumption
  DEF Init, SpacedInv, InCloud, AtLeast, NoBatch, Uploaders
<1> QED
  BY <1>1, <1>2 DEF DurableInv

\* A step of enqueue, whatever the uploaders are doing.
LEMMA EnqueueSpaced ==
  ASSUME TypeInv, NEW t \in Threads, Enqueue(t),
         NEW g \in Files, kept'[g], spaced'[g],
         kept[g] /\ spaced[g] => SpacedInv(g)
  PROVE  SpacedInv(g)'
<1> USE DEF heap, uvars, tvars, disk, ghosts, promise, bounds
<1>0. TypeOK /\ JobsOK
  BY DEF TypeInv
<1>c. issued[g] \in 0..MaxWrites /\ acked[g] \in 0..MaxWrites
  BY <1>0 DEF TypeOK
<1>1. ASSUME NEW f \in Files, EnqueueInsert(t, f)
      PROVE  SpacedInv(g)'
  <2>1. spaced[g] /\ (g = f => Quiescent(f)) /\ SpacedInv(g)
    BY <1>0, <1>1 DEF EnqueueInsert, TypeOK
  <2>2. CASE g = f
    <3>1. /\ queue'[g] = issued'[g] /\ issued'[g] = issued[g] + 1
          /\ buf'[g] = None /\ batch'["drain"][g] = None
      BY <1>0, <1>1, <2>1, <2>2 DEF EnqueueInsert, Quiescent, TypeOK, Uploaders
    <3>2. \A v \in Threads : jobFile'[v] = g => v = t
      BY <1>0, <1>1, <2>1, <2>2 DEF EnqueueInsert, Quiescent, Unwritten, TypeOK
    <3>3. tpc'[t] = "tmp" /\ jobVer'[t] = issued'[g] /\ acked'[g] = acked[g]
      BY <1>0, <1>1, <2>2, <3>1 DEF EnqueueInsert, TypeOK
    <3>4. buf[g] = None /\ None # issued[g]
      BY <1>c, <2>1, <2>2, SentinelAssumption DEF Quiescent
    <3>5. InCloud(g)
      BY <2>1, <3>4 DEF SpacedInv
    <3>6. InCloud(g)'
      BY <1>1, <3>5 DEF EnqueueInsert, InCloud
    <3>7. acked'[g] < issued'[g]
      BY <1>c, <2>1, <3>1, <3>3 DEF SpacedInv
    <3>8. JobInv(t, g)'
      BY <3>3, <3>7 DEF JobInv
    <3> QED
      BY <1>c, <3>1, <3>2, <3>3, <3>6, <3>7, <3>8 DEF SpacedInv
  <2>3. CASE g # f
    <3>1. /\ issued'[g] = issued[g] /\ acked'[g] = acked[g] /\ queue'[g] = queue[g]
          /\ UNCHANGED <<batch, buf, tmp, wmeta, cloud>>
      BY <1>0, <1>1, <2>3 DEF EnqueueInsert, TypeOK
    <3>2. \A v \in Threads : jobFile'[v] = g =>
             jobFile[v] = g /\ jobVer'[v] = jobVer[v] /\ tpc'[v] = tpc[v]
      BY <1>0, <1>1, <2>3 DEF EnqueueInsert, TypeOK
    <3> QED
      BY <2>1, <3>1, <3>2 DEF SpacedInv, JobInv, InCloud
  <2> QED
    BY <2>2, <2>3
<1>2. ASSUME WriteTmp(t)
      PROVE  SpacedInv(g)'
  <2>0. /\ kept[g] /\ spaced[g] /\ SpacedInv(g)
        /\ \/ /\ tpc' = [tpc EXCEPT ![t] = "rename"]
              /\ tmp' = [tmp EXCEPT ![jobFile[t]] = jobVer[t]]
           \/ jobFile[t] # g /\ tpc' = [tpc EXCEPT ![t] = "meta"] /\ tmp' = tmp
        /\ UNCHANGED <<queue, batch, jobFile, jobVer, buf, wmeta, cloud, issued, acked>>
    <3>1. kept[g] /\ spaced[g]
      BY <1>0, <1>2 DEF WriteTmp, TypeOK
    <3> QED
      BY <1>0, <1>2, <3>1 DEF WriteTmp, TypeOK
  <2>1. tpc[t] = "tmp"
    BY <1>2 DEF WriteTmp
  <2>2. \A v \in Threads : jobFile[v] = g => JobInv(v, g)'
    <3> SUFFICES ASSUME NEW v \in Threads, jobFile[v] = g PROVE JobInv(v, g)'
      OBVIOUS
    <3>1. JobInv(v, g) /\ (jobFile[t] = g => v = t)
      BY <2>0 DEF SpacedInv
    <3>2. CASE v = t
      BY <1>0, <2>0, <2>1, <3>1, <3>2 DEF JobInv, TypeOK
    <3>3. CASE v # t
      BY <1>0, <2>0, <3>1, <3>3 DEF JobInv, TypeOK
    <3> QED
      BY <3>2, <3>3
  <2> QED
    BY <2>0, <2>2 DEF SpacedInv, InCloud
<1>3. ASSUME RenameTmp(t)
      PROVE  SpacedInv(g)'
  <2>1. /\ spaced[g] /\ SpacedInv(g)
        /\ tpc[t] = "rename" /\ jobFile[t] \in Files
        /\ tpc' = [tpc EXCEPT ![t] = "meta"]
        /\ UNCHANGED <<queue, batch, jobFile, jobVer, wmeta, cloud, issued, acked>>
    BY <1>0, <1>3 DEF RenameTmp, JobsOK
  <2>2. CASE jobFile[t] = g
    <3>1. JobInv(t, g) /\ tmp[g] = issued[g] /\ tmp[g] # None
      BY <1>c, <2>1, <2>2, SentinelAssumption DEF SpacedInv, JobInv
    <3>2. buf'[g] = issued[g]
      BY <1>0, <1>3, <2>2, <3>1 DEF RenameTmp, Renamed, TypeOK
    <3>3. \A v \in Threads : jobFile[v] = g => v = t
      BY <2>1, <2>2 DEF SpacedInv
    <3>4. JobInv(t, g)'
      BY <1>0, <2>1, <3>1, <3>2 DEF JobInv, TypeOK
    <3>5. InCloud(g) /\ InCloud(g)'
      BY <1>c, <2>1, <3>1 DEF SpacedInv, JobInv, InCloud
    <3> QED
      BY <2>1, <3>2, <3>3, <3>4, <3>5 DEF SpacedInv
  <2>3. CASE jobFile[t] # g
    <3>1. buf'[g] = buf[g] /\ tmp'[g] = tmp[g]
      BY <1>0, <1>3, <2>1, <2>3 DEF RenameTmp, TypeOK
    <3>2. \A v \in Threads : jobFile[v] = g => v # t /\ tpc'[v] = tpc[v]
      BY <1>0, <2>1, <2>3 DEF TypeOK
    <3> QED
      BY <2>1, <3>1, <3>2 DEF SpacedInv, JobInv, InCloud
  <2> QED
    BY <2>2, <2>3
<1>4. ASSUME OpenMeta(t)
      PROVE  SpacedInv(g)'
  <2>1. /\ kept[g] /\ spaced[g] /\ SpacedInv(g) /\ tpc[t] = "meta"
        /\ \/ /\ tpc' = [tpc EXCEPT ![t] = "metaw"]
              /\ wmeta' = [wmeta EXCEPT ![jobFile[t]] = "torn"]
           \/ jobFile[t] # g /\ tpc' = [tpc EXCEPT ![t] = "orphan"] /\ wmeta' = wmeta
        /\ UNCHANGED <<queue, batch, jobFile, jobVer, buf, tmp, cloud, issued, acked>>
    <3>1. kept[g] /\ spaced[g]
      BY <1>0, <1>4 DEF OpenMeta, TypeOK
    <3> QED
      BY <1>0, <1>4, <3>1 DEF OpenMeta, TypeOK
  <2>2. \A v \in Threads : jobFile[v] = g => JobInv(v, g)'
    <3> SUFFICES ASSUME NEW v \in Threads, jobFile[v] = g PROVE JobInv(v, g)'
      OBVIOUS
    <3>1. JobInv(v, g)
      BY <2>1 DEF SpacedInv
    <3>2. CASE v = t
      BY <1>0, <2>1, <3>1, <3>2 DEF JobInv, TypeOK
    <3>3. CASE v # t
      BY <1>0, <2>1, <3>1, <3>3 DEF JobInv, TypeOK
    <3> QED
      BY <3>2, <3>3
  <2>3. CASE jobFile[t] = g
    <3>1. JobInv(t, g)
      BY <2>1, <2>3 DEF SpacedInv
    <3>2. InCloud(g) /\ InCloud(g)'
      BY <1>c, <2>1, <3>1 DEF SpacedInv, JobInv, InCloud
    <3> QED
      BY <2>1, <2>2, <3>2 DEF SpacedInv
  <2>4. CASE jobFile[t] # g
    <3>1. wmeta'[g] = wmeta[g]
      BY <1>0, <2>1, <2>4 DEF TypeOK
    <3> QED
      BY <2>1, <2>2, <3>1 DEF SpacedInv, InCloud
  <2> QED
    BY <2>3, <2>4
<1>5. ASSUME WriteMeta(t)
      PROVE  SpacedInv(g)'
  <2>1. /\ spaced[g] /\ SpacedInv(g)
        /\ tpc[t] \in {"metaw", "orphan"}
        /\ tpc' = [tpc EXCEPT ![t] = "idle"]
        /\ jobFile' = [jobFile EXCEPT ![t] = None]
        /\ jobVer' = [jobVer EXCEPT ![t] = None]
        /\ UNCHANGED <<queue, batch, buf, tmp, cloud, issued>>
    BY <1>5 DEF WriteMeta
  <2>2. \A v \in Threads : jobFile'[v] = g =>
          v # t /\ jobFile[v] = g /\ jobVer'[v] = jobVer[v] /\ tpc'[v] = tpc[v]
    BY <1>0, <2>1, SentinelAssumption DEF TypeOK
  <2>3. CASE jobFile[t] = g
    <3>1. JobInv(t, g) /\ \A v \in Threads : jobFile'[v] # g
      BY <2>1, <2>2, <2>3 DEF SpacedInv
    <3>2. acked'[g] = issued[g]
      BY <1>0, <1>5, <1>c, <2>3, <3>1 DEF WriteMeta, JobInv, TypeOK
    <3>3. CASE cloud[g] = issued[g]
      <4>1. InCloud(g)'
        BY <1>c, <2>1, <3>2, <3>3 DEF InCloud, AtLeast
      <4> QED
        BY <1>c, <2>1, <3>1, <3>2, <4>1 DEF SpacedInv
    <3>4. CASE cloud[g] # issued[g]
      <4>1. tpc[t] = "metaw" /\ buf[g] = issued[g]
        BY <2>1, <3>1, <3>4 DEF JobInv
      <4>2. wmeta'[g] = "ok"
        BY <1>0, <1>5, <2>3, <4>1 DEF WriteMeta, TypeOK
      <4> QED
        BY <1>c, <2>1, <3>1, <3>2, <4>1, <4>2 DEF SpacedInv
    <3> QED
      BY <3>3, <3>4
  <2>4. CASE jobFile[t] # g
    <3>1. acked'[g] = acked[g] /\ wmeta'[g] = wmeta[g]
      BY <1>0, <1>5, <2>4 DEF WriteMeta, TypeOK
    <3> QED
      BY <2>1, <2>2, <3>1 DEF SpacedInv, JobInv, InCloud
  <2> QED
    BY <2>3, <2>4
<1> QED
  BY <1>1, <1>2, <1>3, <1>4, <1>5 DEF Enqueue

LEMMA EnqueueDurableInv ==
  ASSUME TypeInv, DurableInv, NEW t \in Threads, Enqueue(t)
  PROVE  DurableInv'
<1>1. UNCHANGED <<upc, cur, sent, batch, status, body, cloud>>
  BY DEF Enqueue, EnqueueInsert, WriteTmp, RenameTmp, OpenMeta, WriteMeta, heap, uvars
<1>2. NoFlush' /\ DrainInv'
  BY <1>1 DEF DurableInv, NoFlush, DrainInv
<1>3. \A g \in Files : kept'[g] /\ spaced'[g] => SpacedInv(g)'
  BY EnqueueSpaced DEF DurableInv
<1> QED
  BY <1>2, <1>3 DEF DurableInv

\* A step of the drain thread that leaves the enqueue steps, the disk and the
\* cloud alone, and shortens what it lists and what is queued at most.
LEMMA SpacedFrame ==
  ASSUME NEW g \in Files, SpacedInv(g),
         queue'[g] \in {None, queue[g]},
         batch'["drain"][g] \in {None, queue[g], batch["drain"][g]},
         UNCHANGED <<tvars, disk, cloud, issued, acked>>
  PROVE  SpacedInv(g)'
BY DEF SpacedInv, JobInv, InCloud, tvars, disk

\* A step of the drain thread that leaves the other uploader alone.
LEMMA NoFlushFrame ==
  ASSUME NoFlush, upc'["flush"] = upc["flush"], cur'["flush"] = cur["flush"],
         sent'["flush"] = sent["flush"], batch'["flush"] = batch["flush"]
  PROVE  NoFlush'
BY DEF NoFlush

\* On to the next write: nothing is current any more.
LEMMA NextWriteDrain ==
  ASSUME TypeInv, DurableInv, upc["drain"] \in Busy, NextWrite("drain")
  PROVE  /\ upc' = [upc EXCEPT !["drain"] = "loop"]
         /\ cur'["drain"] = None
         /\ cur'["flush"] = cur["flush"] /\ batch'["flush"] = batch["flush"]
         /\ \A g \in Files : batch'["drain"][g] =
              IF g = cur["drain"] THEN None ELSE batch["drain"][g]
BY DEF TypeInv, TypeOK, WorkOK, NextWrite, Goto, Uploaders

LEMMA UploadDurableInv ==
  ASSUME TypeInv, DurableInv, Upload("drain")
  PROVE  DurableInv'
<1> USE DEF heap, uvars, tvars, disk, ghosts, promise, bounds
<1> DEFINE c == cur["drain"]
           m == batch["drain"][c]
<1>0. TypeOK /\ NoFlush /\ DrainInv /\ "drain" \in Uploaders /\ "flush" \in Uploaders
  BY DEF TypeInv, DurableInv, Uploaders
<1>a. upc["drain"] \in Busy => c \in Files /\ m \in Versions
  BY DEF TypeInv, WorkOK, Uploaders
<1>b. ASSUME NEW g \in Files
      PROVE  None # g /\ None \notin Versions /\ issued[g] \in 0..MaxWrites
             /\ acked[g] \in 0..MaxWrites
  BY <1>0, SentinelAssumption DEF TypeOK, Versions
<1>c. ASSUME NEW g \in Files, kept[g], spaced[g]
      PROVE  SpacedInv(g) /\ (g = c /\ upc["drain"] \in Busy => m = issued[g])
  BY <1>a, <1>b, <1>c DEF DurableInv, SpacedInv
<1>1. CASE TakeWrite("drain")
  <2> PICK f \in Files :
        /\ upc["drain"] = "loop" /\ batch["drain"][f] # None
        /\ status' = [status EXCEPT ![f][batch["drain"][f]] = "uploading"]
        /\ sent' = [sent EXCEPT !["drain"] = body[f][batch["drain"][f]]]
        /\ cur' = [cur EXCEPT !["drain"] = f]
        /\ upc' = [upc EXCEPT !["drain"] = "http"]
        /\ UNCHANGED <<queue, tries, body, stopped, batch, tvars, disk, cloud, report,
                       ghosts, bounds>>
    BY <1>1 DEF TakeWrite, Goto
  <2> DEFINE n == batch["drain"][f]
  <2>1. n \in Versions /\ cur["drain"] = None
    BY <1>0 DEF TypeOK, DrainInv, Busy
  <2>2. body[f][n] = n
    BY <1>0, <1>b, <2>1 DEF DrainInv
  <2>3. NoFlush'
    BY <1>0, NoFlushFrame DEF TypeOK
  <2>4. /\ upc'["drain"] = "http" /\ cur'["drain"] = f /\ sent'["drain"] = n
        /\ batch' = batch /\ body' = body
    BY <1>0, <2>2 DEF TypeOK
  <2>5. \A g \in Files : \A k \in Versions :
          status'[g][k] = IF g = f /\ k = n THEN "uploading" ELSE status[g][k]
    BY <1>0, <2>1 DEF TypeOK
  <2>6. \A g \in Files : \A k \in Versions : status'[g][k] = "pending" => body'[g][k] = k
    BY <1>0, <2>4, <2>5 DEF DrainInv
  <2>7. \A g \in Files : batch'["drain"][g] # None /\ cur'["drain"] # g
                           => status'[g][batch'["drain"][g]] = "pending"
    BY <1>0, <1>b, <2>1, <2>4, <2>5 DEF DrainInv, TypeOK
  <2>8. DrainInv'
    BY <2>2, <2>4, <2>6, <2>7 DEF DrainInv, Busy
  <2>9. \A g \in Files : kept'[g] /\ spaced'[g] => SpacedInv(g)'
    BY <1>c, SpacedFrame
  <2> QED
    BY <2>3, <2>8, <2>9 DEF DurableInv
<1>2. CASE UploadOk("drain")
  <2>1. /\ upc["drain"] = "http" /\ c \in Files /\ m \in Versions /\ sent["drain"] = m
    BY <1>0, <1>2, <1>a DEF UploadOk, Busy, DrainInv
  <2>2. /\ cloud' = [cloud EXCEPT ![c] = m]
        /\ sent' = [sent EXCEPT !["drain"] = None]
        /\ upc' = [upc EXCEPT !["drain"] = "pop"]
        /\ UNCHANGED <<queue, heap, batch, cur, tvars, disk, ghosts>>
    BY <1>2, <2>1 DEF UploadOk, Goto
  <2>3. NoFlush'
    BY <1>0, <2>2, NoFlushFrame DEF TypeOK
  <2>4. DrainInv'
    BY <1>0, <2>1, <2>2 DEF DrainInv, TypeOK, Busy
  <2>5. ASSUME NEW g \in Files, kept'[g], spaced'[g] PROVE SpacedInv(g)'
    <3>1. SpacedInv(g)
      BY <1>c, <2>2, <2>5
    <3>2. CASE g = c
      <4>1. cloud'[g] = issued[g]
        BY <1>0, <1>c, <2>1, <2>2, <2>5, <3>2 DEF TypeOK, Busy
      <4>2. InCloud(g)'
        BY <1>b, <2>2, <3>1, <4>1 DEF SpacedInv, InCloud, AtLeast
      <4>3. \A t \in Threads : jobFile[t] = g => JobInv(t, g)'
        BY <2>2, <3>1, <4>1 DEF SpacedInv, JobInv
      <4> QED
        BY <2>2, <3>1, <4>2, <4>3 DEF SpacedInv
    <3>3. CASE g # c
      <4>1. cloud'[g] = cloud[g]
        BY <1>0, <2>2, <3>3 DEF TypeOK
      <4> QED
        BY <2>2, <3>1, <4>1 DEF SpacedInv, JobInv, InCloud
    <3> QED
      BY <3>2, <3>3
  <2> QED
    BY <2>3, <2>4, <2>5 DEF DurableInv
<1>3. CASE UploadRefused("drain")
  <2>1. /\ upc["drain"] = "http" /\ upc["drain"] \in Busy /\ NextWrite("drain")
        /\ MarkFailed("drain", c, m, Counted(tries[c][m]))
        /\ sent' = [sent EXCEPT !["drain"] = None]
        /\ UNCHANGED <<queue, tvars, disk, cloud, promise>>
    BY <1>3 DEF UploadRefused, AfterFailure, Busy
  <2>2. \A g \in Files : \A k \in Versions :
          /\ status'[g][k] = IF g = c /\ k = m THEN "failed" ELSE status[g][k]
          /\ ~(g = c /\ k = m) => body'[g][k] = body[g][k]
    BY <1>0, <1>a, <2>1 DEF MarkFailed, TypeOK
  <2>3. NoFlush'
    BY <1>0, <2>1, NextWriteDrain, NoFlushFrame DEF TypeOK
  <2>a. upc'["drain"] = "loop" /\ cur'["drain"] = None /\ sent'["drain"] = None
    BY <1>0, <2>1, NextWriteDrain DEF TypeOK
  <2>b. \A g \in Files : \A k \in Versions : status'[g][k] = "pending" => body'[g][k] = k
    BY <1>0, <2>2 DEF DrainInv
  <2>c. \A g \in Files : batch'["drain"][g] # None
                           => status'[g][batch'["drain"][g]] = "pending"
    BY <1>0, <1>b, <2>1, <2>2, NextWriteDrain DEF DrainInv, TypeOK
  <2>4. DrainInv'
    BY <2>a, <2>b, <2>c DEF DrainInv, Busy
  <2>5. \A g \in Files : kept'[g] /\ spaced'[g] => SpacedInv(g)'
    BY <1>c, <2>1, NextWriteDrain, SpacedFrame
  <2> QED
    BY <2>3, <2>4, <2>5 DEF DurableInv
<1>4. CASE UploadError("drain")
  <2>1. /\ upc["drain"] = "http" /\ c \in Files /\ m \in Versions /\ sent["drain"] = m
        /\ body[c][m] = m
    BY <1>0, <1>4, <1>a DEF UploadError, Busy, DrainInv
  <2>2. /\ cloud' = cloud \/ cloud' = [cloud EXCEPT ![c] = m]
        /\ \E s \in Statuses : status' = [status EXCEPT ![c][m] = s]
        /\ sent' = [sent EXCEPT !["drain"] = None]
        /\ upc' = [upc EXCEPT !["drain"] = "caught"]
        /\ UNCHANGED <<queue, body, batch, cur, tvars, disk, ghosts>>
    <3>1. cloud' = cloud \/ cloud' = [cloud EXCEPT ![c] = m]
      BY <1>4, <2>1 DEF UploadError
    <3>2. StatusAfterError(Counted(tries[c][m])) \in Statuses
      BY DEF StatusAfterError, Statuses
    <3> QED
      BY <1>4, <3>1, <3>2 DEF UploadError, Goto
  <2>3. NoFlush'
    BY <1>0, <2>2, NoFlushFrame DEF TypeOK
  <2>4. /\ upc'["drain"] = "caught" /\ sent'["drain"] = None
        /\ \A g \in Files : \A k \in Versions :
             ~(g = c /\ k = m) => status'[g][k] = status[g][k]
    BY <1>0, <2>1, <2>2 DEF TypeOK
  <2>5. \A g \in Files : \A k \in Versions : status'[g][k] = "pending" => body'[g][k] = k
    BY <1>0, <2>1, <2>2, <2>4 DEF DrainInv
  <2>6. \A g \in Files : batch'["drain"][g] # None /\ cur'["drain"] # g
                           => status'[g][batch'["drain"][g]] = "pending"
    BY <1>0, <2>2, <2>4 DEF DrainInv, TypeOK
  <2>7. DrainInv'
    BY <2>1, <2>2, <2>4, <2>5, <2>6 DEF DrainInv, Busy
  <2>8. ASSUME NEW g \in Files, kept'[g], spaced'[g] PROVE SpacedInv(g)'
    <3>1. SpacedInv(g)
      BY <1>c, <2>2, <2>8
    <3>2. cloud'[g] = cloud[g] \/ cloud'[g] = issued[g]
      BY <1>0, <1>c, <2>1, <2>2, <2>8 DEF TypeOK, Busy
    <3>3. InCloud(g) => InCloud(g)'
      BY <1>b, <2>2, <3>1, <3>2 DEF SpacedInv, InCloud, AtLeast
    <3>4. \A t \in Threads : jobFile[t] = g => JobInv(t, g)'
      BY <2>2, <3>1, <3>2 DEF SpacedInv, JobInv
    <3> QED
      BY <2>2, <3>1, <3>3, <3>4 DEF SpacedInv
  <2> QED
    BY <2>3, <2>7, <2>8 DEF DurableInv
<1>5. CASE AfterError("drain")
  <2>1. /\ upc["drain"] = "caught" /\ upc["drain"] \in Busy /\ NextWrite("drain")
        /\ \/ status[c][m] = "pending" /\ UNCHANGED <<status, body, dropped, skipped>>
           \/ MarkFailed("drain", c, m, tries[c][m])
        /\ UNCHANGED <<queue, sent, tvars, disk, cloud, promise>>
    BY <1>5 DEF AfterError, AfterFailure, Busy
  <2>2. \A g \in Files : \A k \in Versions :
          /\ ~(g = c /\ k = m) => status'[g][k] = status[g][k] /\ body'[g][k] = body[g][k]
          /\ status'[g][k] = "pending" => status[g][k] = "pending" /\ body'[g][k] = body[g][k]
    <3>1. CASE status[c][m] = "pending" /\ UNCHANGED <<status, body, dropped, skipped>>
      BY <3>1
    <3>2. CASE MarkFailed("drain", c, m, tries[c][m])
      BY <1>0, <1>a, <2>1, <3>2 DEF MarkFailed, TypeOK
    <3> QED
      BY <2>1, <3>1, <3>2
  <2>3. NoFlush'
    BY <1>0, <2>1, NextWriteDrain, NoFlushFrame DEF TypeOK
  <2>4. upc'["drain"] = "loop" /\ cur'["drain"] = None /\ sent'["drain"] = None
    BY <1>0, <2>1, NextWriteDrain DEF DrainInv, TypeOK
  <2>5. \A g \in Files : \A k \in Versions : status'[g][k] = "pending" => body'[g][k] = k
    BY <1>0, <2>2 DEF DrainInv
  <2>6. \A g \in Files : batch'["drain"][g] # None
                           => status'[g][batch'["drain"][g]] = "pending"
    BY <1>0, <1>b, <2>1, <2>2, NextWriteDrain DEF DrainInv, TypeOK
  <2>7. DrainInv'
    BY <2>4, <2>5, <2>6 DEF DrainInv, Busy
  <2>8. \A g \in Files : kept'[g] /\ spaced'[g] => SpacedInv(g)'
    BY <1>c, <2>1, NextWriteDrain, SpacedFrame
  <2> QED
    BY <2>3, <2>7, <2>8 DEF DurableInv
<1>6. CASE PopUploaded("drain")
  <2>1. /\ upc["drain"] = "pop" /\ c \in Files /\ cloud[c] = m
        /\ queue' = [queue EXCEPT ![c] = None]
        /\ upc' = [upc EXCEPT !["drain"] = "unbuf"]
        /\ UNCHANGED <<heap, batch, cur, sent, tvars, disk, cloud, ghosts>>
    BY <1>0, <1>6, <1>a DEF PopUploaded, Goto, Busy, DrainInv
  <2>2. NoFlush'
    BY <1>0, <2>1, NoFlushFrame DEF TypeOK
  <2>3. DrainInv'
    BY <1>0, <2>1 DEF DrainInv, TypeOK, Busy
  <2>4. \A g \in Files : queue'[g] \in {None, queue[g]}
    BY <1>0, <2>1 DEF TypeOK
  <2>5. \A g \in Files : kept'[g] /\ spaced'[g] => SpacedInv(g)'
    BY <1>c, <2>1, <2>4, SpacedFrame
  <2> QED
    BY <2>2, <2>3, <2>5 DEF DurableInv
<1>7. CASE UnlinkBuf("drain")
  <2>1. /\ upc["drain"] = "unbuf" /\ c \in Files /\ cloud[c] = m
        /\ buf' = [buf EXCEPT ![c] = None]
        /\ upc' = [upc EXCEPT !["drain"] = "unmeta"]
        /\ UNCHANGED <<queue, heap, batch, cur, sent, tvars, tmp, wmeta, cloud, ghosts>>
    BY <1>0, <1>7, <1>a DEF UnlinkBuf, Goto, Busy, DrainInv
  <2>2. NoFlush'
    BY <1>0, <2>1, NoFlushFrame DEF TypeOK
  <2>3. DrainInv'
    BY <1>0, <2>1 DEF DrainInv, TypeOK, Busy
  <2>4. ASSUME NEW g \in Files, kept'[g], spaced'[g] PROVE SpacedInv(g)'
    <3>1. SpacedInv(g)
      BY <1>c, <2>1, <2>4
    <3>2. CASE g = c
      <4>1. buf'[g] = None /\ cloud[g] = issued[g]
        BY <1>0, <1>c, <2>1, <2>4, <3>2 DEF TypeOK, Busy
      <4>2. InCloud(g)'
        BY <1>b, <2>1, <3>1, <4>1 DEF SpacedInv, InCloud, AtLeast
      <4>3. \A t \in Threads : jobFile[t] = g => JobInv(t, g)'
        BY <2>1, <3>1, <4>1 DEF SpacedInv, JobInv
      <4> QED
        BY <2>1, <3>1, <4>1, <4>2, <4>3 DEF SpacedInv
    <3>3. CASE g # c
      <4>1. buf'[g] = buf[g]
        BY <1>0, <2>1, <3>3 DEF TypeOK
      <4> QED
        BY <2>1, <3>1, <4>1 DEF SpacedInv, JobInv, InCloud
    <3> QED
      BY <3>2, <3>3
  <2> QED
    BY <2>2, <2>3, <2>4 DEF DurableInv
<1>8. CASE UnlinkMeta("drain")
  <2>1. /\ upc["drain"] = "unmeta" /\ upc["drain"] \in Busy /\ c \in Files /\ cloud[c] = m
        /\ NextWrite("drain")
        /\ wmeta' = [wmeta EXCEPT ![c] = "none"]
        /\ tpc' = [t \in Threads |-> IF tpc[t] = "metaw" /\ jobFile[t] = c
                                     THEN "orphan" ELSE tpc[t]]
        /\ UNCHANGED <<queue, heap, sent, jobFile, jobVer, buf, tmp, cloud, ghosts>>
    BY <1>0, <1>8, <1>a DEF UnlinkMeta, Busy, DrainInv
  <2>2. NoFlush'
    BY <1>0, <2>1, NextWriteDrain, NoFlushFrame DEF TypeOK
  <2>a. upc'["drain"] = "loop" /\ cur'["drain"] = None /\ sent'["drain"] = None
    BY <1>0, <2>1, NextWriteDrain DEF DrainInv, TypeOK
  <2>b. \A g \in Files : batch'["drain"][g] # None
                           => status'[g][batch'["drain"][g]] = "pending"
    BY <1>0, <1>b, <2>1, NextWriteDrain DEF DrainInv
  <2>3. DrainInv'
    BY <1>0, <2>1, <2>a, <2>b DEF DrainInv, Busy
  <2>4. ASSUME NEW g \in Files, kept'[g], spaced'[g] PROVE SpacedInv(g)'
    <3>1. SpacedInv(g) /\ batch'["drain"][g] \in {None, batch["drain"][g]}
      BY <1>c, <2>1, <2>4, NextWriteDrain
    <3>2. CASE g = c
      <4>1. cloud[g] = issued[g]
        BY <1>c, <2>1, <2>4, <3>2
      <4>2. InCloud(g)'
        BY <1>b, <2>1, <3>1, <4>1 DEF SpacedInv, InCloud, AtLeast
      <4>3. \A t \in Threads : jobFile[t] = g => JobInv(t, g)'
        BY <2>1, <3>1, <4>1 DEF SpacedInv, JobInv
      <4> QED
        BY <2>1, <3>1, <4>2, <4>3 DEF SpacedInv
    <3>3. CASE g # c
      <4>1. wmeta'[g] = wmeta[g] /\ \A t \in Threads : jobFile[t] = g => tpc'[t] = tpc[t]
        BY <1>0, <2>1, <3>3 DEF TypeOK
      <4> QED
        BY <2>1, <3>1, <4>1 DEF SpacedInv, JobInv, InCloud
    <3> QED
      BY <3>2, <3>3
  <2> QED
    BY <2>2, <2>3, <2>4 DEF DurableInv
<1> QED
  BY <1>1, <1>2, <1>3, <1>4, <1>5, <1>6, <1>7, <1>8 DEF Upload

LEMMA DrainDurableInv ==
  ASSUME TypeInv, DurableInv, Drain
  PROVE  DurableInv'
<1> USE DEF heap, uvars, tvars, disk, ghosts, promise, bounds
<1>0. TypeOK /\ NoFlush /\ DrainInv /\ "drain" \in Uploaders /\ "flush" \in Uploaders
  BY DEF TypeInv, DurableInv, Uploaders
<1>a. \A g \in Files : kept[g] /\ spaced[g] => SpacedInv(g)
  BY DEF DurableInv
<1>b. None \notin Versions
  BY SentinelAssumption DEF Versions
<1>1. CASE DrainExit
  <2>1. DrainInv' /\ NoFlush'
    BY <1>0, <1>1 DEF DrainExit, Goto, DrainInv, NoFlush, TypeOK, Busy
  <2>2. \A g \in Files : kept'[g] /\ spaced'[g] => SpacedInv(g)'
    BY <1>1, <1>a, SpacedFrame DEF DrainExit
  <2> QED
    BY <2>1, <2>2 DEF DurableInv
<1>2. CASE DrainPurge
  <2>1. DrainInv' /\ NoFlush'
    BY <1>0, <1>2 DEF DrainPurge, Goto, DrainInv, NoFlush, TypeOK, Busy
  <2>2. \A g \in Files : queue'[g] \in {None, queue[g]}
    BY <1>2 DEF DrainPurge, Purged, QueuedWith
  <2>3. \A g \in Files : kept'[g] /\ spaced'[g] => SpacedInv(g)'
    BY <1>2, <1>a, <2>2, SpacedFrame DEF DrainPurge
  <2> QED
    BY <2>1, <2>3 DEF DurableInv
<1>3. CASE DrainSnapshot
  <2>1. /\ upc["drain"] = "snap" /\ upc' = [upc EXCEPT !["drain"] = "loop"]
        /\ batch' = [batch EXCEPT !["drain"] = QueuedWith({"pending"})]
        /\ UNCHANGED <<queue, heap, cur, sent, tvars, disk, cloud, ghosts>>
    BY <1>3 DEF DrainSnapshot, Goto
  <2>2. \A g \in Files :
          /\ batch'["drain"][g] \in {None, queue[g]}
          /\ batch'["drain"][g] # None => status[g][batch'["drain"][g]] = "pending"
    BY <1>0, <2>1 DEF TypeOK, QueuedWith
  <2>3. NoFlush'
    BY <1>0, <2>1, NoFlushFrame DEF TypeOK
  <2>4. DrainInv'
    BY <1>0, <2>1, <2>2 DEF DrainInv, TypeOK, Busy
  <2>5. \A g \in Files : kept'[g] /\ spaced'[g] => SpacedInv(g)'
    BY <1>a, <2>1, <2>2, SpacedFrame
  <2> QED
    BY <2>3, <2>4, <2>5 DEF DurableInv
<1>4. CASE DrainBatchEnd
  <2>1. /\ upc["drain"] = "loop" /\ upc' = [upc EXCEPT !["drain"] = "idle"]
        /\ batch' = [batch EXCEPT !["drain"] = NoBatch]
        /\ UNCHANGED <<queue, heap, cur, sent, tvars, disk, cloud, ghosts>>
    BY <1>4 DEF DrainBatchEnd, Goto
  <2>2. \A g \in Files : batch'["drain"][g] = None
    BY <1>0, <2>1 DEF TypeOK, NoBatch
  <2>3. NoFlush'
    BY <1>0, <2>1, NoFlushFrame DEF TypeOK
  <2>4. DrainInv'
    BY <1>0, <2>1, <2>2 DEF DrainInv, TypeOK, Busy
  <2>5. \A g \in Files : kept'[g] /\ spaced'[g] => SpacedInv(g)'
    BY <1>a, <2>1, <2>2, SpacedFrame
  <2> QED
    BY <2>3, <2>4, <2>5 DEF DurableInv
<1>5. CASE Upload("drain")
  BY <1>5, UploadDurableInv
<1> QED
  BY <1>1, <1>2, <1>3, <1>4, <1>5 DEF Drain

LEMMA CrashDurableInv ==
  ASSUME TypeInv, DurableInv, CrashRestart
  PROVE  DurableInv'
<1> USE DEF heap, uvars, tvars, disk, ghosts, promise, bounds
<1>0. TypeOK
  BY DEF TypeInv
<1>1. NoFlush'
  BY DEF CrashRestart, NoFlush, Uploaders
<1>2. DrainInv'
  BY DEF CrashRestart, DrainInv, NoBatch, Uploaders, Busy
<1>3. \A g \in Files : queue'[g] \in {None, buf[g]} /\ (wmeta[g] = "ok" /\ buf[g] # None
                                                        => wmeta'[g] = "ok")
  BY DEF CrashRestart, Restore
<1>4. /\ batch'["drain"] = NoBatch /\ \A t \in Threads : jobFile'[t] = None
      /\ UNCHANGED <<buf, cloud, promise>>
  BY DEF CrashRestart, Uploaders
<1>5. ASSUME NEW g \in Files, kept'[g], spaced'[g] PROVE SpacedInv(g)'
  <2>1. SpacedInv(g) /\ None # g /\ None # issued[g]
    BY <1>0, <1>4, <1>5, SentinelAssumption DEF DurableInv, TypeOK
  <2>2. InCloud(g)' \/ (buf'[g] = issued'[g] /\ acked'[g] = issued'[g] /\ wmeta'[g] = "ok")
    BY <1>3, <1>4, <2>1 DEF SpacedInv, InCloud
  <2> QED
    BY <1>3, <1>4, <2>1, <2>2 DEF SpacedInv, NoBatch
<1> QED
  BY <1>1, <1>2, <1>5 DEF DurableInv

LEMMA StepDurableInv == TypeInv /\ DurableInv /\ [DrainNext]_vars => DurableInv'
<1> SUFFICES ASSUME TypeInv, DurableInv, [DrainNext]_vars PROVE DurableInv'
  OBVIOUS
<1>1. CASE DrainNext
  BY <1>1, EnqueueDurableInv, DrainDurableInv, CrashDurableInv DEF DrainNext
<1>2. CASE UNCHANGED vars
  BY <1>2 DEF vars, heap, uvars, tvars, disk, ghosts, promise, DurableInv, NoFlush, DrainInv,
     SpacedInv, JobInv, InCloud
<1> QED
  BY <1>1, <1>2

LEMMA DurableInvImplies ==
  ASSUME TypeInv, DurableInv
  PROVE  NeverUploadsReleased /\ SpacedWritesDurable
<1>0. TypeOK /\ Blank \notin Versions \cup {None}
  BY SentinelAssumption DEF TypeInv, Versions
<1>1. ASSUME NEW f \in Files, kept[f], spaced[f], acked[f] > 0
      PROVE  InCloud(f) \/ OnDisk(f)
  BY <1>0, <1>1 DEF DurableInv, SpacedInv, OnDisk, AtLeast, TypeOK
<1>2. sent["drain"] # Blank
  BY <1>0 DEF TypeInv, WorkOK, DurableInv, DrainInv, Uploaders, Busy
<1>3. sent["flush"] # Blank
  BY <1>0 DEF DurableInv, NoFlush
<1> QED
  BY <1>1, <1>2, <1>3 DEF SpacedWritesDurable, NeverUploadsReleased, Uploaders

LEMMA DrainIsNext == [DrainNext]_vars => [Next]_vars
BY DEF Next

\* An acknowledged write whose recovery files could be written, and whose file
\* is not written again, nor uploaded, while it is on its way, is in the cloud
\* or restorable from disk, through any number of failing uploads, given-up
\* retries, crashes and restarts.
THEOREM SpacedDurable == DrainSpec => []SpacedWritesDurable
<1>1. DrainSpec => [](TypeInv /\ DurableInv)
  BY InitTypeInv, InitDurableInv, StepTypeInv, StepDurableInv, DrainIsNext, PTL DEF DrainSpec
<1>2. TypeInv /\ DurableInv => SpacedWritesDurable
  BY DurableInvImplies
<1> QED
  BY <1>1, <1>2, PTL

\* The drain thread never sends the b"" of a write that was given up: it lists
\* pending writes only, and those have their content.
THEOREM DrainSendsContent == DrainSpec => []NeverUploadsReleased
<1>1. DrainSpec => [](TypeInv /\ DurableInv)
  BY InitTypeInv, InitDurableInv, StepTypeInv, StepDurableInv, DrainIsNext, PTL DEF DrainSpec
<1>2. TypeInv /\ DurableInv => NeverUploadsReleased
  BY DurableInvImplies
<1> QED
  BY <1>1, <1>2, PTL
-----------------------------------------------------------------------------
(* The cloud does not go back behind an acknowledged write of a file whose *)
(* writes are enqueued one after the other; unlike above they may overlap  *)
(* uploads of the file and each other's recovery files.                    *)

\* A queued, listed or stored write is either void or at least acknowledged,
\* and none is newer than the last one enqueued.
AckedUpTo(n, f) == n = None \/ (acked[f] <= n /\ n <= issued[f])

\* Thread t is enqueuing the newest write of f: nothing older is queued any
\* more, nor on disk once it has stored its .buf file, and once the cloud has
\* it nothing older is listed for an upload.
NewestJob(t, f) ==
  /\ jobVer[t] = issued[f]
  /\ queue[f] \in {None, issued[f]}
  /\ tpc[t] = "rename" => tmp[f] = issued[f]
  /\ tpc[t] \in {"meta", "metaw", "orphan"} => buf[f] \in {None, issued[f]}
  /\ cloud[f] = issued[f] => batch["drain"][f] \in {None, issued[f]}

OrderInv(f) ==
  /\ acked[f] <= issued[f]
  /\ cloud[f] \in 0..issued[f]
  /\ AckedUpTo(queue[f], f) /\ AckedUpTo(buf[f], f)
  /\ batch["drain"][f] # None => batch["drain"][f] <= issued[f]
  /\ InCloud(f) => AckedUpTo(batch["drain"][f], f)
  /\ \A t \in Threads : jobFile[t] = f => NewestJob(t, f)
  /\ \A t, v \in Threads : jobFile[t] = f /\ jobFile[v] = f => t = v

OrderKept == \A f \in Files : kept[f] /\ serial[f] => OrderInv(f)

LEMMA InitOrderKept == Init => OrderKept
BY BoundAssumption, SentinelAssumption
DEF Init, OrderKept, OrderInv, AckedUpTo, InCloud, AtLeast, NoBatch, Uploaders

\* A step that at most takes the file out of the queue, the list and the disk,
\* and at most turns an open .wmeta file into an unlinked one.
LEMMA OrderFrame ==
  ASSUME NEW g \in Files, OrderInv(g),
         queue'[g] \in {None, queue[g]}, buf'[g] \in {None, buf[g]},
         batch'["drain"][g] \in {None, batch["drain"][g]},
         cloud'[g] = cloud[g], tmp'[g] = tmp[g],
         UNCHANGED <<jobFile, jobVer, issued, acked>>,
         \A t \in Threads : jobFile[t] = g =>
           tpc'[t] = tpc[t] \/ (tpc[t] = "metaw" /\ tpc'[t] = "orphan")
  PROVE  OrderInv(g)'
<1>1. ASSUME NEW t \in Threads, jobFile'[t] = g PROVE NewestJob(t, g)'
  BY <1>1 DEF OrderInv, NewestJob
<1> QED
  BY <1>1 DEF OrderInv, AckedUpTo, InCloud

LEMMA EnqueueOrderKept ==
  ASSUME TypeInv, OrderKept, NEW t \in Threads, Enqueue(t)
  PROVE  OrderKept'
<1> USE DEF heap, uvars, tvars, disk, ghosts, promise, bounds
<1>0. TypeOK /\ JobsOK /\ "drain" \in Uploaders
  BY DEF TypeInv, Uploaders
<1>a. UNCHANGED <<upc, cur, sent, batch, status, body, cloud>>
  BY DEF Enqueue, EnqueueInsert, WriteTmp, RenameTmp, OpenMeta, WriteMeta
<1>b. ASSUME NEW g \in Files
      PROVE  /\ issued[g] \in 0..MaxWrites /\ acked[g] \in 0..MaxWrites /\ g # None
             /\ None \notin Int
             /\ queue[g] \in Versions \cup {None} /\ buf[g] \in Versions \cup {None}
             /\ batch["drain"][g] \in Versions \cup {None}
  BY <1>0, SentinelAssumption DEF TypeOK
<1> SUFFICES ASSUME NEW g \in Files, kept'[g], serial'[g] PROVE OrderInv(g)'
  BY DEF OrderKept
<1>1. ASSUME NEW f \in Files, EnqueueInsert(t, f)
      PROVE  OrderInv(g)'
  <2>1. kept[g] /\ serial[g] /\ OrderInv(g) /\ (g = f => Unwritten(f))
    BY <1>0, <1>1 DEF EnqueueInsert, TypeOK, OrderKept
  <2>2. CASE g = f
    <3>1. /\ queue'[g] = issued[g] + 1 /\ issued'[g] = issued[g] + 1 /\ acked'[g] = acked[g]
          /\ tpc'[t] = "tmp" /\ jobVer'[t] = issued[g] + 1 /\ buf' = buf
      BY <1>0, <1>1, <2>2 DEF EnqueueInsert, TypeOK
    <3>2. \A v \in Threads : jobFile'[v] = g => v = t
      BY <1>0, <1>1, <2>1, <2>2 DEF EnqueueInsert, Unwritten, TypeOK
    <3>3. NewestJob(t, g)'
      BY <1>a, <1>b, <2>1, <3>1 DEF NewestJob, OrderInv
    <3>4. AckedUpTo(queue[g], g)' /\ AckedUpTo(buf[g], g)'
      BY <1>b, <2>1, <3>1 DEF AckedUpTo, OrderInv, Versions
    <3>5. InCloud(g)' => AckedUpTo(batch["drain"][g], g)'
      BY <1>a, <1>b, <2>1, <3>1 DEF AckedUpTo, OrderInv, Versions, InCloud
    <3>6. /\ (acked[g] <= issued[g])' /\ (cloud[g] \in 0..issued[g])'
          /\ (batch["drain"][g] # None => batch["drain"][g] <= issued[g])'
      BY <1>a, <1>b, <2>1, <3>1 DEF OrderInv, Versions
    <3> QED
      BY <3>2, <3>3, <3>4, <3>5, <3>6 DEF OrderInv
  <2>3. CASE g # f
    <3>1. /\ issued'[g] = issued[g] /\ acked'[g] = acked[g] /\ queue'[g] = queue[g]
          /\ UNCHANGED <<batch, buf, tmp, cloud>>
      BY <1>0, <1>1, <2>3 DEF EnqueueInsert, TypeOK
    <3>2. \A v \in Threads : jobFile'[v] = g =>
             jobFile[v] = g /\ jobVer'[v] = jobVer[v] /\ tpc'[v] = tpc[v]
      BY <1>0, <1>1, <2>3 DEF EnqueueInsert, TypeOK
    <3> QED
      BY <2>1, <3>1, <3>2 DEF OrderInv, NewestJob, AckedUpTo, InCloud
  <2> QED
    BY <2>2, <2>3
<1>2. CASE WriteTmp(t)
  <2>0. kept[g] /\ serial[g]
    BY <1>0, <1>2 DEF WriteTmp, TypeOK
  <2>1. /\ OrderInv(g) /\ tpc[t] = "tmp"
        /\ \/ /\ tpc' = [tpc EXCEPT ![t] = "rename"]
              /\ tmp' = [tmp EXCEPT ![jobFile[t]] = jobVer[t]]
           \/ jobFile[t] # g /\ tpc' = [tpc EXCEPT ![t] = "meta"] /\ tmp' = tmp
        /\ UNCHANGED <<queue, batch, jobFile, jobVer, buf, cloud, issued, acked>>
    BY <1>0, <1>2, <2>0 DEF WriteTmp, OrderKept, TypeOK
  <2>2. ASSUME NEW v \in Threads, jobFile[v] = g PROVE NewestJob(v, g)'
    <3>1. NewestJob(v, g) /\ (jobFile[t] = g => v = t)
      BY <2>1, <2>2 DEF OrderInv
    <3>2. CASE v = t
      BY <1>0, <2>1, <2>2, <3>1, <3>2 DEF NewestJob, TypeOK
    <3>3. CASE v # t
      BY <1>0, <2>1, <2>2, <3>1, <3>3 DEF NewestJob, TypeOK
    <3> QED
      BY <3>2, <3>3
  <2> QED
    BY <2>1, <2>2 DEF OrderInv, InCloud, AckedUpTo
<1>3. CASE RenameTmp(t)
  <2>1. /\ OrderInv(g) /\ tpc[t] = "rename" /\ jobFile[t] \in Files
        /\ tpc' = [tpc EXCEPT ![t] = "meta"]
        /\ UNCHANGED <<queue, batch, jobFile, jobVer, cloud, issued, acked>>
    BY <1>0, <1>3 DEF RenameTmp, OrderKept, JobsOK
  <2>2. CASE jobFile[t] = g
    <3>1. NewestJob(t, g) /\ tmp[g] = issued[g] /\ tmp[g] # None
      BY <1>b, <2>1, <2>2 DEF OrderInv, NewestJob
    <3>2. buf'[g] = issued[g]
      BY <1>0, <1>3, <2>2, <3>1 DEF RenameTmp, Renamed, TypeOK
    <3>3. \A v \in Threads : jobFile[v] = g => v = t
      BY <2>1, <2>2 DEF OrderInv
    <3>4. NewestJob(t, g)'
      BY <1>0, <2>1, <3>1, <3>2 DEF NewestJob, TypeOK
    <3>5. AckedUpTo(buf[g], g)'
      BY <1>b, <2>1, <3>2 DEF OrderInv, AckedUpTo
    <3> QED
      BY <2>1, <3>3, <3>4, <3>5 DEF OrderInv, InCloud, AckedUpTo
  <2>3. CASE jobFile[t] # g
    <3>1. buf'[g] = buf[g] /\ tmp'[g] = tmp[g]
      BY <1>0, <1>3, <2>1, <2>3 DEF RenameTmp, TypeOK
    <3>2. \A v \in Threads : jobFile[v] = g => v # t /\ tpc'[v] = tpc[v]
      BY <1>0, <2>1, <2>3 DEF TypeOK
    <3> QED
      BY <2>1, <3>1, <3>2, OrderFrame
  <2> QED
    BY <2>2, <2>3
<1>4. CASE OpenMeta(t)
  <2>0. kept[g] /\ serial[g]
    BY <1>0, <1>4 DEF OpenMeta, TypeOK
  <2>1. /\ OrderInv(g) /\ tpc[t] = "meta"
        /\ \E point \in {"metaw", "orphan"} : tpc' = [tpc EXCEPT ![t] = point]
        /\ UNCHANGED <<queue, batch, jobFile, jobVer, buf, tmp, cloud, issued, acked>>
    BY <1>4, <2>0 DEF OpenMeta, OrderKept
  <2>2. ASSUME NEW v \in Threads, jobFile[v] = g PROVE NewestJob(v, g)'
    <3>1. NewestJob(v, g)
      BY <2>1, <2>2 DEF OrderInv
    <3>2. CASE v = t
      BY <1>0, <2>1, <3>1, <3>2 DEF NewestJob, TypeOK
    <3>3. CASE v # t
      BY <1>0, <2>1, <3>1, <3>3 DEF NewestJob, TypeOK
    <3> QED
      BY <3>2, <3>3
  <2> QED
    BY <2>1, <2>2 DEF OrderInv, InCloud, AckedUpTo
<1>5. CASE WriteMeta(t)
  <2>1. /\ OrderInv(g) /\ tpc[t] \in {"metaw", "orphan"}
        /\ UNCHANGED <<queue, batch, buf, tmp, cloud, issued>>
    BY <1>5 DEF WriteMeta, OrderKept
  <2>2. \A v \in Threads : jobFile'[v] = g =>
          v # t /\ jobFile[v] = g /\ jobVer'[v] = jobVer[v] /\ tpc'[v] = tpc[v]
    BY <1>0, <1>5, <1>b DEF WriteMeta, TypeOK
  <2>3. CASE jobFile[t] = g
    <3>1. NewestJob(t, g) /\ \A v \in Threads : jobFile'[v] # g
      BY <2>1, <2>2, <2>3 DEF OrderInv
    <3>2. acked'[g] = issued[g]
      <4>1. jobVer[t] = issued[g] /\ acked[g] <= issued[g]
        BY <2>1, <3>1 DEF NewestJob, OrderInv
      <4>2. acked'[g] = IF issued[g] > acked[g] THEN issued[g] ELSE acked[g]
        BY <1>0, <1>5, <2>3, <4>1 DEF WriteMeta, TypeOK
      <4> QED
        BY <1>b, <4>1, <4>2
    <3>3. InCloud(g)' => cloud[g] = issued[g]
      BY <1>b, <2>1, <3>2 DEF InCloud, AtLeast, OrderInv
    <3> QED
      BY <1>b, <2>1, <3>1, <3>2, <3>3 DEF OrderInv, NewestJob, AckedUpTo
  <2>4. CASE jobFile[t] # g
    <3>1. acked'[g] = acked[g]
      BY <1>0, <1>5, <2>4 DEF WriteMeta, TypeOK
    <3>2. \A v \in Threads : jobFile'[v] = g => NewestJob(v, g)'
      BY <2>1, <2>2 DEF OrderInv, NewestJob
    <3> QED
      BY <2>1, <2>2, <3>1, <3>2 DEF OrderInv, AckedUpTo, InCloud
  <2> QED
    BY <2>3, <2>4
<1> QED
  BY <1>1, <1>2, <1>3, <1>4, <1>5 DEF Enqueue

LEMMA UploadOrderKept ==
  ASSUME TypeInv, DurableInv, OrderKept, Upload("drain")
  PROVE  OrderKept'
<1> USE DEF heap, uvars, tvars, disk, ghosts, promise, bounds
<1> DEFINE c == cur["drain"]
           m == batch["drain"][c]
<1>0. TypeOK /\ DrainInv /\ "drain" \in Uploaders
  BY DEF TypeInv, DurableInv, Uploaders
<1>a. upc["drain"] \in Busy => c \in Files /\ m \in Versions
  BY DEF TypeInv, WorkOK, Uploaders
<1>b. ASSUME NEW g \in Files
      PROVE  issued[g] \in 0..MaxWrites /\ acked[g] \in 0..MaxWrites /\ None \notin Int
  BY <1>0, SentinelAssumption DEF TypeOK
<1>c. UNCHANGED <<jobFile, jobVer, tmp, promise>>
  BY DEF Upload, TakeWrite, UploadOk, UploadRefused, UploadError, AfterError, PopUploaded,
     UnlinkBuf, UnlinkMeta
<1> SUFFICES ASSUME NEW g \in Files, kept'[g], serial'[g] PROVE OrderInv(g)'
  BY DEF OrderKept
<1>d. OrderInv(g)
  BY <1>c DEF OrderKept
<1>1. ASSUME UploadOk("drain") \/ UploadError("drain")
      PROVE  OrderInv(g)'
  <2>1. /\ c \in Files /\ m \in Versions /\ sent["drain"] = m
        /\ UNCHANGED <<queue, buf, batch, tpc>>
        /\ cloud' = cloud \/ cloud' = [cloud EXCEPT ![c] = m]
    BY <1>0, <1>1, <1>a DEF UploadOk, UploadError, DrainInv, Busy
  <2>2. CASE cloud'[g] = cloud[g]
    BY <1>c, <1>d, <2>1, <2>2, OrderFrame
  <2>3. CASE cloud'[g] # cloud[g]
    <3>1. g = c /\ cloud'[g] = m /\ batch'["drain"][g] = m
      BY <1>0, <2>1, <2>3 DEF TypeOK
    <3>2. m \in 0..issued[g]
      BY <1>b, <1>d, <2>1, <3>1 DEF OrderInv, Versions
    <3>3. InCloud(g)' => AckedUpTo(batch["drain"][g], g)'
      BY <1>b, <1>c, <3>1, <3>2 DEF InCloud, AtLeast, AckedUpTo
    <3>4. ASSUME NEW t \in Threads, jobFile[t] = g PROVE NewestJob(t, g)'
      BY <1>c, <1>d, <2>1, <3>1, <3>4 DEF OrderInv, NewestJob
    <3> QED
      BY <1>b, <1>c, <1>d, <2>1, <3>1, <3>2, <3>3, <3>4 DEF OrderInv, AckedUpTo
  <2> QED
    BY <2>2, <2>3
<1>2. CASE TakeWrite("drain")
  BY <1>2, <1>c, <1>d, OrderFrame DEF TakeWrite
<1>3. ASSUME UploadRefused("drain") \/ AfterError("drain")
      PROVE  OrderInv(g)'
  <2>1. /\ upc["drain"] \in Busy /\ NextWrite("drain")
        /\ UNCHANGED <<queue, buf, cloud, tpc>>
    BY <1>3 DEF UploadRefused, AfterError, AfterFailure, Busy
  <2> QED
    BY <1>c, <1>d, <2>1, NextWriteDrain, OrderFrame
<1>4. CASE PopUploaded("drain")
  <2>1. queue'[g] \in {None, queue[g]} /\ UNCHANGED <<buf, batch, cloud, tpc>>
    BY <1>0, <1>4 DEF PopUploaded, TypeOK
  <2> QED
    BY <1>c, <1>d, <2>1, OrderFrame
<1>5. CASE UnlinkBuf("drain")
  <2>1. buf'[g] \in {None, buf[g]} /\ UNCHANGED <<queue, batch, cloud, tpc>>
    BY <1>0, <1>5 DEF UnlinkBuf, TypeOK
  <2> QED
    BY <1>c, <1>d, <2>1, OrderFrame
<1>6. CASE UnlinkMeta("drain")
  <2>1. /\ upc["drain"] \in Busy /\ NextWrite("drain")
        /\ UNCHANGED <<queue, buf, cloud>>
        /\ \A t \in Threads : tpc'[t] = tpc[t] \/ (tpc[t] = "metaw" /\ tpc'[t] = "orphan")
    BY <1>6 DEF UnlinkMeta, Busy
  <2> QED
    BY <1>c, <1>d, <2>1, NextWriteDrain, OrderFrame
<1> QED
  BY <1>1, <1>2, <1>3, <1>4, <1>5, <1>6 DEF Upload

LEMMA DrainOrderKept ==
  ASSUME TypeInv, DurableInv, OrderKept, Drain
  PROVE  OrderKept'
<1> USE DEF heap, uvars, tvars, disk, ghosts, promise, bounds
<1>0. TypeOK /\ "drain" \in Uploaders
  BY DEF TypeInv, Uploaders
<1>1. CASE Upload("drain")
  BY <1>1, UploadOrderKept
<1>2. CASE ~Upload("drain")
  <2>1. UNCHANGED <<tvars, disk, cloud, promise>>
    BY <1>2 DEF Drain, DrainExit, DrainPurge, DrainSnapshot, DrainBatchEnd
  <2> SUFFICES ASSUME NEW g \in Files, kept'[g], serial'[g] PROVE OrderInv(g)'
    BY DEF OrderKept
  <2>2. OrderInv(g)
    BY <2>1 DEF OrderKept
  <2>3. CASE DrainExit \/ DrainPurge \/ DrainBatchEnd
    <3>1. queue'[g] \in {None, queue[g]} /\ batch'["drain"][g] \in {None, batch["drain"][g]}
      BY <1>0, <2>3 DEF DrainExit, DrainPurge, DrainBatchEnd, Purged, QueuedWith, NoBatch,
         TypeOK
    <3> QED
      BY <2>1, <2>2, <3>1, OrderFrame
  <2>4. CASE DrainSnapshot
    <3>1. batch'["drain"][g] \in {None, queue[g]} /\ queue' = queue
      BY <1>0, <2>4 DEF DrainSnapshot, QueuedWith, TypeOK
    <3>2. AckedUpTo(batch["drain"][g], g)'
      BY <2>1, <2>2, <3>1 DEF OrderInv, AckedUpTo
    <3>3. ASSUME NEW t \in Threads, jobFile[t] = g PROVE NewestJob(t, g)'
      BY <2>1, <2>2, <3>1, <3>3 DEF OrderInv, NewestJob
    <3> QED
      BY <2>1, <2>2, <3>1, <3>2, <3>3 DEF OrderInv, AckedUpTo, InCloud
  <2> QED
    BY <1>2, <2>3, <2>4 DEF Drain
<1> QED
  BY <1>1, <1>2

LEMMA CrashOrderKept ==
  ASSUME TypeInv, OrderKept, CrashRestart
  PROVE  OrderKept'
<1> SUFFICES ASSUME NEW g \in Files, kept'[g], serial'[g] PROVE OrderInv(g)'
  BY DEF OrderKept
<1>1. /\ OrderInv(g) /\ queue'[g] \in {None, buf[g]} /\ batch'["drain"][g] = None
      /\ \A t \in Threads : jobFile'[t] # g
      /\ UNCHANGED <<buf, cloud, issued, acked>>
  BY SentinelAssumption
  DEF CrashRestart, Restore, OrderKept, NoBatch, Uploaders, ghosts, promise
<1> QED
  BY <1>1 DEF OrderInv, AckedUpTo, InCloud

LEMMA StepOrderKept == TypeInv /\ DurableInv /\ OrderKept /\ [DrainNext]_vars => OrderKept'
<1> SUFFICES ASSUME TypeInv, DurableInv, OrderKept, [DrainNext]_vars PROVE OrderKept'
  OBVIOUS
<1>1. CASE DrainNext
  BY <1>1, EnqueueOrderKept, DrainOrderKept, CrashOrderKept DEF DrainNext
<1>2. CASE UNCHANGED vars
  BY <1>2 DEF vars, heap, uvars, tvars, disk, ghosts, promise, OrderKept, OrderInv,
     AckedUpTo, NewestJob, InCloud
<1> QED
  BY <1>1, <1>2

\* The only step that moves the cloud is the end of an upload.
LEMMA CloudStep ==
  ASSUME TypeInv, DurableInv, OrderKept, [DrainNext]_vars,
         NEW f \in Files, kept[f], serial[f], acked[f] > 0, InCloud(f)
  PROVE  AtLeast(cloud'[f], acked[f])
<1> USE DEF heap, uvars, tvars, disk, ghosts, promise, bounds
<1>0. TypeOK /\ DrainInv /\ OrderInv(f) /\ "drain" \in Uploaders
  BY DEF TypeInv, DurableInv, OrderKept, Uploaders
<1>1. CASE UploadOk("drain") \/ UploadError("drain")
  <2> DEFINE c == cur["drain"]
             m == batch["drain"][c]
  <2>1. /\ c \in Files /\ m \in Versions
        /\ cloud' = cloud \/ cloud' = [cloud EXCEPT ![c] = m]
    BY <1>0, <1>1 DEF TypeInv, WorkOK, UploadOk, UploadError, DrainInv, Busy
  <2>2. CASE cloud'[f] # cloud[f]
    <3>1. f = c /\ cloud'[f] = m
      BY <1>0, <2>1, <2>2 DEF TypeOK
    <3>2. AckedUpTo(m, f) /\ m # None /\ acked[f] \in Nat
      BY <1>0, <2>1, <3>1, SentinelAssumption DEF OrderInv, Versions, TypeOK
    <3> QED
      BY <2>1, <3>1, <3>2 DEF AckedUpTo, AtLeast, Versions
  <2> QED
    BY <2>2 DEF InCloud
<1>2. CASE ~(UploadOk("drain") \/ UploadError("drain"))
  <2>1. cloud' = cloud
    <3>1. CASE UNCHANGED vars
      BY <3>1 DEF vars
    <3>2. CASE \E t \in Threads : Enqueue(t)
      BY <3>2 DEF Enqueue, EnqueueInsert, WriteTmp, RenameTmp, OpenMeta, WriteMeta
    <3>3. CASE Drain
      BY <1>2, <3>3 DEF Drain, DrainExit, DrainPurge, DrainSnapshot, DrainBatchEnd, Upload,
         TakeWrite, UploadRefused, AfterError, PopUploaded, UnlinkBuf, UnlinkMeta
    <3>4. CASE CrashRestart
      BY <3>4 DEF CrashRestart
    <3> QED
      BY <3>1, <3>2, <3>3, <3>4 DEF DrainNext
  <2> QED
    BY <2>1 DEF InCloud
<1> QED
  BY <1>1, <1>2

\* No retry, restore or late upload puts older content than the newest
\* acknowledged write into the cloud, once that write is there: for a file
\* whose writes are enqueued one after the other, whatever their uploads and
\* recovery files overlap with.
THEOREM CloudNeverGoesBack == DrainSpec => CloudKeepsAcked
<1>1. DrainSpec => [](TypeInv /\ DurableInv /\ OrderKept)
  BY InitTypeInv, InitDurableInv, InitOrderKept, StepTypeInv, StepDurableInv, StepOrderKept,
     DrainIsNext, PTL DEF DrainSpec
<1>2. TypeInv /\ DurableInv /\ OrderKept /\ [DrainNext]_vars =>
        [\A f \in Files :
           serial[f] /\ kept[f] /\ acked[f] > 0 /\ InCloud(f) => AtLeast(cloud'[f], acked[f])]_vars
  BY CloudStep
<1> QED
  BY <1>1, <1>2, PTL DEF DrainSpec, CloudKeepsAcked

-----------------------------------------------------------------------------
(* With flush_all, beside the drain thread or after it: what it keeps and  *)
(* what its report "ok" means.                                             *)
(*                                                                         *)
(* The inductive invariant.  Part of it holds of every file: nothing is    *)
(* known of versions that have not been enqueued, and the two uploaders    *)
(* are where their control points say.  The rest is about the files of the *)
(* two properties: those whose writes were spaced, whose recovery files    *)
(* were written and of which no write was given up and left in the queue.  *)

\* No version beyond the last enqueued one is anywhere.
Known(f) ==
  /\ queue[f] # None => queue[f] <= issued[f]
  /\ buf[f] # None => buf[f] <= issued[f]
  /\ tmp[f] # None => tmp[f] <= issued[f]
  /\ \A u \in Uploaders : batch[u][f] # None => batch[u][f] <= issued[f]
  /\ \A t \in Threads : jobFile[t] = f => jobVer[t] \in 1..issued[f]
  /\ \A n \in Versions : n > issued[f] => status[f][n] = "pending" /\ body[f][n] = n

\* The drain thread runs alone until flush_all sets the stop event.
Phase ==
  /\ stopped = (upc["flush"] # "off")
  /\ upc["flush"] \in {"off", "join"} => report = "none"
  /\ report = "ok" => upc["flush"] = "done"
  /\ upc["flush"] \in {"off", "join", "snap", "done"} => batch["flush"] = NoBatch
  /\ upc["drain"] # "check"
  /\ \A u \in Uploaders : upc[u] \notin Busy => cur[u] = None

\* The uploaders know the newest write of f only, send its content, and clean
\* up after it is in the cloud; flush_all keeps off the write with which it has
\* left the drain thread behind.
OnlyNewest(f) ==
  /\ batch["flush"][f] \in {None, issued[f]}
  /\ \A u \in Uploaders : cur[u] = f =>
       /\ upc[u] = "http" => sent[u] = issued[f]
       /\ upc[u] \in {"pop", "unbuf", "unmeta"} => cloud[f] = issued[f]
  /\ upc["drain"] = "http" /\ cur["drain"] = f
       => batch["flush"][f] = None /\ status[f][issued[f]] = "uploading"

\* flush_all has used up the retries of the newest write of f.
Tried(f) == tries[f][issued[f]] >= MaxRetries

\* A status says where the newest write of f is: under way, or in the cloud; or
\* given up, which before flush_all only a drain thread about to do so says,
\* and which flush_all says of a write that it takes out of the queue.
StatusTrue(f) ==
  /\ status[f][issued[f]] = "uploading"
       => cloud[f] = issued[f] \/ \E u \in Uploaders : upc[u] = "http" /\ cur[u] = f
  /\ status[f][issued[f]] = "failed"
       => stopped \/ (upc["drain"] = "caught" /\ cur["drain"] = f)
  /\ upc["flush"] = "caught" /\ cur["flush"] = f
       => status[f][issued[f]] = "pending" \/ Tried(f)
  /\ body[f][issued[f]] # issued[f]
       => /\ body[f][issued[f]] = Blank /\ status[f][issued[f]] = "failed" /\ stopped
          /\ \/ queue[f] = None /\ batch["flush"][f] = None
             \/ upc["flush"] = "check" /\ cur["flush"] = f /\ Tried(f)

\* A write that is not in the cloud is queued, as long as flush_all has nothing
\* to report.
Queued(f) ==
  ~skipped[f] /\ report = "none" =>
    /\ InCloud(f) \/ queue[f] = issued[f]
    /\ \A t \in Threads : jobFile[t] = f => issued[f] \in {cloud[f], queue[f]}

StopInv(f) ==
  /\ SpacedInv(f)
  /\ OnlyNewest(f)
  /\ issued[f] > 0 => StatusTrue(f)
  /\ Queued(f)

Minded(f) == spaced[f] /\ kept[f] /\ ~dropped[f]

FlushInv ==
  /\ Phase
  /\ \A f \in Files : Known(f)
  /\ \A f \in Files : Minded(f) => StopInv(f)
LEMMA InitFlushInv == Init => FlushInv
<1> SUFFICES ASSUME Init PROVE FlushInv
  OBVIOUS
<1>1. Phase
  BY DEF Init, Phase, NoBatch, Uploaders, Busy
<1>2. \A f \in Files : Known(f)
  BY SentinelAssumption DEF Init, Known, NoBatch, Uploaders
<1>3. \A f \in Files : SpacedInv(f)
  BY BoundAssumption, SentinelAssumption
  DEF Init, SpacedInv, InCloud, AtLeast, NoBatch, Uploaders
<1>4. \A f \in Files : OnlyNewest(f) /\ Queued(f) /\ ~(issued[f] > 0)
  BY BoundAssumption, SentinelAssumption
  DEF Init, OnlyNewest, Queued, InCloud, AtLeast, NoBatch, Uploaders
<1> QED
  BY <1>1, <1>2, <1>3, <1>4 DEF FlushInv, StopInv

-----------------------------------------------------------------------------
(* Steps that have nothing to do with a file.                              *)

\* A step that leaves the writes of g and whoever works on them alone, but for
\* the list of the drain thread.
LEMMA StopFrame ==
  ASSUME NEW g \in Files, StopInv(g),
         issued'[g] = issued[g], acked'[g] = acked[g],
         cloud'[g] = cloud[g], queue'[g] = queue[g], buf'[g] = buf[g], tmp'[g] = tmp[g],
         wmeta'[g] = wmeta[g],
         status'[g] = status[g], body'[g] = body[g], tries'[g] = tries[g],
         batch'["drain"][g] \in {None, issued[g], batch["drain"][g]},
         batch'["flush"][g] = batch["flush"][g],
         \A u \in Uploaders : cur'[u] = g <=> cur[u] = g,
         \A u \in Uploaders : cur[u] = g => upc'[u] = upc[u] /\ sent'[u] = sent[u],
         \A t \in Threads : jobFile'[t] = g <=> jobFile[t] = g,
         \A t \in Threads : jobFile[t] = g => jobVer'[t] = jobVer[t] /\ tpc'[t] = tpc[t],
         stopped => stopped', report' = "none" => report = "none",
         skipped'[g] = skipped[g]
  PROVE  StopInv(g)'
<1>1. SpacedInv(g)'
  BY DEF StopInv, SpacedInv, JobInv, InCloud
<1>2. OnlyNewest(g)'
  BY DEF StopInv, OnlyNewest, Uploaders
<1>3. issued'[g] > 0 => StatusTrue(g)'
  BY DEF StopInv, StatusTrue, Tried, Uploaders
<1>4. Queued(g)'
  BY DEF StopInv, Queued, InCloud
<1> QED
  BY <1>1, <1>2, <1>3, <1>4 DEF StopInv

\* A step that enqueues nothing and changes the heap at most where an uploader
\* has a write.
LEMMA KnownFrame ==
  ASSUME TypeInv, NEW g \in Files, Known(g), issued' = issued,
         queue'[g] \in {None, queue[g]}, buf'[g] \in {None, buf[g]},
         tmp'[g] = tmp[g], jobFile' = jobFile, jobVer' = jobVer,
         \A u \in Uploaders : batch'[u][g] \in {None, queue[g], batch[u][g]},
         \A n \in Versions : (\A u \in Uploaders : batch[u][g] # n)
                               => status'[g][n] = status[g][n] /\ body'[g][n] = body[g][n]
  PROVE  Known(g)'
<1>0. issued[g] \in Int /\ Versions \subseteq Int
  BY DEF TypeInv, TypeOK, Versions
<1>1. \A n \in Versions : n > issued[g] => status'[g][n] = "pending" /\ body'[g][n] = n
  <2> SUFFICES ASSUME NEW n \in Versions, n > issued[g]
               PROVE  status'[g][n] = "pending" /\ body'[g][n] = n
    OBVIOUS
  <2>1. \A u \in Uploaders : batch[u][g] # n
    BY <1>0, SentinelAssumption DEF Known
  <2> QED
    BY <2>1 DEF Known
<1> QED
  BY <1>1 DEF Known, Uploaders

-----------------------------------------------------------------------------
(* The steps of enqueue.                                                   *)

LEMMA EnqueueKnown ==
  ASSUME TypeInv, NEW t \in Threads, Enqueue(t), NEW g \in Files, Known(g)
  PROVE  Known(g)'
<1> USE DEF heap, uvars, tvars, disk, ghosts, promise, bounds
<1>0. /\ TypeOK /\ JobsOK /\ Versions \subseteq Int /\ issued[g] \in Int
      /\ None \notin Int /\ None \notin Files
  BY SentinelAssumption DEF TypeInv, TypeOK, Versions
<1>1. CASE \E f \in Files : EnqueueInsert(t, f)
  <2> PICK f \in Files : EnqueueInsert(t, f)
    BY <1>1
  <2>1. UNCHANGED <<status, body, batch, buf, tmp>>
    BY DEF EnqueueInsert
  <2>2. /\ issued' = [issued EXCEPT ![f] = @ + 1] /\ queue' = [queue EXCEPT ![f] = issued[f] + 1]
        /\ jobFile' = [jobFile EXCEPT ![t] = f] /\ jobVer' = [jobVer EXCEPT ![t] = issued[f] + 1]
    BY DEF EnqueueInsert
  <2>3. issued'[g] \in Int /\ issued'[g] >= issued[g] /\ (g = f => issued'[g] = issued[g] + 1)
    BY <1>0, <2>2 DEF TypeOK
  <2>4. queue'[g] # None => queue'[g] <= issued'[g]
    BY <1>0, <2>2, <2>3 DEF TypeOK, Known
  <2>5. \A v \in Threads : jobFile'[v] = g => jobVer'[v] \in 1..issued'[g]
    <3> SUFFICES ASSUME NEW v \in Threads, jobFile'[v] = g PROVE jobVer'[v] \in 1..issued'[g]
      OBVIOUS
    <3>1. CASE v = t
      <4>1. g = f /\ jobVer'[v] = issued[g] + 1 /\ issued[g] >= 0
        BY <1>0, <2>2, <3>1 DEF TypeOK
      <4> QED
        BY <1>0, <2>3, <4>1
    <3>2. CASE v # t
      <4>1. jobFile[v] = g /\ jobVer'[v] = jobVer[v]
        BY <1>0, <2>2, <3>2 DEF TypeOK
      <4>2. jobVer[v] \in 1..issued[g]
        BY <4>1 DEF Known
      <4> QED
        BY <1>0, <2>3, <4>1, <4>2
    <3> QED
      BY <3>1, <3>2
  <2>6. /\ buf'[g] # None => buf'[g] <= issued'[g]
        /\ tmp'[g] # None => tmp'[g] <= issued'[g]
        /\ \A u \in Uploaders : batch'[u][g] # None => batch'[u][g] <= issued'[g]
    <3>1. \A n \in Int \cup {None} : (n # None => n <= issued[g])
                                  => (n # None => n <= issued'[g])
      BY <1>0, <2>3
    <3>2. buf[g] \in Int \cup {None} /\ tmp[g] \in Int \cup {None}
          /\ \A u \in Uploaders : batch[u][g] \in Int \cup {None}
      <4>1. /\ buf[g] \in Versions \cup {None} /\ tmp[g] \in Versions \cup {None}
            /\ \A u \in Uploaders : batch[u][g] \in Versions \cup {None}
        BY <1>0 DEF TypeOK
      <4> QED
        BY <1>0, <4>1
    <3>3. /\ buf'[g] # None => buf'[g] <= issued'[g]
          /\ tmp'[g] # None => tmp'[g] <= issued'[g]
      BY <2>1, <3>1, <3>2 DEF Known
    <3>4. ASSUME NEW u \in Uploaders, batch'[u][g] # None
          PROVE  batch'[u][g] <= issued'[g]
      <4>1. batch[u][g] # None => batch[u][g] <= issued[g]
        BY DEF Known
      <4> QED
        BY <2>1, <3>1, <3>2, <3>4, <4>1
    <3> QED
      BY <3>3, <3>4
  <2>7. \A n \in Versions : n > issued'[g] => status'[g][n] = "pending" /\ body'[g][n] = n
    <3>1. \A n \in Versions : n > issued'[g] => n > issued[g]
      BY <1>0, <2>3
    <3> QED
      BY <2>1, <3>1 DEF Known
  <2> QED
    BY <2>4, <2>5, <2>6, <2>7 DEF Known
<1>2. CASE WriteTmp(t)
  <2>1. tmp'[g] = tmp[g] \/ (jobFile[t] = g /\ tmp'[g] = jobVer[t])
    BY <1>0, <1>2 DEF WriteTmp, TypeOK
  <2>2. tmp'[g] # None => tmp'[g] <= issued'[g]
    BY <1>0, <1>2, <2>1 DEF WriteTmp, Known
  <2> QED
    BY <1>0, <1>2, <2>2 DEF WriteTmp, Known
<1>3. CASE RenameTmp(t)
  <2>1. buf'[g] \in {buf[g], tmp[g]} /\ tmp'[g] \in {None, tmp[g]}
    BY <1>0, <1>3 DEF RenameTmp, Renamed, TypeOK
  <2> QED
    BY <1>0, <1>3, <2>1 DEF RenameTmp, Known
<1>4. CASE OpenMeta(t)
  BY <1>0, <1>4 DEF OpenMeta, Known
<1>5. CASE WriteMeta(t)
  <2>1. \A v \in Threads : jobFile'[v] = g => jobFile[v] = g /\ jobVer'[v] = jobVer[v]
    BY <1>0, <1>5 DEF WriteMeta, TypeOK
  <2> QED
    BY <1>0, <1>5, <2>1 DEF WriteMeta, Known
<1> QED
  BY <1>1, <1>2, <1>3, <1>4, <1>5 DEF Enqueue

LEMMA EnqueueStop ==
  ASSUME TypeInv, FlushInv, NEW t \in Threads, Enqueue(t), NEW g \in Files, Minded(g)'
  PROVE  StopInv(g)'
<1> USE DEF heap, uvars, tvars, disk, ghosts, promise, bounds
<1>0. /\ TypeOK /\ JobsOK /\ WorkOK /\ Phase /\ Known(g) /\ None \notin Int \cup Files
      /\ issued[g] \in 0..MaxWrites /\ acked[g] \in 0..MaxWrites
  BY SentinelAssumption DEF TypeInv, TypeOK, FlushInv
<1>1. /\ Minded(g) /\ spaced'[g] /\ kept'[g]
      /\ UNCHANGED <<heap, stopped, uvars, cloud, report, dropped, skipped>>
  <2>1. UNCHANGED <<heap, stopped, uvars, cloud, report, dropped, skipped>>
    BY DEF Enqueue, EnqueueInsert, WriteTmp, RenameTmp, OpenMeta, WriteMeta
  <2>2. CASE \E f \in Files : EnqueueInsert(t, f)
    BY <1>0, <2>2 DEF EnqueueInsert, Minded, TypeOK
  <2>3. CASE WriteTmp(t) \/ RenameTmp(t) \/ OpenMeta(t) \/ WriteMeta(t)
    <3>1. spaced' = spaced /\ (kept' = kept \/ kept' = [kept EXCEPT ![jobFile[t]] = FALSE])
      BY <2>3 DEF WriteTmp, RenameTmp, OpenMeta, WriteMeta
    <3> QED
      BY <1>0, <2>1, <3>1 DEF Minded, TypeOK
  <2> QED
    BY <2>1, <2>2, <2>3 DEF Enqueue
<1>2. SpacedInv(g) /\ OnlyNewest(g) /\ (issued[g] > 0 => StatusTrue(g)) /\ Queued(g)
  BY <1>1 DEF FlushInv, StopInv
<1>3. SpacedInv(g)'
  BY <1>1, <1>2, EnqueueSpaced
<1>4. CASE EnqueueInsert(t, g)
  <2>1. /\ Quiescent(g) /\ issued[g] < MaxWrites
        /\ issued'[g] = issued[g] + 1 /\ queue'[g] = issued[g] + 1 /\ acked' = acked
    BY <1>0, <1>1, <1>4 DEF EnqueueInsert, TypeOK
  <2>2. \A u \in Uploaders : batch[u][g] = None /\ cur[u] # g
    BY <1>0, <2>1, SentinelAssumption DEF Quiescent, WorkOK, Phase, Versions
  <2>3. status[g][issued'[g]] = "pending" /\ body[g][issued'[g]] = issued'[g]
    <3>1. issued'[g] \in Versions /\ issued'[g] > issued[g]
      BY <1>0, <2>1, BoundAssumption DEF Versions
    <3> QED
      BY <1>0, <3>1 DEF Known
  <2>4. OnlyNewest(g)' /\ StatusTrue(g)'
    BY <1>1, <2>2, <2>3 DEF OnlyNewest, StatusTrue, Uploaders
  <2>5. Queued(g)'
    BY <2>1 DEF Queued
  <2> QED
    BY <1>3, <2>4, <2>5 DEF StopInv
<1>5. CASE ~EnqueueInsert(t, g)
  <2>1. /\ issued'[g] = issued[g] /\ queue'[g] = queue[g]
        /\ \A v \in Threads : jobFile'[v] = g => jobFile[v] = g
        /\ acked'[g] = acked[g] \/ (jobFile[t] = g /\ acked'[g] = jobVer[t])
    BY <1>0, <1>5
    DEF Enqueue, EnqueueInsert, WriteTmp, RenameTmp, OpenMeta, WriteMeta, TypeOK
  <2>2. OnlyNewest(g)' /\ (issued'[g] > 0 => StatusTrue(g)')
    BY <1>1, <1>2, <2>1 DEF OnlyNewest, StatusTrue, Tried
  <2>3. Queued(g)'
    <3>1. CASE acked'[g] = acked[g]
      BY <1>1, <1>2, <2>1, <3>1 DEF Queued, InCloud
    <3>2. CASE jobFile[t] = g /\ acked'[g] = jobVer[t]
      <4>1. acked'[g] = issued[g]
        BY <1>2, <3>2 DEF SpacedInv, JobInv
      <4>2. ASSUME ~skipped[g] /\ report = "none"
            PROVE  InCloud(g)' \/ queue[g] = issued[g]
        BY <1>0, <1>1, <1>2, <3>2, <4>1, <4>2 DEF Queued, InCloud, AtLeast
      <4> QED
        BY <1>1, <1>2, <2>1, <4>2 DEF Queued
    <3> QED
      BY <2>1, <3>1, <3>2
  <2> QED
    BY <1>3, <2>2, <2>3 DEF StopInv
<1> QED
  BY <1>4, <1>5

LEMMA EnqueueFlushInv ==
  ASSUME TypeInv, FlushInv, NEW t \in Threads, Enqueue(t)
  PROVE  FlushInv'
<1>1. UNCHANGED <<stopped, upc, cur, batch, report>>
  BY DEF Enqueue, EnqueueInsert, WriteTmp, RenameTmp, OpenMeta, WriteMeta, uvars
<1>2. Phase'
  BY <1>1 DEF FlushInv, Phase
<1>3. \A g \in Files : Known(g)'
  BY EnqueueKnown DEF FlushInv
<1>4. \A g \in Files : Minded(g)' => StopInv(g)'
  BY EnqueueStop
<1> QED
  BY <1>2, <1>3, <1>4 DEF FlushInv

-----------------------------------------------------------------------------
(* The steps of an upload, by either uploader.                             *)

\* What an upload step of u leaves alone when it works on a write of c.
Aside(u, c) ==
  /\ UNCHANGED <<stopped, report, issued, acked, spaced, kept, skipped, jobFile, jobVer, tmp>>
  /\ \A v \in Uploaders \ {u} : upc'[v] = upc[v] /\ batch'[v] = batch[v]
                                /\ cur'[v] = cur[v] /\ sent'[v] = sent[v]
  /\ batch[u][c] \in Versions /\ cur[u] \in {None, c} /\ cur'[u] \in {None, c}
  /\ batch'[u][c] \in {None, batch[u][c]}
  /\ queue'[c] \in {None, queue[c]} /\ buf'[c] \in {None, buf[c]}
  /\ \A n \in Versions \ {batch[u][c]} : status'[c][n] = status[c][n] /\ body'[c][n] = body[c][n]
  /\ dropped[c] => dropped'[c]
  /\ \A g \in Files \ {c} :
       /\ queue'[g] = queue[g] /\ buf'[g] = buf[g] /\ wmeta'[g] = wmeta[g] /\ cloud'[g] = cloud[g]
       /\ status'[g] = status[g] /\ body'[g] = body[g] /\ tries'[g] = tries[g]
       /\ batch'[u][g] = batch[u][g] /\ dropped'[g] = dropped[g]
  /\ \A t \in Threads : jobFile[t] # c => tpc'[t] = tpc[t]

LEMMA NextWriteAside ==
  ASSUME TypeInv, NEW u \in Uploaders, upc[u] \in Busy, NextWrite(u)
  PROVE  /\ \A v \in Uploaders \ {u} : upc'[v] = upc[v] /\ batch'[v] = batch[v] /\ cur'[v] = cur[v]
         /\ upc'[u] = "loop" /\ cur'[u] = None
         /\ \A g \in Files : batch'[u][g] = IF g = cur[u] THEN None ELSE batch[u][g]
BY DEF TypeInv, TypeOK, WorkOK, NextWrite, Goto

LEMMA AfterFailureAside ==
  ASSUME TypeInv, NEW u \in Uploaders, upc[u] \in Busy, AfterFailure(u)
  PROVE  /\ \A v \in Uploaders \ {u} : upc'[v] = upc[v] /\ batch'[v] = batch[v] /\ cur'[v] = cur[v]
         /\ \/ u = "drain" /\ upc'[u] = "loop" /\ cur'[u] = None
               /\ \A g \in Files : batch'[u][g] = IF g = cur[u] THEN None ELSE batch[u][g]
            \/ u = "flush" /\ upc'[u] = "check" /\ cur' = cur /\ batch' = batch
<1>1. CASE u = "drain"
  BY <1>1, NextWriteAside DEF AfterFailure
<1>2. CASE u = "flush"
  BY <1>2 DEF AfterFailure, Goto, TypeInv, TypeOK
<1> QED
  BY <1>1, <1>2 DEF Uploaders

LEMMA UploadAside ==
  ASSUME TypeInv, Phase, NEW u \in Uploaders, Upload(u)
  PROVE  \E c \in Files : Aside(u, c) /\ c = IF upc[u] \in Busy THEN cur[u] ELSE cur'[u]
<1> USE DEF heap, uvars, tvars, disk, ghosts, promise, bounds
<1>0. TypeOK /\ (upc[u] \in Busy => cur[u] \in Files /\ batch[u][cur[u]] \in Versions)
  BY DEF TypeInv, WorkOK
<1>1. CASE TakeWrite(u)
  <2> PICK f \in Files :
        /\ upc[u] = "loop" /\ batch[u][f] # None
        /\ status' = [status EXCEPT ![f][batch[u][f]] = "uploading"]
        /\ sent' = [sent EXCEPT ![u] = body[f][batch[u][f]]]
        /\ cur' = [cur EXCEPT ![u] = f]
        /\ upc' = [upc EXCEPT ![u] = "http"]
        /\ UNCHANGED <<queue, tries, body, stopped, batch, tvars, disk, cloud, report,
                       ghosts, bounds>>
    BY <1>1 DEF TakeWrite, Goto
  <2>1. cur[u] = None
    BY DEF Phase, Busy
  <2>2. batch[u][f] \in Versions
    BY <1>0 DEF TypeOK
  <2> QED
    BY <1>0, <2>1, <2>2 DEF Aside, TypeOK, Busy
<1>2. CASE UploadOk(u)
  BY <1>0, <1>2 DEF UploadOk, Goto, Aside, TypeOK, Busy
<1>3. CASE UploadRefused(u)
  <2>1. upc[u] \in Busy /\ AfterFailure(u)
    BY <1>3 DEF UploadRefused, Busy
  <2> QED
    BY <1>0, <1>3, <2>1, AfterFailureAside DEF UploadRefused, MarkFailed, Aside, TypeOK
<1>4. CASE UploadError(u)
  <2>1. /\ cloud' = cloud \/ cloud' = [cloud EXCEPT ![cur[u]] = sent[u]]
        /\ upc[u] \in Busy
    BY <1>4 DEF UploadError, Busy
  <2> QED
    BY <1>0, <1>4, <2>1 DEF UploadError, Goto, Aside, TypeOK
<1>5. CASE AfterError(u)
  <2>1. upc[u] \in Busy /\ AfterFailure(u)
    BY <1>5 DEF AfterError, Busy
  <2>2. \/ UNCHANGED <<status, body, dropped, skipped>>
        \/ MarkFailed(u, cur[u], batch[u][cur[u]], tries[cur[u]][batch[u][cur[u]]])
    BY <1>5 DEF AfterError
  <2> QED
    BY <1>0, <1>5, <2>1, <2>2, AfterFailureAside DEF AfterError, MarkFailed, Aside, TypeOK
<1>6. CASE PopUploaded(u)
  BY <1>0, <1>6 DEF PopUploaded, Goto, Aside, TypeOK, Busy
<1>7. CASE UnlinkBuf(u)
  BY <1>0, <1>7 DEF UnlinkBuf, Goto, Aside, TypeOK, Busy
<1>8. CASE UnlinkMeta(u)
  <2>1. upc[u] \in Busy /\ NextWrite(u)
    BY <1>8 DEF UnlinkMeta, Busy
  <2> QED
    BY <1>0, <1>8, <2>1, NextWriteAside DEF UnlinkMeta, Aside, TypeOK
<1> QED
  BY <1>1, <1>2, <1>3, <1>4, <1>5, <1>6, <1>7, <1>8 DEF Upload

LEMMA AsideKnown ==
  ASSUME TypeInv, NEW u \in Uploaders, NEW c \in Files, Aside(u, c),
         NEW g \in Files, Known(g)
  PROVE  Known(g)'
<1>1. CASE g = c
  BY <1>1, KnownFrame DEF Aside
<1>2. CASE g # c
  BY <1>2, KnownFrame DEF Aside
<1> QED
  BY <1>1, <1>2

LEMMA AsideStop ==
  ASSUME TypeInv, NEW u \in Uploaders, NEW c \in Files, Aside(u, c),
         NEW g \in Files \ {c}, StopInv(g)
  PROVE  StopInv(g)'
<1>1. None \notin Files
  BY SentinelAssumption
<1> QED
  BY <1>1, StopFrame DEF Aside, Uploaders

\* What is known of the file that an upload step of u works on.
LEMMA OwnFile ==
  ASSUME TypeInv, FlushInv, NEW u \in Uploaders, NEW c \in Files, Aside(u, c), Minded(c)'
  PROVE  /\ SpacedInv(c) /\ OnlyNewest(c) /\ StatusTrue(c) /\ Queued(c)
         /\ batch[u][c] = issued[c] /\ issued[c] \in Versions /\ issued[c] > 0
         /\ acked[c] \in 0..issued[c] /\ issued[c] \in Int
         /\ issued[c] # None /\ c # None
<1>1. Minded(c) /\ StopInv(c)
  BY DEF Minded, Aside, FlushInv
<1>2. batch[u][c] = issued[c]
  <2>1. batch[u][c] # None
    BY SentinelAssumption DEF Aside, Versions
  <2> QED
    BY <1>1, <2>1 DEF StopInv, SpacedInv, OnlyNewest, Uploaders
<1>3. issued[c] \in Versions /\ issued[c] > 0 /\ issued[c] \in Int
  BY <1>2 DEF Aside, Versions
<1>4. acked[c] \in 0..MaxWrites /\ acked[c] <= issued[c]
  BY <1>1 DEF TypeInv, TypeOK, StopInv, SpacedInv
<1> QED
  BY <1>1, <1>2, <1>3, <1>4, SentinelAssumption DEF StopInv

LEMMA UploadSpaced ==
  ASSUME TypeInv, NEW u \in Uploaders, NEW c \in Files, Aside(u, c), SpacedInv(c),
         acked[c] \in 0..issued[c], issued[c] \in Versions,
         cloud'[c] \in {cloud[c], issued[c]},
         \/ buf'[c] = buf[c] /\ wmeta'[c] = wmeta[c] /\ tpc' = tpc
         \/ /\ cloud[c] = issued[c]
            /\ \A t \in Threads : jobFile[t] = c =>
                 tpc'[t] = tpc[t] \/ (tpc[t] = "metaw" /\ tpc'[t] = "orphan")
  PROVE  SpacedInv(c)'
<1>1. /\ UNCHANGED <<issued, acked, jobFile, jobVer, tmp>>
      /\ queue'[c] \in {None, queue[c]} /\ buf'[c] \in {None, buf[c]}
      /\ batch'["drain"][c] \in {None, batch["drain"][c]}
  BY DEF Aside, Uploaders
<1>2. issued[c] \in 1..MaxWrites
  BY DEF Versions
<1>3. InCloud(c) \/ cloud'[c] # cloud[c] \/ cloud[c] = issued[c] => InCloud(c)'
  BY <1>1, <1>2 DEF InCloud, AtLeast
<1>4. InCloud(c)' \/ (buf'[c] = issued'[c] /\ acked'[c] = issued'[c] /\ wmeta'[c] = "ok")
  BY <1>1, <1>3 DEF SpacedInv
<1>5. \A t \in Threads : jobFile'[t] = c => JobInv(t, c)'
  BY <1>1 DEF SpacedInv, JobInv
<1> QED
  BY <1>1, <1>4, <1>5 DEF SpacedInv

\* An upload step that leaves a write that is not in the cloud in the queue.
LEMMA UploadQueued ==
  ASSUME NEW u \in Uploaders, NEW c \in Files, Aside(u, c), Queued(c),
         acked[c] \in 0..issued[c], issued[c] \in Versions,
         cloud'[c] \in {cloud[c], issued[c]},
         queue'[c] = queue[c] \/ cloud[c] = issued[c]
  PROVE  Queued(c)'
<1>1. UNCHANGED <<issued, acked, jobFile, report, skipped>>
  BY DEF Aside
<1>2. issued[c] \in 1..MaxWrites
  BY DEF Versions
<1>3. InCloud(c) \/ cloud'[c] = issued[c] => InCloud(c)'
  BY <1>1, <1>2 DEF InCloud, AtLeast
<1> QED
  BY <1>1, <1>3 DEF Queued

LEMMA TakeStop ==
  ASSUME TypeInv, FlushInv, NEW u \in Uploaders, NEW c \in Files, Aside(u, c), Minded(c)',
         TakeWrite(u), c = cur'[u]
  PROVE  StopInv(c)'
<1> USE DEF heap, uvars, tvars, disk, ghosts, promise, bounds
<1>0. /\ SpacedInv(c) /\ OnlyNewest(c) /\ StatusTrue(c) /\ Queued(c)
      /\ batch[u][c] = issued[c] /\ issued[c] \in Versions /\ issued[c] > 0
      /\ acked[c] \in 0..issued[c] /\ issued[c] # None /\ c # None
  BY OwnFile
<1>a. TypeOK /\ Phase
  BY DEF TypeInv, FlushInv
<1>1. /\ upc[u] = "loop" /\ MayTake(u)
      /\ status' = [status EXCEPT ![c][issued[c]] = "uploading"]
      /\ sent' = [sent EXCEPT ![u] = body[c][issued[c]]]
      /\ cur' = [cur EXCEPT ![u] = c] /\ upc' = [upc EXCEPT ![u] = "http"]
      /\ UNCHANGED <<queue, tries, body, stopped, batch, tvars, disk, cloud, report,
                     ghosts, bounds>>
  <2> PICK f \in Files :
        /\ upc[u] = "loop" /\ MayTake(u)
        /\ status' = [status EXCEPT ![f][batch[u][f]] = "uploading"]
        /\ sent' = [sent EXCEPT ![u] = body[f][batch[u][f]]]
        /\ cur' = [cur EXCEPT ![u] = f] /\ upc' = [upc EXCEPT ![u] = "http"]
        /\ UNCHANGED <<queue, tries, body, stopped, batch, tvars, disk, cloud, report,
                       ghosts, bounds>>
    BY DEF TakeWrite, Goto
  <2>1. f = c
    BY <1>a DEF TypeOK
  <2> QED
    BY <1>0, <2>1
<1>2. /\ status'[c][issued[c]] = "uploading" /\ cur'[u] = c /\ upc'[u] = "http"
      /\ sent'[u] = body[c][issued[c]]
      /\ \A v \in Uploaders \ {u} : upc'[v] = upc[v] /\ cur'[v] = cur[v] /\ sent'[v] = sent[v]
  BY <1>0, <1>1, <1>a DEF TypeOK
<1>3. u = "drain" => ~stopped /\ upc["flush"] = "off" /\ batch["flush"][c] = None
  BY <1>1, <1>a DEF MayTake, Phase, NoBatch
<1>4. body[c][issued[c]] = issued[c]
  BY <1>0, <1>1, <1>3 DEF StatusTrue, Uploaders
<1>5. u = "flush" => ~(upc["drain"] = "http" /\ cur["drain"] = c)
  BY <1>0 DEF OnlyNewest
<1>6. SpacedInv(c)'
  BY <1>0, <1>1, UploadSpaced
<1>7. OnlyNewest(c)'
  BY <1>0, <1>1, <1>2, <1>3, <1>4, <1>5 DEF OnlyNewest, Uploaders
<1>8. StatusTrue(c)'
  BY <1>0, <1>1, <1>2, <1>3, <1>4 DEF StatusTrue, Uploaders
<1>9. Queued(c)'
  BY <1>0, <1>1, UploadQueued
<1> QED
  BY <1>6, <1>7, <1>8, <1>9 DEF StopInv

\* What an upload that ends leaves of a file it has read the content of.
LEMMA EndStop ==
  ASSUME TypeInv, FlushInv, NEW u \in Uploaders, NEW c \in Files, Aside(u, c), Minded(c)',
         UploadOk(u) \/ UploadError(u), c = cur[u]
  PROVE  StopInv(c)'
<1> USE DEF heap, uvars, tvars, disk, ghosts, promise, bounds
<1>0. /\ SpacedInv(c) /\ OnlyNewest(c) /\ StatusTrue(c) /\ Queued(c)
      /\ batch[u][c] = issued[c] /\ issued[c] \in Versions /\ issued[c] > 0
      /\ acked[c] \in 0..issued[c] /\ issued[c] # None /\ c # None
  BY OwnFile
<1>a. TypeOK /\ Phase
  BY DEF TypeInv, FlushInv
<1>1. /\ upc[u] = "http" /\ upc' = [upc EXCEPT ![u] = IF UploadOk(u) THEN "pop" ELSE "caught"]
      /\ UNCHANGED <<queue, body, stopped, batch, cur, tvars, disk, report, ghosts>>
  BY DEF UploadOk, UploadError, Goto
<1>2. sent[u] = issued[c] /\ cur'[u] = c /\ upc'[u] = IF UploadOk(u) THEN "pop" ELSE "caught"
  BY <1>0, <1>1, <1>a DEF OnlyNewest, TypeOK
<1>3. cloud'[c] \in {cloud[c], issued[c]} /\ (UploadOk(u) => cloud'[c] = issued[c])
  BY <1>2, <1>a DEF UploadOk, UploadError, TypeOK
<1>4. u = "flush" => ~(upc["drain"] = "http" /\ cur["drain"] = c)
  BY <1>0 DEF OnlyNewest
<1>5. u = "drain" => status[c][issued[c]] = "uploading" /\ batch["flush"][c] = None
                     /\ cur["flush"] # c
  <2>1. batch["flush"][c] = None => ~(upc["flush"] \in Busy /\ cur["flush"] = c)
    BY SentinelAssumption DEF TypeInv, WorkOK, Uploaders, Versions
  <2> QED
    BY <1>0, <1>1, <1>a, <2>1 DEF OnlyNewest, Phase, Uploaders
<1>6. body[c][issued[c]] = issued[c]
  BY <1>0, <1>1, <1>5 DEF StatusTrue, Uploaders
<1>7. \A v \in Uploaders \ {u} : upc'[v] = upc[v] /\ cur'[v] = cur[v] /\ sent'[v] = sent[v]
  BY DEF Aside
<1>8. CASE UploadOk(u)
  <2>1. status' = status /\ cloud'[c] = issued[c] /\ tries' = tries
    BY <1>3, <1>8 DEF UploadOk
  <2>2. OnlyNewest(c)'
    BY <1>0, <1>1, <1>2, <1>4, <1>5, <1>7, <1>8, <2>1 DEF OnlyNewest, Uploaders
  <2>3. StatusTrue(c)'
    BY <1>0, <1>1, <1>2, <1>5, <1>6, <1>7, <1>8, <2>1 DEF StatusTrue, Tried, Uploaders
  <2> QED
    BY <1>0, <1>1, <1>3, <2>2, <2>3, UploadSpaced, UploadQueued DEF StopInv
<1>9. CASE UploadError(u) /\ ~UploadOk(u)
  <2>1. /\ tries'[c][issued[c]] = Counted(tries[c][issued[c]])
        /\ status'[c][issued[c]] = StatusAfterError(Counted(tries[c][issued[c]]))
    BY <1>0, <1>9, <1>a DEF UploadError, TypeOK
  <2>2. \/ status'[c][issued[c]] = "pending"
        \/ status'[c][issued[c]] = "failed" /\ Tried(c)'
    <3>1. tries[c][issued[c]] \in Nat /\ issued' = issued
      BY <1>0, <1>1, <1>a DEF TypeOK
    <3> QED
      BY <2>1, <3>1, BoundAssumption DEF StatusAfterError, Counted, Tried
  <2>3. OnlyNewest(c)'
    BY <1>0, <1>1, <1>2, <1>3, <1>4, <1>5, <1>7, <1>9 DEF OnlyNewest, Uploaders
  <2>4. u = "flush" => stopped
    BY <1>1, <1>a DEF Phase
  <2>5. StatusTrue(c)'
    BY <1>1, <1>2, <1>5, <1>6, <1>7, <1>9, <2>2, <2>4 DEF StatusTrue, Uploaders
  <2> QED
    BY <1>0, <1>1, <1>3, <2>3, <2>5, UploadSpaced, UploadQueued DEF StopInv
<1> QED
  BY <1>8, <1>9

\* A write given up by flush_all has used up its retries or is not minded.
LEMMA FailStop ==
  ASSUME TypeInv, FlushInv, NEW u \in Uploaders, NEW c \in Files, Aside(u, c), Minded(c)',
         UploadRefused(u) \/ AfterError(u), c = cur[u]
  PROVE  StopInv(c)'
<1> USE DEF heap, uvars, tvars, disk, ghosts, promise, bounds
<1> DEFINE n == issued[c]
<1>0. /\ SpacedInv(c) /\ OnlyNewest(c) /\ StatusTrue(c) /\ Queued(c)
      /\ batch[u][c] = n /\ n \in Versions /\ n > 0
      /\ acked[c] \in 0..n /\ n # None /\ c # None
  BY OwnFile
<1>a. TypeOK /\ Phase
  BY DEF TypeInv, FlushInv
<1>1. /\ upc[u] \in {"http", "caught"} /\ AfterFailure(u)
      /\ UNCHANGED <<queue, stopped, tvars, disk, cloud, report, promise>>
  BY DEF UploadRefused, AfterError
<1>2. \/ MarkFailed(u, c, n, tries'[c][n])
      \/ status[c][n] = "pending" /\ UNCHANGED <<status, body, dropped, skipped>>
  BY <1>0, <1>a DEF UploadRefused, AfterError, TypeOK
<1>3. \/ /\ u = "flush" /\ upc'["flush"] = "check" /\ cur' = cur /\ batch' = batch
         /\ upc'["drain"] = upc["drain"] /\ stopped
      \/ /\ u = "drain" /\ upc'["drain"] = "loop" /\ cur'["drain"] = None
         /\ upc'["flush"] = upc["flush"] /\ cur'["flush"] = cur["flush"]
         /\ batch'["flush"] = batch["flush"]
  <2>1. upc[u] \in Busy
    BY <1>1 DEF Busy
  <2> QED
    BY <1>1, <1>a, <2>1, AfterFailureAside DEF Phase, Uploaders
<1>4. \/ /\ u = "flush" /\ status'[c][n] = "failed" /\ body'[c][n] = Blank
         /\ tries'[c][n] >= MaxRetries
      \/ /\ status[c][n] = "pending" /\ body[c][n] = n
         /\ UNCHANGED <<status, body>>
  <2>1. CASE MarkFailed(u, c, n, tries'[c][n])
    <3>1. ~dropped'[c]
      BY DEF Minded
    <3>2. u = "flush" /\ ~(tries'[c][n] < MaxRetries)
      BY <1>a, <2>1, <3>1 DEF MarkFailed, TypeOK, Uploaders
    <3>3. tries'[c][n] \in Nat
      BY <1>0, UploadTypeInv DEF TypeInv, TypeOK, Upload
    <3>4. status'[c][n] = "failed" /\ body'[c][n] = Blank
      BY <1>0, <1>a, <2>1 DEF MarkFailed, TypeOK
    <3> QED
      BY <3>2, <3>3, <3>4, BoundAssumption
  <2>2. CASE status[c][n] = "pending" /\ UNCHANGED <<status, body, dropped, skipped>>
    BY <1>0, <2>2 DEF StatusTrue
  <2> QED
    BY <1>2, <2>1, <2>2
<1>5. u = "flush" => ~(upc["drain"] = "http" /\ cur["drain"] = c)
  BY <1>0 DEF OnlyNewest
<1>6. SpacedInv(c)'
  BY <1>0, <1>1, UploadSpaced
<1>7. OnlyNewest(c)'
  <2>1. \A v \in Uploaders \ {u} : sent'[v] = sent[v]
    BY DEF Aside
  <2> QED
    BY <1>0, <1>1, <1>3, <1>4, <1>5, <2>1 DEF OnlyNewest, Uploaders
<1>8. StatusTrue(c)'
  BY <1>0, <1>1, <1>3, <1>4 DEF StatusTrue, Tried, Uploaders
<1>9. Queued(c)'
  BY <1>0, <1>1, UploadQueued
<1> QED
  BY <1>6, <1>7, <1>8, <1>9 DEF StopInv

\* The clean-up after an upload: the cloud has the newest write.
LEMMA CleanStop ==
  ASSUME TypeInv, FlushInv, NEW u \in Uploaders, NEW c \in Files, Aside(u, c), Minded(c)',
         PopUploaded(u) \/ UnlinkBuf(u) \/ UnlinkMeta(u), c = cur[u]
  PROVE  StopInv(c)'
<1> USE DEF heap, uvars, tvars, disk, ghosts, promise, bounds
<1> DEFINE n == issued[c]
<1>0. /\ SpacedInv(c) /\ OnlyNewest(c) /\ StatusTrue(c) /\ Queued(c)
      /\ batch[u][c] = n /\ n \in Versions /\ n > 0
      /\ acked[c] \in 0..n /\ n # None /\ c # None
  BY OwnFile
<1>a. TypeOK /\ Phase
  BY DEF TypeInv, FlushInv
<1>1. /\ upc[u] \in {"pop", "unbuf", "unmeta"} /\ upc'[u] \in {"unbuf", "unmeta", "loop"}
      /\ cur'[u] \in {c, None}
      /\ UNCHANGED <<heap, stopped, jobFile, jobVer, cloud, report, promise, sent>>
  <2>1. CASE PopUploaded(u) \/ UnlinkBuf(u)
    BY <1>a, <2>1 DEF PopUploaded, UnlinkBuf, Goto, TypeOK
  <2>2. CASE UnlinkMeta(u)
    <3>1. upc[u] \in Busy /\ NextWrite(u)
      BY <2>2 DEF UnlinkMeta, Busy
    <3> QED
      BY <2>2, <3>1, NextWriteAside DEF UnlinkMeta
  <2> QED
    BY <2>1, <2>2
<1>2. cloud[c] = n
  BY <1>0, <1>1 DEF OnlyNewest
<1>3. \A t \in Threads : jobFile[t] = c =>
        tpc'[t] = tpc[t] \/ (tpc[t] = "metaw" /\ tpc'[t] = "orphan")
  BY <1>a DEF PopUploaded, UnlinkBuf, UnlinkMeta, TypeOK
<1>4. /\ \A v \in Uploaders \ {u} : upc'[v] = upc[v] /\ cur'[v] = cur[v] /\ batch'[v] = batch[v]
      /\ batch'[u][c] \in {None, batch[u][c]} /\ queue'[c] \in {None, queue[c]}
  BY DEF Aside
<1>5. SpacedInv(c)'
  BY <1>0, <1>1, <1>2, <1>3, UploadSpaced
<1>6. OnlyNewest(c)'
  BY <1>0, <1>1, <1>2, <1>4 DEF OnlyNewest, Uploaders
<1>7. StatusTrue(c)'
  BY <1>0, <1>1, <1>2, <1>4 DEF StatusTrue, Tried, Uploaders
<1>8. Queued(c)'
  BY <1>0, <1>1, <1>2, UploadQueued
<1> QED
  BY <1>5, <1>6, <1>7, <1>8 DEF StopInv

\* Where an upload step of u can be taken and where it leads.
LEMMA UploadPoint ==
  ASSUME TypeInv, NEW u \in Uploaders, Upload(u)
  PROVE  /\ upc[u] \in Busy \cup {"loop"} /\ upc'[u] \in Busy \cup {"loop"}
         /\ upc'[u] = "loop" => cur'[u] = None
         /\ upc'[u] = "check" => u = "flush"
<1>0. TypeOK
  BY DEF TypeInv
<1>1. CASE TakeWrite(u) \/ UploadOk(u) \/ UploadError(u) \/ PopUploaded(u) \/ UnlinkBuf(u)
  BY <1>0, <1>1 DEF TakeWrite, UploadOk, UploadError, PopUploaded, UnlinkBuf, Goto, TypeOK, Busy
<1>2. CASE UploadRefused(u) \/ AfterError(u)
  <2>1. upc[u] \in Busy /\ AfterFailure(u)
    BY <1>2 DEF UploadRefused, AfterError, Busy
  <2> QED
    BY <2>1, AfterFailureAside DEF Busy
<1>3. CASE UnlinkMeta(u)
  <2>1. upc[u] \in Busy /\ NextWrite(u)
    BY <1>3 DEF UnlinkMeta, Busy
  <2> QED
    BY <2>1, NextWriteAside DEF Busy
<1> QED
  BY <1>1, <1>2, <1>3 DEF Upload

LEMMA UploadFlushInv ==
  ASSUME TypeInv, FlushInv, NEW u \in Uploaders, Upload(u)
  PROVE  FlushInv'
<1>0. Phase
  BY DEF FlushInv
<1> PICK c \in Files : Aside(u, c) /\ c = IF upc[u] \in Busy THEN cur[u] ELSE cur'[u]
  BY <1>0, UploadAside
<1>1. \A g \in Files : Known(g)'
  BY AsideKnown DEF FlushInv
<1>2. ASSUME NEW g \in Files, Minded(g)' PROVE StopInv(g)'
  <2>1. CASE g # c
    <3>1. Minded(g)
      BY <1>2, <2>1 DEF Aside, Minded
    <3> QED
      BY <2>1, <3>1, AsideStop DEF FlushInv
  <2>2. CASE g = c
    <3>1. CASE TakeWrite(u)
      <4>1. upc[u] \notin Busy
        BY <3>1 DEF TakeWrite, Busy
      <4> QED
        BY <1>2, <2>2, <3>1, <4>1, TakeStop
    <3>2. CASE ~TakeWrite(u)
      <4>1. upc[u] \in Busy
        BY <3>2 DEF Upload, UploadOk, UploadRefused, UploadError, AfterError, PopUploaded,
           UnlinkBuf, UnlinkMeta, Busy
      <4> QED
        BY <1>2, <2>2, <3>2, <4>1, EndStop, FailStop, CleanStop DEF Upload
    <3> QED
      BY <3>1, <3>2
  <2> QED
    BY <2>1, <2>2
<1>3. Phase'
  <2>1. \A v \in Uploaders \ {u} : upc'[v] = upc[v] /\ batch'[v] = batch[v] /\ cur'[v] = cur[v]
    BY DEF Aside
  <2>2. UNCHANGED <<stopped, report>>
    BY DEF Aside
  <2> QED
    BY <1>0, <2>1, <2>2, UploadPoint DEF Phase, Uploaders, Busy
<1> QED
  BY <1>1, <1>2, <1>3 DEF FlushInv

-----------------------------------------------------------------------------
(* The other steps of the drain thread and of flush_all, and a crash.      *)

\* The drain thread before flush_all finds no write that was given up, so its
\* purge drops nothing that is minded.
LEMMA DrainFlushInv ==
  ASSUME TypeInv, FlushInv, Drain
  PROVE  FlushInv'
<1> USE DEF heap, uvars, tvars, disk, ghosts, promise, bounds
<1>0. TypeOK /\ Phase /\ \A g \in Files : Known(g)
  BY DEF TypeInv, FlushInv
<1>1. CASE Upload("drain")
  BY <1>1, UploadFlushInv DEF Uploaders
<1>2. CASE DrainExit \/ DrainPurge \/ DrainSnapshot \/ DrainBatchEnd
  <2>1. /\ upc["drain"] \in {"idle", "snap", "loop"}
        /\ upc'["drain"] \in {"idle", "snap", "loop", "done"}
        /\ upc'["flush"] = upc["flush"] /\ batch'["flush"] = batch["flush"]
        /\ \A g \in Files : batch'["drain"][g] \in {None, queue[g], batch["drain"][g]}
        /\ UNCHANGED <<heap, stopped, cur, sent, tvars, disk, cloud, report, ghosts, bounds>>
    <3>1. CASE DrainExit \/ DrainPurge
      <4>1. batch' = batch /\ \E p \in {"done", "snap"} : upc' = [upc EXCEPT !["drain"] = p]
        BY <3>1 DEF DrainExit, DrainPurge, Goto
      <4> QED
        BY <1>0, <3>1, <4>1 DEF DrainExit, DrainPurge, TypeOK, Uploaders
    <3>2. CASE DrainSnapshot
      BY <1>0, <3>2 DEF DrainSnapshot, QueuedWith, Goto, TypeOK
    <3>3. CASE DrainBatchEnd
      BY <1>0, <3>3 DEF DrainBatchEnd, NoBatch, Goto, TypeOK
    <3> QED
      BY <1>2, <3>1, <3>2, <3>3
  <2>2. cur["drain"] = None
    BY <1>0, <2>1 DEF Phase, Busy, Uploaders
  <2>3. \A g \in Files : queue'[g] \in {None, queue[g]}
    BY <1>0, <1>2
    DEF DrainExit, DrainPurge, DrainSnapshot, DrainBatchEnd, Purged, QueuedWith, TypeOK
  <2>4. Phase'
    BY <1>0, <2>1, <2>2 DEF Phase, Busy, Uploaders
  <2>5. \A g \in Files : Known(g)'
    BY <1>0, <2>1, <2>3, KnownFrame DEF Uploaders
  <2>6. ASSUME NEW g \in Files, Minded(g)' PROVE StopInv(g)'
    <3>1. StopInv(g) /\ None # g
      BY <2>1, <2>6, SentinelAssumption DEF Minded, FlushInv
    <3>2. queue'[g] = queue[g]
      <4>1. CASE DrainPurge
        <5>1. ~stopped /\ upc["drain"] = "idle"
          BY <4>1 DEF DrainPurge
        <5>2. CASE queue[g] = None
          BY <2>3, <5>2
        <5>3. CASE queue[g] # None
          <6>1. queue[g] = issued[g] /\ issued[g] \in Versions
            BY <1>0, <3>1, <5>3 DEF StopInv, SpacedInv, TypeOK
          <6>2. status[g][issued[g]] # "failed"
            BY <3>1, <5>1, <6>1 DEF StopInv, StatusTrue, Versions
          <6>3. status[g][issued[g]] \in {"pending", "uploading"}
            BY <1>0, <6>1, <6>2 DEF TypeOK, Statuses
          <6> QED
            BY <4>1, <5>3, <6>1, <6>3 DEF DrainPurge, Purged, QueuedWith
        <5> QED
          BY <5>2, <5>3
      <4>2. CASE ~DrainPurge
        BY <1>2, <4>2 DEF DrainExit, DrainSnapshot, DrainBatchEnd
      <4> QED
        BY <4>1, <4>2
    <3>3. batch'["drain"][g] \in {None, issued[g], batch["drain"][g]}
      BY <2>1, <3>1 DEF StopInv, SpacedInv
    <3> QED
      BY <2>1, <2>2, <3>1, <3>2, <3>3, StopFrame DEF Uploaders
  <2> QED
    BY <2>4, <2>5, <2>6 DEF FlushInv
<1> QED
  BY <1>1, <1>2 DEF Drain

LEMMA CrashFlushInv ==
  ASSUME TypeInv, FlushInv, CrashRestart
  PROVE  FlushInv'
<1> USE DEF heap, uvars, tvars, disk, ghosts, promise, bounds
<1>0. TypeOK
  BY DEF TypeInv
<1>1. Phase'
  BY DEF CrashRestart, Phase, NoBatch, Uploaders, Busy
<1>a. PICK R \in RestoredSets :
        /\ queue' = [f \in Files |-> IF f \in R THEN buf[f] ELSE None]
        /\ skipped' = [f \in Files |-> f \in Restorable \ R]
  BY DEF CrashRestart, Restore
<1>b. \A g \in Files : queue'[g] \in {None, buf[g]}
  BY <1>a
<1>c. \A g \in Files : wmeta[g] = "ok" /\ buf[g] # None
        => wmeta'[g] = "ok" /\ (skipped'[g] \/ queue'[g] = buf[g])
  BY <1>a DEF CrashRestart, Restore, Restorable
<1>d. \A g \in Files : \A n \in Versions : status'[g][n] = "pending" /\ body'[g][n] = n
  BY DEF CrashRestart
<1>e. \A g \in Files : \A u \in Uploaders : batch'[u][g] = None
  BY DEF CrashRestart, NoBatch
<1>3. /\ \A u \in Uploaders : cur'[u] = None
      /\ \A t \in Threads : jobFile'[t] = None
      /\ upc'["drain"] \in {"idle", "done"} /\ upc'["flush"] = "off"
      /\ UNCHANGED <<buf, tmp, cloud, promise, dropped>>
  BY DEF CrashRestart, Uploaders
<1>4. None \notin Files \cup Int
  BY SentinelAssumption
<1>5. \A g \in Files : Known(g)'
  BY <1>b, <1>d, <1>e, <1>3, <1>4 DEF FlushInv, Known
<1>6. ASSUME NEW g \in Files, Minded(g)' PROVE StopInv(g)'
  <2>1. StopInv(g) /\ SpacedInv(g) /\ issued[g] \in 0..MaxWrites
    BY <1>0, <1>3, <1>6 DEF Minded, FlushInv, StopInv, TypeOK
  <2>2. InCloud(g)' \/ (buf'[g] = issued'[g] /\ acked'[g] = issued'[g] /\ wmeta'[g] = "ok")
    <3>1. InCloud(g) \/ (buf[g] = issued[g] /\ acked[g] = issued[g] /\ wmeta[g] = "ok")
      BY <2>1 DEF SpacedInv
    <3>2. issued[g] # None
      BY <1>4, <2>1
    <3> QED
      BY <1>c, <1>3, <3>1, <3>2 DEF InCloud
  <2>3. SpacedInv(g)'
    <3>1. \A t \in Threads : jobFile'[t] # g
      BY <1>3, <1>4
    <3>2. queue'[g] \in {None, issued'[g]} /\ batch'["drain"][g] = None
          /\ buf'[g] \in {None, issued'[g]} /\ acked'[g] <= issued'[g]
      BY <1>b, <1>e, <1>3, <2>1 DEF SpacedInv, Uploaders
    <3> QED
      BY <2>2, <3>1, <3>2 DEF SpacedInv
  <2>4. OnlyNewest(g)'
    BY <1>e, <1>3, <1>4 DEF OnlyNewest, Uploaders
  <2>5. issued'[g] > 0 => StatusTrue(g)'
    <3> SUFFICES ASSUME issued[g] > 0 PROVE StatusTrue(g)'
      BY <1>3
    <3>1. issued[g] \in Versions
      BY <2>1 DEF Versions
    <3>2. status'[g][issued'[g]] = "pending" /\ body'[g][issued'[g]] = issued'[g]
      BY <1>d, <1>3, <3>1
    <3> QED
      BY <1>3, <3>2 DEF StatusTrue
  <2>6. Queued(g)'
    <3>1. ~skipped'[g] => InCloud(g)' \/ queue'[g] = issued[g]
      <4>1. CASE InCloud(g)
        BY <1>3, <4>1 DEF InCloud
      <4>2. CASE ~InCloud(g)
        <5>1. buf[g] = issued[g] /\ wmeta[g] = "ok" /\ buf[g] # None
          BY <1>4, <2>1, <4>2 DEF SpacedInv
        <5> QED
          BY <1>c, <5>1
      <4> QED
        BY <4>1, <4>2
    <3>2. issued'[g] = issued[g] /\ \A t \in Threads : jobFile'[t] # g
      BY <1>3, <1>4
    <3> QED
      BY <3>1, <3>2 DEF Queued
  <2> QED
    BY <2>3, <2>4, <2>5, <2>6 DEF StopInv
<1> QED
  BY <1>1, <1>5, <1>6 DEF FlushInv

\* flush_all itself: it starts with an empty list, lists no write that the drain
\* thread is still sending, and takes out of the queue what it reports.
LEMMA FlushFlushInv ==
  ASSUME TypeInv, FlushInv, Flush
  PROVE  FlushInv'
<1> USE DEF heap, uvars, tvars, disk, ghosts, promise, bounds
<1>0. TypeOK /\ Phase /\ None \notin Files /\ None \notin Versions
      /\ \A g \in Files : Known(g) /\ (Minded(g) => StopInv(g))
  BY SentinelAssumption DEF TypeInv, FlushInv, Versions
<1>1. CASE Upload("flush")
  BY <1>1, UploadFlushInv DEF Uploaders
<1>2. CASE FlushStart \/ FlushJoin \/ FlushReturn \/ FlushTimeout \/ FlushBatchEnd
  <2>1. /\ upc["flush"] \in {"off", "join", "snap", "loop"}
        /\ upc'["flush"] \in {"join", "snap", "done"} /\ upc'["drain"] = upc["drain"]
        /\ stopped' /\ (stopped => stopped')
        /\ report' = "none" => report = "none"
        /\ report' = "ok" => upc'["flush"] = "done"
        /\ upc'["flush"] = "join" => report' = "none"
        /\ batch["flush"] = NoBatch /\ batch' = batch
        /\ UNCHANGED <<queue, heap, cur, sent, tvars, disk, cloud, ghosts>>
    <3>1. CASE FlushStart
      BY <1>0, <3>1 DEF FlushStart, Goto, Phase, TypeOK, Uploaders
    <3>2. CASE FlushJoin \/ FlushBatchEnd
      BY <1>0, <3>2 DEF FlushJoin, FlushBatchEnd, Goto, Phase, TypeOK, Uploaders
    <3>3. CASE FlushReturn \/ FlushTimeout
      BY <1>0, <3>3 DEF FlushReturn, FlushTimeout, FinalReport, Goto, Phase, TypeOK, Uploaders
    <3> QED
      BY <1>2, <3>1, <3>2, <3>3
  <2>2. cur["flush"] = None
    BY <1>0, <2>1 DEF Phase, Busy, Uploaders
  <2>3. Phase'
    BY <1>0, <2>1, <2>2 DEF Phase, Uploaders
  <2>4. \A g \in Files : Known(g)'
    <3>1. issued' = issued
      BY <2>1
    <3> QED
      BY <1>0, <2>1, <3>1, KnownFrame
  <2>5. ASSUME NEW g \in Files, Minded(g)' PROVE StopInv(g)'
    <3>1. StopInv(g)
      BY <1>0, <2>1, <2>5 DEF Minded
    <3> QED
      BY <1>0, <2>1, <2>2, <3>1, StopFrame DEF Uploaders
  <2> QED
    BY <2>3, <2>4, <2>5 DEF FlushInv
<1>3. CASE FlushSnapshot
  <2>1. /\ upc["flush"] = "snap" /\ upc' = [upc EXCEPT !["flush"] = "loop"]
        /\ batch' = [batch EXCEPT !["flush"] = FlushList]
        /\ UNCHANGED <<queue, heap, stopped, cur, sent, tvars, disk, cloud, report, ghosts, bounds>>
    BY <1>3 DEF FlushSnapshot, Goto
  <2>2. /\ upc'["flush"] = "loop" /\ upc'["drain"] = upc["drain"]
        /\ batch'["drain"] = batch["drain"] /\ cur["flush"] = None
        /\ \A g \in Files : batch'["flush"][g] = FlushList[g]
    BY <1>0, <2>1 DEF TypeOK, Uploaders, Phase, Busy
  <2>3. \A g \in Files : /\ FlushList[g] \in {None, queue[g]}
                         /\ FlushList[g] # None => status[g][queue[g]] \in {"pending", "failed"}
    BY DEF FlushList, QueuedWith
  <2>4. Phase'
    BY <1>0, <2>1, <2>2 DEF Phase, Busy, Uploaders
  <2>5. \A g \in Files : Known(g)'
    BY <1>0, <2>1, <2>2, <2>3, KnownFrame DEF Uploaders
  <2>6. ASSUME NEW g \in Files, Minded(g)' PROVE StopInv(g)'
    <3>1. StopInv(g)
      BY <1>0, <2>1, <2>6 DEF Minded
    <3>2. SpacedInv(g)'
      BY <2>1, <2>2, <3>1 DEF StopInv, SpacedInv, JobInv, InCloud
    <3>3. FlushList[g] \in {None, issued[g]}
          /\ (FlushList[g] # None => status[g][issued[g]] \in {"pending", "failed"})
      BY <2>3, <3>1 DEF StopInv, SpacedInv
    <3>4. OnlyNewest(g)'
      BY <1>0, <2>1, <2>2, <3>1, <3>3 DEF StopInv, OnlyNewest, Uploaders
    <3>5. issued'[g] > 0 => StatusTrue(g)'
      BY <1>0, <2>1, <2>2, <2>3, <3>1 DEF StopInv, StatusTrue, Tried, Uploaders
    <3>6. Queued(g)'
      BY <2>1, <3>1 DEF StopInv, Queued, InCloud
    <3> QED
      BY <3>2, <3>4, <3>5, <3>6 DEF StopInv
  <2> QED
    BY <2>4, <2>5, <2>6 DEF FlushInv
<1>4. CASE FlushCheck
  <2> DEFINE c == cur["flush"]
             n == batch["flush"][c]
  <2>1. upc["flush"] = "check" /\ upc["flush"] \in Busy /\ NextWrite("flush")
        /\ c \in Files /\ n \in Versions
    BY <1>4 DEF FlushCheck, Busy, TypeInv, WorkOK, Uploaders
  <2>2. /\ upc'["flush"] = "loop" /\ cur'["flush"] = None
        /\ upc'["drain"] = upc["drain"] /\ cur'["drain"] = cur["drain"]
        /\ batch'["drain"] = batch["drain"]
        /\ \A g \in Files : batch'["flush"][g] = IF g = c THEN None ELSE batch["flush"][g]
    BY <2>1, NextWriteAside DEF Uploaders
  <2>3. /\ \/ tries[c][n] >= MaxRetries /\ queue' = [queue EXCEPT ![c] = None] /\ report' = "errors"
           \/ ~(tries[c][n] >= MaxRetries) /\ queue' = queue /\ report' = report
        /\ UNCHANGED <<heap, stopped, sent, tvars, disk, cloud, ghosts, bounds>>
    BY <1>4 DEF FlushCheck, UsedUp
  <2>4. \A g \in Files : queue'[g] \in {None, queue[g]} /\ (g # c => queue'[g] = queue[g])
    BY <1>0, <2>3 DEF TypeOK
  <2>5. Phase'
    BY <1>0, <2>1, <2>2, <2>3 DEF Phase, Busy, Uploaders
  <2>6. \A g \in Files : Known(g)'
    BY <1>0, <2>2, <2>3, <2>4, KnownFrame DEF Uploaders
  <2>7. ASSUME NEW g \in Files, Minded(g)', g # c PROVE StopInv(g)'
    <3>1. StopInv(g)
      BY <1>0, <2>3, <2>7 DEF Minded
    <3> QED
      BY <1>0, <2>2, <2>3, <2>4, <2>7, <3>1, StopFrame DEF Uploaders
  <2>8. ASSUME NEW g \in Files, Minded(g)', g = c PROVE StopInv(g)'
    <3>1. SpacedInv(g) /\ OnlyNewest(g) /\ (issued[g] > 0 => StatusTrue(g)) /\ Queued(g)
      BY <1>0, <2>1, <2>3, <2>8 DEF Minded, StopInv
    <3>2. n = issued[g] /\ n > 0
      BY <1>0, <2>1, <2>8, <3>1 DEF OnlyNewest, Versions
    <3>3. SpacedInv(g)'
      BY <2>1, <2>2, <2>3, <2>4, <2>8, <3>1 DEF SpacedInv, JobInv, InCloud
    <3>4. OnlyNewest(g)'
      BY <1>0, <2>1, <2>2, <2>3, <2>8, <3>1 DEF OnlyNewest, Uploaders
    <3>5. StatusTrue(g)'
      <4>1. CASE tries[g][n] >= MaxRetries
        <5>1. queue'[g] = None
          BY <1>0, <2>1, <2>3, <2>8, <4>1 DEF TypeOK
        <5> QED
          BY <1>0, <2>1, <2>2, <2>3, <2>8, <3>1, <3>2, <5>1 DEF StatusTrue, Uploaders
      <4>2. CASE ~(tries[g][n] >= MaxRetries)
        <5>1. body[g][issued[g]] = issued[g]
          BY <1>0, <2>1, <2>8, <3>1, <3>2, <4>2 DEF StatusTrue, Tried
        <5> QED
          BY <1>0, <2>1, <2>2, <2>3, <2>8, <3>1, <3>2, <5>1 DEF StatusTrue, Uploaders
      <4> QED
        BY <4>1, <4>2
    <3>6. Queued(g)'
      BY <2>3, <2>8, <3>1 DEF Queued, InCloud
    <3> QED
      BY <3>3, <3>4, <3>5, <3>6 DEF StopInv
  <2> QED
    BY <2>5, <2>6, <2>7, <2>8 DEF FlushInv
<1> QED
  BY <1>1, <1>2, <1>3, <1>4 DEF Flush

LEMMA StepFlushInv == TypeInv /\ FlushInv /\ [Next]_vars => FlushInv'
<1> SUFFICES ASSUME TypeInv, FlushInv, [Next]_vars PROVE FlushInv'
  OBVIOUS
<1>1. CASE Next
  BY <1>1, EnqueueFlushInv, DrainFlushInv, FlushFlushInv, CrashFlushInv DEF Next, DrainNext
<1>2. CASE UNCHANGED vars
  BY <1>2 DEF vars, heap, uvars, tvars, disk, ghosts, promise, bounds, FlushInv, Phase, Known,
     Minded, StopInv, OnlyNewest, StatusTrue, Tried, Queued, SpacedInv, JobInv, InCloud
<1> QED
  BY <1>1, <1>2

-----------------------------------------------------------------------------
(* The two theorems.                                                       *)

LEMMA FlushInvDurable ==
  ASSUME TypeInv, FlushInv
  PROVE  StoppedWritesDurable
<1>1. ASSUME NEW f \in Files, Minded(f), acked[f] > 0 PROVE InCloud(f) \/ OnDisk(f)
  BY <1>1 DEF FlushInv, StopInv, SpacedInv, OnDisk, AtLeast, TypeInv, TypeOK
<1> QED
  BY <1>1 DEF StoppedWritesDurable, Minded

LEMMA OkStep ==
  ASSUME TypeInv, FlushInv, [Next]_vars,
         report # "ok", report' = "ok", upc["drain"] = "done",
         NEW f \in Files, spaced[f], kept[f], ~dropped[f], ~skipped[f]
  PROVE  InCloud(f)
<1> USE DEF heap, uvars, tvars, disk, ghosts, promise, bounds
<1>0. TypeOK /\ Phase /\ StopInv(f)
  BY DEF TypeInv, FlushInv, Minded
<1>1. FlushReturn
  <2>1. CASE \E t \in Threads : Enqueue(t)
    BY <2>1 DEF Enqueue, EnqueueInsert, WriteTmp, RenameTmp, OpenMeta, WriteMeta
  <2>2. ASSUME NEW u \in Uploaders, Upload(u) PROVE report' = report
    BY <1>0, <2>2, UploadAside DEF Aside
  <2>3. CASE Drain
    BY <2>2, <2>3 DEF Drain, DrainExit, DrainPurge, DrainSnapshot, DrainBatchEnd, Uploaders
  <2>4. CASE Flush
    BY <2>2, <2>4 DEF Flush, FlushStart, FlushJoin, FlushSnapshot, FlushTimeout, FlushBatchEnd,
       FlushCheck, Uploaders
  <2>5. CASE CrashRestart
    BY <2>5 DEF CrashRestart
  <2>6. CASE UNCHANGED vars
    BY <2>6 DEF vars
  <2> QED
    BY <2>1, <2>3, <2>4, <2>5, <2>6 DEF Next, DrainNext
<1>2. report = "none" /\ upc["flush"] = "snap" /\ FlushList = NoBatch
  BY <1>0, <1>1 DEF FlushReturn, FinalReport, TypeOK
<1>3. InCloud(f) \/ queue[f] = issued[f]
  BY <1>0, <1>2 DEF StopInv, Queued
<1>4. CASE queue[f] = issued[f]
  <2>1. issued[f] \in Versions /\ issued[f] # None /\ issued[f] > 0 /\ acked[f] \in 0..MaxWrites
        /\ acked[f] <= issued[f]
    <3>1. issued[f] \in 0..MaxWrites /\ queue[f] \in Versions \cup {None}
          /\ acked[f] \in 0..MaxWrites /\ acked[f] <= issued[f]
      BY <1>0 DEF TypeOK, StopInv, SpacedInv
    <3> QED
      BY <1>4, <3>1, SentinelAssumption DEF Versions
  <2>2. status[f][issued[f]] = "uploading"
    <3>1. FlushList[f] = None
      BY <1>2 DEF NoBatch
    <3>2. status[f][issued[f]] \notin {"pending", "failed"}
      BY <1>4, <2>1, <3>1 DEF FlushList, QueuedWith
    <3>3. status[f][issued[f]] \in Statuses
      BY <1>0, <2>1 DEF TypeOK
    <3> QED
      BY <3>2, <3>3 DEF Statuses
  <2>3. cloud[f] = issued[f]
    BY <1>0, <1>2, <2>1, <2>2 DEF StopInv, StatusTrue, Uploaders
  <2> QED
    BY <2>1, <2>3 DEF InCloud, AtLeast, Versions
<1> QED
  BY <1>3, <1>4

\* flush_all beside the drain thread it stops, at any interleaving with the
\* writers, failing uploads of both, crashes and restarts, keeps every spaced
\* write in the cloud or restorable, but for those of a file of which a write
\* was given up and stayed in the queue.
THEOREM StopKeepsWrites == Spec => []StoppedWritesDurable
<1>1. Spec => [](TypeInv /\ FlushInv)
  BY InitTypeInv, InitFlushInv, StepTypeInv, StepFlushInv, PTL DEF Spec
<1>2. TypeInv /\ FlushInv => StoppedWritesDurable
  BY FlushInvDurable
<1> QED
  BY <1>1, <1>2, PTL

\* A flush_all that returns "ok" after the drain thread has ended has brought
\* every write of the files in question to the cloud: none was skipped because
\* its status lied.
THEOREM FlushOkSynced == Spec => FlushOkMeansSynced
<1>1. Spec => [](TypeInv /\ FlushInv)
  BY InitTypeInv, InitFlushInv, StepTypeInv, StepFlushInv, PTL DEF Spec
<1> DEFINE Ok == report # "ok" /\ report' = "ok" /\ upc["drain"] = "done"
                   => \A f \in Files :
                        spaced[f] /\ kept[f] /\ ~dropped[f] /\ ~skipped[f] => InCloud(f)
<1>2. TypeInv /\ FlushInv /\ [Next]_vars => [Ok]_vars
  BY OkStep
<1>3. Spec => [][Ok]_vars
  BY <1>1, <1>2, PTL DEF Spec
<1> QED
  BY <1>3 DEF FlushOkMeansSynced
=============================================================================
