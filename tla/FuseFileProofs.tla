--------------------------- MODULE FuseFileProofs ---------------------------
(***************************************************************************)
(* Theorems about FuseFile, for any number of handles, threads, contents   *)
(* and crashes.                                                            *)
(***************************************************************************)
EXTENDS FuseFile, TLAPS

-----------------------------------------------------------------------------
(* Types.  A thread that fills the cache has a content, and one that has   *)
(* enqueued holds one of the contents enqueued so far.                     *)

ValInv ==
  /\ flushed <= seq
  /\ \A t \in Threads :
       /\ pc[t] = "fill" => val[t] \in Contents
       /\ pc[t] \in {"put", "meta"} => val[t] \in 0..seq

TypeInv == TypeOK /\ ValInv

LEMMA InitTypeInv == Init => TypeInv
BY FileAssumption DEF Init, TypeInv, TypeOK, ValInv, Contents, Points

\* What the start of an operation that fetches or replaces the content does.
LEMMA JoinsFact ==
  ASSUME NEW t \in Threads, Joins(t), apart \in BOOLEAN
  PROVE  /\ apart' \in BOOLEAN
         /\ apart' => apart /\ up = None /\ \A v \in Threads \ {t} : pc[v] = "idle"
BY DEF Joins

LEMMA OperationTypeInv ==
  ASSUME TypeInv, NEW t \in Threads, Operation(t)
  PROVE  TypeInv'
<1> USE DEF TypeInv, stores, handles, tvars, ghosts
<1>0. apart \in BOOLEAN /\ backed \in BOOLEAN
  BY DEF TypeOK
<1>1. ASSUME NEW h \in Handles, OpenRead(t, h) PROVE TypeInv'
  BY <1>1 DEF OpenRead, TypeOK, ValInv
<1>2. ASSUME NEW h \in Handles, OpenWrite(t, h) PROVE TypeInv'
  <2>1. apart' \in BOOLEAN
    BY <1>0, <1>2, JoinsFact DEF OpenWrite
  <2> QED
    BY <1>2, <2>1 DEF OpenWrite, Start, Goto, TypeOK, ValInv, Points
<1>3. ASSUME NEW h \in Handles, Read(t, h) PROVE TypeInv'
  <2>1. apart' \in BOOLEAN
    BY <1>0, <1>3, JoinsFact DEF Read
  <2> QED
    BY <1>3, <2>1 DEF Read, Start, Goto, TypeOK, ValInv, Points
<1>4. ASSUME NEW h \in Handles, Write(t, h) PROVE TypeInv'
  BY <1>4 DEF Write, TypeOK, ValInv
<1>5. ASSUME NEW h \in Handles, Flush(t, h) PROVE TypeInv'
  <2>1. apart' \in BOOLEAN
    BY <1>0, <1>5, JoinsFact DEF Flush, Snapshot
  <2> QED
    BY <1>5, <2>1 DEF Flush, Snapshot, Start, Goto, TypeOK, ValInv, Points
<1>6. ASSUME NEW h \in Handles, Release(t, h) PROVE TypeInv'
  <2>1. CASE Snapshot(t, h) /\ closing' = [closing EXCEPT ![t] = TRUE]
    <3>1. apart' \in BOOLEAN
      BY <1>0, <2>1, JoinsFact DEF Snapshot
    <3> QED
      BY <2>1, <3>1 DEF Snapshot, Start, Goto, TypeOK, ValInv, Points
  <2>2. CASE ~(Snapshot(t, h) /\ closing' = [closing EXCEPT ![t] = TRUE])
    BY <1>6, <2>2 DEF Release, TypeOK, ValInv
  <2> QED
    BY <2>1, <2>2
<1>7. CASE Truncate(t)
  <2>1. apart' \in BOOLEAN
    BY <1>0, <1>7, JoinsFact DEF Truncate
  <2> QED
    BY <1>7, <2>1 DEF Truncate, Start, Goto, TypeOK, ValInv, Points
<1> QED
  BY <1>1, <1>2, <1>3, <1>4, <1>5, <1>6, <1>7 DEF Operation

LEMMA StepTypeInv ==
  ASSUME TypeInv, NEW t \in Threads, Step(t)
  PROVE  TypeInv'
<1> USE FileAssumption DEF TypeInv, stores, handles, tvars, ghosts
<1>1. CASE Load(t)
  BY <1>1 DEF Load, Return, Goto, TypeOK, ValInv, Points
<1>2. CASE Fetch(t)
  BY <1>2 DEF Fetch, Return, Goto, TypeOK, ValInv, Points
<1>3. CASE Fill(t)
  BY <1>3 DEF Fill, Return, Goto, TypeOK, ValInv, Points
<1>4. CASE Enqueue(t)
  BY <1>4 DEF Enqueue, Enqueued, Goto, TypeOK, ValInv, Points, Contents
<1>5. CASE Put(t)
  <2>1. backed' \in BOOLEAN
    BY <1>5 DEF Put, TypeOK
  <2>2. seq \in Nat /\ seq <= MaxContents /\ val[t] \in 0..seq
    BY <1>5 DEF Put, TypeOK, ValInv, Contents
  <2>3. cached' \in Contents \cup {None}
    BY <1>5, <2>2 DEF Put, PutResult, Contents
  <2> QED
    BY <1>5, <2>1, <2>3 DEF Put, Goto, TypeOK, ValInv, Points
<1>6. CASE Meta(t)
  <2>1. seq \in Nat /\ seq <= MaxContents /\ val[t] \in 0..seq
    BY <1>6 DEF Meta, TypeOK, ValInv, Contents
  <2>2. size' \in Contents /\ flushed' \in Contents /\ flushed' <= seq
    BY <1>6, <2>1 DEF Meta, SizeAfter, TypeOK, ValInv, Contents
  <2>3. mode' \in [Handles -> {"closed", "r", "w"}] /\ dirty' \subseteq Handles
    BY <1>6 DEF Meta, TypeOK
  <2>4. /\ fh' \in [Threads -> Handles \cup {None}] /\ closing' \in [Threads -> BOOLEAN]
        /\ pc' = [pc EXCEPT ![t] = "idle"] /\ val' = [val EXCEPT ![t] = None]
    BY <1>6 DEF Meta, Return, Goto, TypeOK
  <2>5. UNCHANGED <<cloud, cached, queued, recov, up, seq, unsaved, raced, apart, backed, crashes>>
    BY <1>6 DEF Meta
  <2>6. ValInv'
    BY <2>2, <2>4, <2>5 DEF TypeOK, ValInv
  <2> QED
    BY <2>2, <2>3, <2>4, <2>5, <2>6 DEF TypeOK, Points
<1>7. CASE Cut(t)
  BY <1>7 DEF Cut, Return, Goto, TypeOK, ValInv, Points
<1>8. CASE TruncateEnqueue(t)
  <2>1. backed' \in BOOLEAN
    BY <1>8 DEF TruncateEnqueue
  <2> QED
    BY <1>8, <2>1 DEF TruncateEnqueue, Enqueued, Goto, TypeOK, ValInv, Points, Contents
<1> QED
  BY <1>1, <1>2, <1>3, <1>4, <1>5, <1>6, <1>7, <1>8 DEF Step

LEMMA OutsideTypeInv ==
  ASSUME TypeInv, UploadStart \/ UploadDone \/ UploadFailed \/ Evict \/ Restart
  PROVE  TypeInv'
<1> USE FileAssumption DEF TypeInv, stores, handles, tvars, ghosts
<1>1. CASE UploadStart
  <2>1. apart' \in BOOLEAN
    BY <1>1 DEF UploadStart, TypeOK
  <2> QED
    BY <1>1, <2>1 DEF UploadStart, TypeOK, ValInv
<1>2. CASE UploadDone
  BY <1>2 DEF UploadDone, TypeOK, ValInv
<1>3. CASE UploadFailed
  BY <1>3 DEF UploadFailed, KeptWithout, TypeOK, ValInv
<1>4. CASE Evict
  BY <1>4 DEF Evict, TypeOK, ValInv
<1>5. CASE Restart
  BY <1>5 DEF Restart, TypeOK, ValInv, Points
<1> QED
  BY <1>1, <1>2, <1>3, <1>4, <1>5

LEMMA NextTypeInv == TypeInv /\ [Next]_vars => TypeInv'
<1> SUFFICES ASSUME TypeInv, [Next]_vars PROVE TypeInv'
  OBVIOUS
<1>1. CASE UNCHANGED vars
  BY <1>1 DEF vars, stores, handles, tvars, ghosts, TypeInv, TypeOK, ValInv
<1> QED
  BY <1>1, OperationTypeInv, StepTypeInv, OutsideTypeInv DEF Next

\* The variables keep their types, and no flush claims more than was enqueued.
THEOREM TypeCorrect == Spec => []TypeOK
<1>1. TypeInv => TypeOK
  BY DEF TypeInv
<1> QED
  BY <1>1, InitTypeInv, NextTypeInv, PTL DEF Spec

-----------------------------------------------------------------------------
(* While the operations that fetch or replace the content do not overlap,  *)
(* an upload runs only between them and whatever is queued, on disk or on  *)
(* its way is the newest content.                                          *)

NewestInv ==
  apart =>
    /\ \A t, v \in Threads : pc[t] # "idle" /\ pc[v] # "idle" => t = v
    /\ up # None => up = seq /\ Quiet
    /\ queued \in {None, seq} /\ recov \in {None, seq}
    /\ recov = seq \/ cloud = seq
    /\ \A t \in Threads : pc[t] \in {"put", "meta"} => val[t] = seq
    /\ crashes = 0 => size = seq \/ \E t \in Threads : pc[t] \in {"put", "meta"}

\* All that an operation does to the contents is to set its thread going.
Begins(t) ==
  /\ pc[t] = "idle" /\ Joins(t)
  /\ \E point \in {"load", "fetch", "enqueue", "cut", "trunc"} :
       /\ pc' = [pc EXCEPT ![t] = point]
       /\ point = "fetch" => cached = None

LEMMA OperationFrame ==
  ASSUME TypeInv, NEW t \in Threads, Operation(t)
  PROVE  /\ UNCHANGED <<stores, val, seq, flushed, backed, crashes>>
         /\ Begins(t) \/ UNCHANGED <<pc, apart>>
<1> USE DEF stores, handles, tvars, ghosts
<1>1. ASSUME NEW h \in Handles, OpenRead(t, h) \/ Write(t, h)
      PROVE  UNCHANGED <<stores, val, seq, flushed, backed, crashes, pc, apart>>
  BY <1>1 DEF OpenRead, Write
<1>2. ASSUME NEW h \in Handles, OpenWrite(t, h)
      PROVE  /\ UNCHANGED <<stores, val, seq, flushed, backed, crashes>>
             /\ Begins(t) \/ UNCHANGED <<pc, apart>>
  BY <1>2 DEF OpenWrite, Start, Goto, Begins
<1>3. ASSUME NEW h \in Handles, Read(t, h)
      PROVE  UNCHANGED <<stores, val, seq, flushed, backed, crashes>> /\ Begins(t)
  BY <1>3 DEF Read, Start, Goto, Begins
<1>4. ASSUME NEW h \in Handles, Snapshot(t, h)
      PROVE  UNCHANGED <<stores, val, seq, flushed, backed, crashes>> /\ Begins(t)
  BY <1>4 DEF Snapshot, Start, Goto, Begins
<1>5. ASSUME NEW h \in Handles, Release(t, h)
      PROVE  /\ UNCHANGED <<stores, val, seq, flushed, backed, crashes>>
             /\ Begins(t) \/ UNCHANGED <<pc, apart>>
  BY <1>4, <1>5 DEF Release
<1>6. CASE Truncate(t)
  BY <1>6 DEF Truncate, Start, Goto, Begins
<1> QED
  BY <1>1, <1>2, <1>3, <1>4, <1>5, <1>6 DEF Operation, Flush

LEMMA InitNewestInv == Init => NewestInv
BY FileAssumption DEF Init, NewestInv

LEMMA OperationNewestInv ==
  ASSUME TypeInv, NewestInv, NEW t \in Threads, Operation(t)
  PROVE  NewestInv'
<1>1. UNCHANGED <<stores, val, seq, crashes>>
  BY OperationFrame
<1>2. CASE UNCHANGED <<pc, apart>>
  BY <1>1, <1>2 DEF NewestInv, Quiet, stores
<1>3. CASE Begins(t)
  <2> SUFFICES ASSUME apart' PROVE NewestInv'
    BY DEF NewestInv
  <2>1. apart /\ up = None /\ \A v \in Threads : pc[v] = "idle"
    BY <1>3 DEF Begins, Joins, TypeInv, TypeOK
  <2>2. PICK point \in {"load", "fetch", "enqueue", "cut", "trunc"} :
          pc' = [pc EXCEPT ![t] = point]
    BY <1>3 DEF Begins
  <2> QED
    BY <1>1, <2>1, <2>2 DEF NewestInv, Quiet, stores, TypeInv, TypeOK
<1> QED
  BY <1>2, <1>3, OperationFrame

LEMMA StepNewestInv ==
  ASSUME TypeInv, NewestInv, NEW t \in Threads, Step(t)
  PROVE  NewestInv'
<1> USE DEF stores, handles, tvars, ghosts
<1>1. pc \in [Threads -> Points] /\ val \in [Threads -> Contents \cup {None}]
  BY DEF TypeInv, TypeOK
<1>2. CASE Load(t) \/ Fetch(t) \/ Fill(t) \/ Cut(t)
  <2>1. UNCHANGED <<cloud, queued, recov, up, size, seq, apart, crashes>>
    BY <1>2 DEF Load, Fetch, Fill, Cut
  <2>2. pc[t] \notin {"idle", "put", "meta"}
    BY <1>2 DEF Load, Fetch, Fill, Cut
  <2>3. PICK point \in {"idle", "fill", "trunc"} : pc' = [pc EXCEPT ![t] = point]
    BY <1>2 DEF Load, Fetch, Fill, Cut, Return, Goto
  <2>4. \A v \in Threads \ {t} : val'[v] = val[v]
    BY <1>1, <1>2 DEF Load, Fetch, Fill, Cut, Return
  <2> QED
    BY <1>1, <2>1, <2>2, <2>3, <2>4 DEF NewestInv, Quiet
<1>3. CASE Enqueue(t) \/ TruncateEnqueue(t)
  <2>1. /\ UNCHANGED <<cloud, up, size, apart, crashes>>
        /\ pc[t] # "idle" /\ seq' = seq + 1 /\ queued' = seq' /\ recov' = seq'
        /\ val' = [val EXCEPT ![t] = seq']
    BY <1>3 DEF Enqueue, TruncateEnqueue, Enqueued
  <2>2. PICK point \in {"put", "meta"} : pc' = [pc EXCEPT ![t] = point]
    BY <1>3 DEF Enqueue, TruncateEnqueue, Goto
  <2> QED
    BY <1>1, <2>1, <2>2 DEF NewestInv, Quiet
<1>4. CASE Put(t)
  BY <1>1, <1>4 DEF Put, Goto, NewestInv, Quiet
<1>5. CASE Meta(t)
  <2>1. /\ UNCHANGED <<cloud, queued, recov, up, seq, apart, crashes>>
        /\ pc[t] = "meta" /\ size' = val[t]
        /\ pc' = [pc EXCEPT ![t] = "idle"] /\ val' = [val EXCEPT ![t] = None]
    BY <1>5 DEF Meta, SizeAfter, Return, Goto
  <2> QED
    BY <1>1, <2>1 DEF NewestInv, Quiet
<1> QED
  BY <1>2, <1>3, <1>4, <1>5 DEF Step

LEMMA OutsideNewestInv ==
  ASSUME TypeInv, NewestInv, UploadStart \/ UploadDone \/ UploadFailed \/ Evict \/ Restart
  PROVE  NewestInv'
<1> USE FileAssumption DEF handles, tvars, ghosts
<1>1. CASE UploadStart
  BY <1>1 DEF UploadStart, NewestInv, Quiet, TypeInv, TypeOK
<1>2. CASE UploadDone
  BY <1>2 DEF UploadDone, NewestInv, Quiet
<1>3. CASE UploadFailed
  BY <1>3 DEF UploadFailed, KeptWithout, NewestInv, Quiet
<1>4. CASE Evict
  BY <1>4 DEF Evict, NewestInv, Quiet
<1>5. CASE Restart
  <2>1. crashes' # 0
    BY <1>5 DEF Restart, TypeInv, TypeOK
  <2> QED
    BY <1>5, <2>1 DEF Restart, NewestInv, Quiet
<1> QED
  BY <1>1, <1>2, <1>3, <1>4, <1>5

Inv == TypeInv /\ NewestInv

LEMMA NextInv == Inv /\ [Next]_vars => Inv'
<1> SUFFICES ASSUME Inv, [Next]_vars PROVE Inv'
  OBVIOUS
<1>1. TypeInv'
  BY NextTypeInv DEF Inv
<1>2. CASE UNCHANGED vars
  BY <1>2 DEF vars, stores, handles, tvars, ghosts, Inv, NewestInv, Quiet, TypeInv, TypeOK,
              ValInv
<1> QED
  BY <1>1, <1>2, OperationNewestInv, StepNewestInv, OutsideNewestInv DEF Next, Inv

\* A flushed content is in the cloud or in a recovery file, as long as the
\* operations that fetch or replace the content do not overlap.
THEOREM FlushesAreDurable == Spec => []FlushDurable
<1>1. Init => Inv
  BY InitTypeInv, InitNewestInv DEF Inv
<1>2. Inv => FlushDurable
  BY FileAssumption DEF Inv, NewestInv, TypeInv, TypeOK, ValInv, Contents, FlushDurable
<1> QED
  BY <1>1, <1>2, NextInv, PTL DEF Spec

\* Between operations that do not overlap, getattr shows the size of what was
\* written last, until the process restarts.
THEOREM SizeIsShown == Spec => []SizeShown
<1>1. Init => Inv
  BY InitTypeInv, InitNewestInv DEF Inv
<1>2. Inv => SizeShown
  BY DEF Inv, NewestInv, SizeShown, Quiet
<1> QED
  BY <1>1, <1>2, NextInv, PTL DEF Spec

-----------------------------------------------------------------------------
(* What a read gets.  As long as the cache is not emptied or bypassed      *)
(* before the cloud has the newest content, a read gets that content; only *)
(* between enqueue and put it may still get the one before.                *)

VisibleInv ==
  apart /\ backed =>
    /\ \A t \in Threads :
         /\ pc[t] \in {"fetch", "fill"} => cached = None
         /\ pc[t] = "fill" => val[t] = cloud
    /\ Visible >= flushed
    /\ (\A t \in Threads : pc[t] # "put") => Visible = seq

LEMMA InitVisibleInv == Init => VisibleInv
BY DEF Init, VisibleInv, Visible

LEMMA OperationVisibleInv ==
  ASSUME Inv, VisibleInv, NEW t \in Threads, Operation(t)
  PROVE  VisibleInv'
<1>1. UNCHANGED <<stores, val, seq, flushed, backed>>
  BY OperationFrame DEF Inv
<1>2. CASE UNCHANGED <<pc, apart>>
  BY <1>1, <1>2 DEF VisibleInv, Visible, stores
<1>3. CASE Begins(t)
  <2> SUFFICES ASSUME apart', backed' PROVE VisibleInv'
    BY DEF VisibleInv
  <2>1. apart /\ \A v \in Threads : pc[v] = "idle"
    BY <1>3 DEF Begins, Joins, Inv, TypeInv, TypeOK
  <2>2. PICK point \in {"load", "fetch", "enqueue", "cut", "trunc"} :
          pc' = [pc EXCEPT ![t] = point] /\ (point = "fetch" => cached = None)
    BY <1>3 DEF Begins
  <2> QED
    BY <1>1, <2>1, <2>2 DEF VisibleInv, Visible, stores, Inv, TypeInv, TypeOK
<1> QED
  BY <1>2, <1>3, OperationFrame DEF Inv

LEMMA StepVisibleInv ==
  ASSUME Inv, VisibleInv, NEW t \in Threads, Step(t)
  PROVE  VisibleInv'
<1> USE FileAssumption DEF stores, handles, tvars, ghosts
<1>1. pc \in [Threads -> Points] /\ val \in [Threads -> Contents \cup {None}]
  BY DEF Inv, TypeInv, TypeOK
<1>2. flushed \in Nat /\ seq \in Nat /\ flushed <= seq
  BY DEF Inv, TypeInv, TypeOK, ValInv, Contents
<1>3. pc[t] # "idle" /\ apart => \A v \in Threads \ {t} : pc[v] = "idle"
  BY DEF Inv, NewestInv
<1>4. CASE Load(t) \/ Fetch(t) \/ Cut(t)
  <2>1. UNCHANGED <<cloud, cached, seq, flushed, apart, backed>> /\ pc[t] # "put"
    BY <1>4 DEF Load, Fetch, Cut
  <2>2. PICK point \in {"idle", "fill", "trunc"} :
          /\ pc' = [pc EXCEPT ![t] = point]
          /\ point = "fill" => pc[t] = "fetch" /\ val' = [val EXCEPT ![t] = cloud]
    BY <1>4 DEF Load, Fetch, Cut, Return, Goto
  <2>3. pc[t] # "idle"
    BY <1>4 DEF Load, Fetch, Cut
  <2> QED
    BY <1>1, <1>3, <2>1, <2>2, <2>3 DEF VisibleInv, Visible
<1>5. CASE Fill(t)
  <2>1. /\ UNCHANGED <<cloud, seq, flushed, apart, backed>> /\ pc[t] = "fill"
        /\ pc' = [pc EXCEPT ![t] = "idle"] /\ cached' \in {None, val[t]}
    BY <1>5 DEF Fill, Return, Goto
  <2> QED
    BY <1>1, <1>3, <2>1 DEF VisibleInv, Visible
<1>6. CASE Enqueue(t)
  <2>1. /\ UNCHANGED <<cloud, cached, flushed, apart, backed>> /\ pc[t] = "enqueue"
        /\ pc' = [pc EXCEPT ![t] = "put"]
    BY <1>6 DEF Enqueue, Goto
  <2> QED
    BY <1>1, <1>3, <2>1 DEF VisibleInv, Visible
<1>7. CASE Put(t)
  <2>1. /\ UNCHANGED <<cloud, seq, flushed, apart>> /\ pc[t] = "put"
        /\ pc' = [pc EXCEPT ![t] = "meta"] /\ cached' \in {val[t], None}
        /\ backed' = (backed /\ (cached' # None \/ cloud = seq))
    BY <1>7 DEF Put, PutResult, Goto
  <2>2. apart => val[t] = seq
    BY <2>1 DEF Inv, NewestInv
  <2>3. apart /\ backed' => Visible' = seq
    BY <1>2, <2>1, <2>2 DEF Visible
  <2> QED
    BY <1>1, <1>2, <1>3, <2>1, <2>3 DEF VisibleInv
<1>8. CASE Meta(t)
  <2>1. /\ UNCHANGED <<cloud, cached, seq, apart, backed>> /\ pc[t] = "meta"
        /\ pc' = [pc EXCEPT ![t] = "idle"] /\ flushed' \in {flushed, val[t]}
    BY <1>8 DEF Meta, Return, Goto
  <2>2. val[t] \in 0..seq
    BY <2>1 DEF Inv, TypeInv, ValInv
  <2>3. flushed' <= seq
    BY <1>2, <2>1, <2>2
  <2>4. UNCHANGED Visible
    BY <2>1 DEF Visible
  <2>5. apart => \A v \in Threads : pc[v] # "put"
    BY <1>3, <2>1
  <2> QED
    BY <1>1, <1>2, <1>3, <2>1, <2>3, <2>4, <2>5 DEF VisibleInv
<1>9. CASE TruncateEnqueue(t)
  BY <1>9 DEF TruncateEnqueue, VisibleInv
<1> QED
  BY <1>4, <1>5, <1>6, <1>7, <1>8, <1>9 DEF Step

LEMMA OutsideVisibleInv ==
  ASSUME Inv, VisibleInv, UploadStart \/ UploadDone \/ UploadFailed \/ Evict \/ Restart
  PROVE  VisibleInv'
<1> USE FileAssumption DEF handles, tvars, ghosts
<1>1. flushed \in Nat /\ seq \in Nat /\ flushed <= seq
  BY DEF Inv, TypeInv, TypeOK, ValInv, Contents
<1>2. CASE UploadStart
  BY <1>2 DEF UploadStart, VisibleInv, Visible
<1>3. CASE UploadDone
  <2>1. UNCHANGED <<pc, val, cached, seq, flushed, apart, backed>> /\ cloud' = up /\ up # None
    BY <1>3 DEF UploadDone
  <2>2. apart => up = seq /\ \A t \in Threads : pc[t] = "idle"
    BY <2>1 DEF Inv, NewestInv, Quiet
  <2> QED
    BY <1>1, <2>1, <2>2 DEF VisibleInv, Visible
<1>4. CASE UploadFailed
  <2>1. UNCHANGED <<pc, val, cached, seq, flushed, apart, backed>> /\ cloud' \in {cloud, up}
    BY <1>4 DEF UploadFailed
  <2>2. apart => up = seq /\ \A t \in Threads : pc[t] = "idle"
    BY <1>4 DEF UploadFailed, Inv, NewestInv, Quiet
  <2> QED
    BY <1>1, <2>1, <2>2 DEF VisibleInv, Visible
<1>5. CASE Evict
  BY <1>1, <1>5 DEF Evict, VisibleInv, Visible
<1>6. CASE Restart
  BY <1>1, <1>6 DEF Restart, VisibleInv, Visible
<1> QED
  BY <1>2, <1>3, <1>4, <1>5, <1>6

LEMMA NextVisibleInv == Inv /\ VisibleInv /\ [Next]_vars => VisibleInv'
<1> SUFFICES ASSUME Inv, VisibleInv, [Next]_vars PROVE VisibleInv'
  OBVIOUS
<1>1. CASE UNCHANGED vars
  BY <1>1 DEF vars, stores, handles, tvars, ghosts, VisibleInv, Visible
<1> QED
  BY <1>1, OperationVisibleInv, StepVisibleInv, OutsideVisibleInv DEF Next

\* A flushed content is what later reads see, as long as operations do not
\* overlap and the cache is neither emptied nor bypassed before the upload.
THEOREM FlushesAreVisible == Spec => []FlushVisible
<1>1. Init => Inv /\ VisibleInv
  BY InitTypeInv, InitNewestInv, InitVisibleInv DEF Inv
<1>2. Inv /\ VisibleInv => FlushVisible
  BY DEF VisibleInv, FlushVisible
<1> QED
  BY <1>1, <1>2, NextInv, NextVisibleInv, PTL DEF Spec

-----------------------------------------------------------------------------
(* Writes and their handles.  A write that no flush has picked up, nor     *)
(* overtaken, leaves its handle dirty, and no flush of the handle is under *)
(* way that could clear the mark.  A truncate by path has no handle.       *)

Owed == unsaved \ raced

SavesInv ==
  /\ Owed \subseteq dirty
  /\ \A t \in Threads :
       /\ pc[t] \in {"enqueue", "put", "meta"} => fh[t] \notin Owed
       /\ pc[t] \in {"cut", "trunc"} => fh[t] = None

LEMMA InitSavesInv == Init => SavesInv
BY DEF Init, SavesInv, Owed

LEMMA OperationSavesInv ==
  ASSUME TypeInv, SavesInv, NEW t \in Threads, Operation(t)
  PROVE  SavesInv'
<1> USE DEF stores, handles, tvars, ghosts
<1>1. /\ pc \in [Threads -> Points] /\ fh \in [Threads -> Handles \cup {None}]
      /\ unsaved \subseteq Handles /\ None \notin Handles
  BY FileAssumption DEF TypeInv, TypeOK
<1>2. ASSUME NEW h \in Handles, OpenRead(t, h) PROVE SavesInv'
  BY <1>2 DEF OpenRead, SavesInv, Owed
<1>3. ASSUME NEW h \in Handles, OpenWrite(t, h) \/ Read(t, h) PROVE SavesInv'
  <2>1. CASE UNCHANGED <<pc, fh, dirty, unsaved, raced>>
    BY <2>1 DEF SavesInv, Owed
  <2>2. CASE /\ Start(t, h, "load") \/ Start(t, h, "fetch")
             /\ UNCHANGED <<dirty, unsaved, raced>>
    BY <1>1, <2>2 DEF Start, Goto, SavesInv, Owed
  <2> QED
    BY <1>3, <2>1, <2>2 DEF OpenWrite, Read
<1>4. ASSUME NEW h \in Handles, Write(t, h) PROVE SavesInv'
  <2>1. CASE InUse(h)
    BY <1>4, <2>1 DEF Write, SavesInv, Owed
  <2>2. CASE ~InUse(h)
    BY <1>4, <2>2 DEF Write, InUse, SavesInv, Owed
  <2> QED
    BY <2>1, <2>2
<1>5. ASSUME NEW h \in Handles, Snapshot(t, h), UNCHANGED <<dirty, raced>> PROVE SavesInv'
  BY <1>1, <1>5 DEF Snapshot, Start, Goto, SavesInv, Owed
<1>6. ASSUME NEW h \in Handles, Flush(t, h) PROVE SavesInv'
  BY <1>5, <1>6 DEF Flush, Snapshot
<1>7. ASSUME NEW h \in Handles, Release(t, h) PROVE SavesInv'
  <2>1. CASE Snapshot(t, h)
    BY <1>5, <2>1 DEF Snapshot
  <2>2. CASE ~Snapshot(t, h)
    <3>1. h \notin dirty /\ dirty' = dirty \ {h} /\ UNCHANGED <<pc, fh, unsaved, raced>>
      BY <1>7, <2>2 DEF Release, NeedsFlush
    <3> QED
      BY <3>1 DEF SavesInv, Owed
  <2> QED
    BY <2>1, <2>2
<1>8. CASE Truncate(t)
  BY <1>1, <1>8 DEF Truncate, Start, Goto, SavesInv, Owed
<1> QED
  BY <1>2, <1>3, <1>4, <1>6, <1>7, <1>8 DEF Operation

LEMMA StepSavesInv ==
  ASSUME TypeInv, SavesInv, NEW t \in Threads, Step(t)
  PROVE  SavesInv'
<1> USE DEF stores, handles, tvars, ghosts
<1>1. /\ pc \in [Threads -> Points] /\ fh \in [Threads -> Handles \cup {None}]
      /\ unsaved \subseteq Handles /\ None \notin Handles
  BY FileAssumption DEF TypeInv, TypeOK
<1>2. CASE Load(t) \/ Fetch(t) \/ Fill(t)
  <2>1. PICK point \in {"idle", "fill"} : pc' = [pc EXCEPT ![t] = point]
    BY <1>2 DEF Load, Fetch, Fill, Return, Goto
  <2>2. UNCHANGED <<dirty, unsaved, raced>> /\ \A v \in Threads \ {t} : fh'[v] = fh[v]
    BY <1>1, <1>2 DEF Load, Fetch, Fill, Return
  <2> QED
    BY <1>1, <2>1, <2>2 DEF SavesInv, Owed
<1>3. CASE Enqueue(t) \/ Put(t) \/ TruncateEnqueue(t)
  <2>1. /\ pc[t] \in {"enqueue", "put", "trunc"} /\ UNCHANGED <<fh, dirty, unsaved, raced>>
        /\ \E point \in {"put", "meta"} : pc' = [pc EXCEPT ![t] = point]
    BY <1>3 DEF Enqueue, Put, TruncateEnqueue, Goto
  <2> QED
    BY <1>1, <2>1 DEF SavesInv, Owed
<1>4. CASE Meta(t)
  <2>1. /\ pc[t] = "meta" /\ UNCHANGED <<unsaved, raced>> /\ dirty' = dirty \ {fh[t]}
        /\ pc' = [pc EXCEPT ![t] = "idle"] /\ fh' = [fh EXCEPT ![t] = None]
    BY <1>4 DEF Meta, Return, Goto
  <2> QED
    BY <1>1, <2>1 DEF SavesInv, Owed
<1>5. CASE Cut(t)
  <2>1. pc[t] = "cut" /\ UNCHANGED <<dirty, unsaved, raced>>
    BY <1>5 DEF Cut
  <2>2. CASE Return(t)
    BY <1>1, <2>1, <2>2 DEF Return, Goto, SavesInv, Owed
  <2>3. CASE Goto(t, "trunc") /\ UNCHANGED fh
    BY <1>1, <2>1, <2>3 DEF Goto, SavesInv, Owed
  <2> QED
    BY <1>5, <2>2, <2>3 DEF Cut
<1> QED
  BY <1>2, <1>3, <1>4, <1>5 DEF Step

LEMMA NextSavesInv == TypeInv /\ SavesInv /\ [Next]_vars => SavesInv'
<1> SUFFICES ASSUME TypeInv, SavesInv, [Next]_vars PROVE SavesInv'
  OBVIOUS
<1> USE DEF stores, handles, tvars, ghosts
<1>1. CASE UploadStart \/ UploadDone \/ UploadFailed \/ Evict \/ UNCHANGED vars
  <2>1. UNCHANGED <<pc, fh, dirty, unsaved, raced>>
    BY <1>1 DEF UploadStart, UploadDone, UploadFailed, Evict, vars
  <2> QED
    BY <2>1 DEF SavesInv, Owed
<1>2. CASE Restart
  BY <1>2 DEF Restart, SavesInv, Owed
<1> QED
  BY <1>1, <1>2, OperationSavesInv, StepSavesInv DEF Next

\* What a step that closes a handle may leave behind.
LEMMA ClosingStep ==
  ASSUME TypeInv, SavesInv, Next, crashes' = crashes,
         NEW h \in Handles, mode[h] = "w", mode'[h] = "closed"
  PROVE  h \notin Owed
<1>1. mode \in [Handles -> {"closed", "r", "w"}] /\ crashes \in Nat
  BY FileAssumption DEF TypeInv, TypeOK
<1>2. ASSUME NEW t \in Threads, Meta(t) PROVE h \notin Owed
  <2>1. mode' \in {mode, [mode EXCEPT ![fh[t]] = "closed"]} /\ pc[t] = "meta"
    BY <1>2 DEF Meta
  <2>2. fh[t] = h
    BY <1>1, <2>1
  <2> QED
    BY <2>1, <2>2 DEF SavesInv
<1>3. ASSUME NEW t \in Threads, NEW g \in Handles, Release(t, g) PROVE h \notin Owed
  <2>1. mode' # mode
    OBVIOUS
  <2>2. g \notin dirty /\ mode' = [mode EXCEPT ![g] = "closed"]
    BY <1>3, <2>1 DEF Release, Snapshot, NeedsFlush, handles
  <2>3. g = h
    BY <1>1, <2>2
  <2> QED
    BY <2>2, <2>3 DEF SavesInv
<1>4. ASSUME NEW t \in Threads, NEW g \in Handles, OpenRead(t, g) \/ OpenWrite(t, g)
      PROVE  FALSE
  <2>1. mode' = mode \/ \E m \in {"r", "w"} : mode' = [mode EXCEPT ![g] = m]
    BY <1>4 DEF OpenRead, OpenWrite
  <2> QED
    BY <1>1, <2>1
<1>5. ASSUME NEW t \in Threads, Load(t) PROVE FALSE
  <2>1. mode' \in {mode, [mode EXCEPT ![fh[t]] = "w"]}
    BY <1>5 DEF Load
  <2> QED
    BY <1>1, <2>1
<1>6. ASSUME NEW t \in Threads, NEW g \in Handles, Read(t, g) \/ Write(t, g) \/ Flush(t, g)
      PROVE  FALSE
  BY <1>6 DEF Read, Write, Flush, Snapshot, handles
<1>7. ASSUME NEW t \in Threads,
             \/ Truncate(t) \/ Fetch(t) \/ Fill(t) \/ Enqueue(t) \/ Put(t)
             \/ Cut(t) \/ TruncateEnqueue(t)
      PROVE  FALSE
  BY <1>7 DEF Truncate, Fetch, Fill, Enqueue, Put, Cut, TruncateEnqueue, handles
<1>8. CASE UploadStart \/ UploadDone \/ UploadFailed \/ Evict \/ Restart
  BY <1>1, <1>8 DEF UploadStart, UploadDone, UploadFailed, Evict, Restart, handles
<1> QED
  BY <1>2, <1>3, <1>4, <1>5, <1>6, <1>7, <1>8 DEF Next, Operation, Step

\* No write is lost with its handle: release leaves only those behind that were
\* made while a flush of the handle was under way.
THEOREM ReleaseKeepsWrites == Spec => ReleaseSavesWrites
<1>1. Init => TypeInv /\ SavesInv
  BY InitTypeInv, InitSavesInv
<1>2. TypeInv /\ SavesInv /\ [Next]_vars
        => [\A h \in Handles :
              mode[h] = "w" /\ mode'[h] = "closed" /\ crashes' = crashes
                => h \notin unsaved \ raced]_vars
  BY ClosingStep DEF Owed
<1> QED
  BY <1>1, <1>2, NextTypeInv, NextSavesInv, PTL DEF Spec, ReleaseSavesWrites
=============================================================================
