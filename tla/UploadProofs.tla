----------------------------- MODULE UploadProofs -----------------------------
(***************************************************************************)
(* Theorems about Upload, for contents of any length, any chunk size and   *)
(* any number of retries.                                                  *)
(***************************************************************************)
EXTENDS Upload, TLAPS

\* An attempt that is under way has a number; one more begins only while the
\* limit is not reached; sessions are for contents above the cut-off.
ClientInv ==
  /\ pc = "idle" => tried < MaxRetries
  /\ pc \in {"whole", "initiate", "put", "answer"} => tried \in Sessions
  /\ pc \in {"initiate", "put", "answer"} => size > Cutoff

\* A session that holds the whole content has made it the content of the file.
ServerInv ==
  size > Cutoff => \A s \in Sessions : have[s] = size => stored = "new"

UploadInv == TypeOK /\ ClientInv /\ ServerInv

LEMMA InitUploadInv == Init => UploadInv
BY SizeAssumption, BoundAssumption
DEF Init, UploadInv, TypeOK, ClientInv, ServerInv, Sessions

\* The next chunk begins where this one may end: inside the content.
LEMMA EndInRange ==
  ASSUME TypeOK
  PROVE  End \in offset..size
BY SizeAssumption DEF End, TypeOK

\* Whatever part of a chunk the server takes, its state keeps its type and the
\* whole content is stored as soon as one session has it.
LEMMA ReceiveKeeps ==
  ASSUME TypeOK, ServerInv, UNCHANGED size,
         NEW s \in Sessions, NEW from \in 0..size, NEW upto \in 0..size,
         Receive(s, from, upto)
  PROVE  /\ have' \in [Sessions -> 0..size] /\ stored' \in {stored, "new"}
         /\ ServerInv'
<1>1. have' = [have EXCEPT ![s] = IF from <= @ /\ upto > @ THEN upto ELSE @]
  BY DEF Receive
<1>2. stored' = IF have'[s] = size THEN "new" ELSE stored
  BY DEF Receive
<1>3. have' \in [Sessions -> 0..size]
  BY <1>1 DEF TypeOK
<1>4. \A r \in Sessions \ {s} : have'[r] = have[r]
  BY <1>1 DEF TypeOK
<1>5. stored' \in {stored, "new"} /\ (have'[s] = size => stored' = "new")
  BY <1>2
<1>6. ASSUME size > Cutoff, NEW r \in Sessions, have'[r] = size PROVE stored' = "new"
  BY <1>4, <1>5, <1>6 DEF ServerInv
<1>7. Sessions' = Sessions
  BY DEF Sessions
<1> QED
  BY <1>3, <1>5, <1>6, <1>7 DEF ServerInv

LEMMA NextChunkKeeps ==
  ASSUME UploadInv, pc = "answer", NEW next \in 0..size, NextChunk(next)
  PROVE  /\ pc' \in {"put", "idle", "failed"}
         /\ pc' = "idle" => tried < MaxRetries
         /\ offset' \in 0..size /\ resent' = 0
BY SizeAssumption DEF UploadInv, TypeOK, NextChunk, Ended

\* A failed attempt leaves a client that starts again or has given up.
LEMMA FailAttemptKeeps ==
  ASSUME FailAttempt
  PROVE  /\ pc' \in {"idle", "failed"} /\ offset' = 0 /\ resent' = 0
         /\ pc' = "idle" => tried < MaxRetries
BY DEF FailAttempt

LEMMA FaultKeeps == ASSUME TypeOK, Fault PROVE faults' \in 0..MaxFaults
BY BoundAssumption DEF TypeOK, Fault

LEMMA RefusedKeeps ==
  ASSUME TypeOK, Refused
  PROVE  /\ pc' \in {"idle", "failed"} /\ (pc' = "idle" => tried < MaxRetries)
         /\ offset' \in 0..size /\ resent' \in 0..(ChunkRetries - 1)
         /\ faults' \in 0..MaxFaults
<1>1. faults' \in 0..MaxFaults
  BY FaultKeeps DEF Refused
<1>2. CASE FailAttempt
  BY <1>1, <1>2, FailAttemptKeeps, SizeAssumption, BoundAssumption DEF TypeOK
<1>3. CASE Goto("failed")
  BY <1>1, <1>3 DEF Goto, TypeOK
<1> QED
  BY <1>2, <1>3 DEF Refused

LEMMA StepUploadInv ==
  ASSUME UploadInv, Next
  PROVE  UploadInv'
<1> USE DEF UploadInv, Sessions
<1>1. CASE Attempt
  BY <1>1, BoundAssumption DEF Attempt, Goto, TypeOK, ClientInv, ServerInv
<1>2. CASE SendWhole
  <2>1. /\ pc' \in {"idle", "failed", "ok"} /\ (pc' = "idle" => tried < MaxRetries)
        /\ offset' \in 0..size /\ resent' \in 0..(ChunkRetries - 1)
        /\ faults' \in 0..MaxFaults
    BY <1>2, RefusedKeeps, FailAttemptKeeps, FaultKeeps, SizeAssumption, BoundAssumption
    DEF SendWhole, Goto, TypeOK
  <2>2. /\ stored' \in {stored, "new"} /\ UNCHANGED <<size, tried, have>>
        /\ late' \subseteq late \cup {[session |-> Whole, from |-> 0, to |-> size]}
    BY <1>2 DEF SendWhole
  <2>3. size \in Nat
    BY SizeAssumption DEF TypeOK
  <2> QED
    BY <2>1, <2>2, <2>3 DEF TypeOK, ClientInv, ServerInv, Whole
<1>3. CASE Initiate
  <2>1. /\ pc' \in {"put", "idle", "failed"} /\ (pc' = "idle" => tried < MaxRetries)
        /\ offset' \in 0..size /\ resent' \in 0..(ChunkRetries - 1)
        /\ faults' \in 0..MaxFaults
    BY <1>3, RefusedKeeps DEF Initiate, Goto, TypeOK
  <2> QED
    BY <1>3, <2>1 DEF Initiate, TypeOK, ClientInv, ServerInv
<1>4. ASSUME NEW k \in 0..size, PutTaken(k) PROVE UploadInv'
  <2>1. tried \in Sessions /\ offset \in 0..size /\ Receive(tried, offset, k)
    BY <1>4 DEF PutTaken, ClientInv, TypeOK
  <2>2. have' \in [Sessions -> 0..size] /\ stored' \in {stored, "new"} /\ ServerInv'
    BY <1>4, <2>1, ReceiveKeeps DEF PutTaken
  <2> QED
    BY <1>4, <2>2 DEF PutTaken, Goto, TypeOK, ClientInv
<1>5. CASE PutAnswered
  <2>1. /\ pc = "answer" /\ UNCHANGED <<size, tried, have, stored, late, faults>>
    BY <1>5 DEF PutAnswered
  <2>2. CASE have[tried] = size /\ Goto("ok")
    BY <2>1, <2>2 DEF Goto, TypeOK, ClientInv, ServerInv
  <2>3. ASSUME NEW next \in 0..size, NextChunk(next) PROVE UploadInv'
    <3>1. /\ pc' \in {"put", "idle", "failed"} /\ (pc' = "idle" => tried < MaxRetries)
          /\ offset' \in 0..size /\ resent' = 0
      BY <2>1, <2>3, NextChunkKeeps
    <3> QED
      BY <2>1, <3>1, BoundAssumption DEF TypeOK, ClientInv, ServerInv
  <2>4. CASE have[tried] \in 1..(size - 1) /\ NextChunk((have[tried] - 1) + 1)
    <3>1. (have[tried] - 1) + 1 = have[tried] /\ have[tried] \in 0..size
      BY <2>4, SizeAssumption DEF TypeOK
    <3> QED
      BY <2>4, <3>1, <2>3
  <2>5. CASE have[tried] < size /\ NextChunk(OffsetNoRange)
    <3>1. OffsetNoRange \in 0..size
      BY EndInRange, SizeAssumption DEF OffsetNoRange, TypeOK
    <3> QED
      BY <2>5, <3>1, <2>3
  <2> QED
    BY <1>5, <2>2, <2>4, <2>5 DEF PutAnswered
<1>6. CASE PutRefused
  <2>1. /\ pc' \in {"idle", "failed"} /\ (pc' = "idle" => tried < MaxRetries)
        /\ offset' \in 0..size /\ resent' \in 0..(ChunkRetries - 1)
        /\ faults' \in 0..MaxFaults
    BY <1>6, RefusedKeeps DEF PutRefused
  <2> QED
    BY <1>6, <2>1 DEF PutRefused, TypeOK, ClientInv, ServerInv
<1>7. CASE PutUnanswered
  <2>1. /\ pc' \in {"put", "idle", "failed"} /\ (pc' = "idle" => tried < MaxRetries)
        /\ offset' \in 0..size /\ resent' \in 0..(ChunkRetries - 1)
    BY <1>7, FailAttemptKeeps, SizeAssumption, BoundAssumption DEF PutUnanswered, TypeOK
  <2>2. faults' \in 0..MaxFaults /\ UNCHANGED <<size, tried>> /\ pc = "put"
    BY <1>7, FaultKeeps DEF PutUnanswered
  <2>3. tried \in Sessions /\ offset \in 0..size /\ End \in offset..size
    BY <2>2, EndInRange DEF ClientInv, TypeOK
  <2>4. have' \in [Sessions -> 0..size] /\ stored' \in {stored, "new"} /\ ServerInv'
    <3>1. ASSUME NEW k \in offset..End, Receive(tried, offset, k)
          PROVE  have' \in [Sessions -> 0..size] /\ stored' \in {stored, "new"} /\ ServerInv'
      <4>1. k \in 0..size
        BY <2>3, SizeAssumption DEF TypeOK
      <4> QED
        BY <2>2, <2>3, <3>1, <4>1, ReceiveKeeps
    <3>2. CASE UNCHANGED <<have, stored>>
      BY <2>2, <3>2 DEF ServerInv, TypeOK
    <3> QED
      BY <1>7, <3>1, <3>2 DEF PutUnanswered
  <2>5. late' \subseteq late \cup {[session |-> tried, from |-> offset, to |-> End]}
    BY <1>7 DEF PutUnanswered
  <2>6. End \in 0..size
    BY <2>3, SizeAssumption DEF TypeOK
  <2>7. late' \subseteq [session : Sessions \cup {Whole}, from : 0..size, to : 0..size]
    BY <2>3, <2>5, <2>6 DEF TypeOK
  <2>8. TypeOK'
    BY <2>1, <2>2, <2>4, <2>7 DEF TypeOK
  <2> QED
    BY <2>1, <2>2, <2>4, <2>8 DEF ClientInv
<1>8. CASE LateArrives
  <2>1. PICK r \in late :
          /\ late' = late \ {r}
          /\ IF r.session = Whole
             THEN stored' = "new" /\ UNCHANGED have
             ELSE \E k \in r.from..r.to : Receive(r.session, r.from, k)
          /\ UNCHANGED <<size, client, tried, faults>>
    BY <1>8 DEF LateArrives
  <2>2. r.session \in Sessions \cup {Whole} /\ r.from \in 0..size /\ r.to \in 0..size
    BY DEF TypeOK
  <2>3. have' \in [Sessions -> 0..size] /\ stored' \in {stored, "new"} /\ ServerInv'
    <3>1. CASE r.session = Whole
      BY <2>1, <3>1 DEF TypeOK, ServerInv
    <3>2. ASSUME r.session # Whole, NEW k \in r.from..r.to, Receive(r.session, r.from, k)
          PROVE  have' \in [Sessions -> 0..size] /\ stored' \in {stored, "new"} /\ ServerInv'
      <4>1. k \in 0..size /\ r.session \in Sessions
        BY <2>2, <3>2, SizeAssumption DEF TypeOK
      <4> QED
        BY <2>1, <2>2, <3>2, <4>1, ReceiveKeeps
    <3> QED
      BY <2>1, <3>1, <3>2
  <2> QED
    BY <2>1, <2>3 DEF client, TypeOK, ClientInv
<1> QED
  BY <1>1, <1>2, <1>3, <1>4, <1>5, <1>6, <1>7, <1>8 DEF Next, Put

LEMMA UploadInvariant == Spec => []UploadInv
<1>1. UploadInv /\ UNCHANGED vars => UploadInv'
  BY DEF vars, client, UploadInv, TypeOK, ClientInv, ServerInv, Sessions
<1> QED
  BY <1>1, InitUploadInv, StepUploadInv, PTL DEF Spec

\* Every variable of an upload, client and server, keeps its type.
THEOREM TypeCorrect == Spec => []TypeOK
BY UploadInvariant, PTL DEF UploadInv

-----------------------------------------------------------------------------
(* Upload implements AtomicUpload.                                         *)

LEMMA InitRefines == Init => Promise!Init
BY DEF Init, Promise!Init, Outcome

\* A step that only changes the content of the file, and that to the new one.
LEMMA ArriveRefines ==
  ASSUME Outcome' = Outcome, stored' \in {stored, "new"}
  PROVE  Promise!Arrive \/ UNCHANGED <<stored, Outcome>>
BY DEF Promise!Arrive

LEMMA ReceiveStores ==
  ASSUME NEW s, NEW from, NEW upto, Receive(s, from, upto)
  PROVE  stored' \in {stored, "new"}
BY DEF Receive

\* An attempt that ends without success goes on or gives up.
LEMMA EndsRefines ==
  ASSUME Outcome = "running", pc' \in {"idle", "put", "failed"}, stored' \in {stored, "new"}
  PROVE  Promise!Arrive \/ Promise!GiveUp \/ UNCHANGED <<stored, Outcome>>
BY DEF Promise!Arrive, Promise!GiveUp, Outcome

LEMMA StepRefines ==
  ASSUME UploadInv, [Next]_vars
  PROVE  [Promise!Arrive \/ Promise!Succeed \/ Promise!GiveUp]_<<stored, Outcome>>
<1> USE DEF UploadInv
<1>1. CASE UNCHANGED vars
  BY <1>1 DEF vars, client, Outcome
<1>2. CASE Attempt
  BY <1>2 DEF Attempt, Goto, Outcome
<1>3. CASE SendWhole
  <2>1. Outcome = "running" /\ stored' \in {stored, "new"}
    BY <1>3 DEF SendWhole, Outcome
  <2>2. (pc' = "ok" /\ stored' = "new") \/ pc' \in {"idle", "put", "failed"}
    BY <1>3, FailAttemptKeeps DEF SendWhole, Refused, Goto
  <2>3. CASE pc' = "ok" /\ stored' = "new"
    BY <2>1, <2>3 DEF Promise!Succeed, Outcome
  <2> QED
    BY <2>1, <2>2, <2>3, EndsRefines
<1>4. CASE Initiate \/ PutRefused
  <2>1. Outcome = "running" /\ stored' \in {stored, "new"}
    BY <1>4 DEF Initiate, PutRefused, Outcome
  <2>2. pc' \in {"idle", "put", "failed"}
    BY <1>4, FailAttemptKeeps DEF Initiate, PutRefused, Refused, Goto
  <2> QED
    BY <2>1, <2>2, EndsRefines
<1>5. ASSUME NEW k \in 0..size, PutTaken(k)
      PROVE  Promise!Arrive \/ UNCHANGED <<stored, Outcome>>
  <2>1. Outcome' = Outcome
    BY <1>5 DEF PutTaken, Goto, Outcome
  <2>2. stored' \in {stored, "new"}
    BY <1>5, ReceiveStores DEF PutTaken
  <2> QED
    BY <2>1, <2>2, ArriveRefines
<1>6. CASE PutAnswered
  <2>1. Outcome = "running" /\ UNCHANGED stored
    BY <1>6 DEF PutAnswered, Outcome
  <2>2. CASE have[tried] = size /\ Goto("ok")
    <3>1. stored = "new"
      BY <1>6, <2>2 DEF PutAnswered, ClientInv, ServerInv
    <3> QED
      BY <2>1, <2>2, <3>1 DEF Goto, Promise!Succeed, Outcome
  <2>3. CASE \E next : NextChunk(next)
    <3>1. pc' \in {"idle", "put", "failed"}
      BY <2>3 DEF NextChunk, Ended
    <3> QED
      BY <2>1, <3>1, EndsRefines
  <2> QED
    BY <1>6, <2>2, <2>3 DEF PutAnswered
<1>7. CASE PutUnanswered
  <2>1. Outcome = "running"
    BY <1>7 DEF PutUnanswered, Outcome
  <2>2. stored' \in {stored, "new"}
    BY <1>7, ReceiveStores DEF PutUnanswered
  <2>3. pc' \in {"idle", "put", "failed"}
    BY <1>7, FailAttemptKeeps DEF PutUnanswered
  <2> QED
    BY <2>1, <2>2, <2>3, EndsRefines
<1>8. CASE LateArrives
  <2>1. Outcome' = Outcome
    BY <1>8 DEF LateArrives, client, Outcome
  <2>2. stored' \in {stored, "new"}
    BY <1>8, ReceiveStores DEF LateArrives
  <2> QED
    BY <2>1, <2>2, ArriveRefines
<1> QED
  BY <1>1, <1>2, <1>3, <1>4, <1>5, <1>6, <1>7, <1>8 DEF Next, Put

\* Whatever the length of the content and of a chunk, and however requests are
\* lost, repeated, cut short or delayed, the cloud shows the old content or
\* all of the new one, and success means the new one.
THEOREM Implements == Spec => UploadIsAtomic
<1>1. UploadInv /\ [Next]_vars
        => [Promise!Arrive \/ Promise!Succeed \/ Promise!GiveUp]_<<stored, Outcome>>
  BY StepRefines
<1> QED
  BY <1>1, InitRefines, UploadInvariant, PTL DEF Spec, UploadIsAtomic, Promise!Spec
===============================================================================
