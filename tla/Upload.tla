-------------------------------- MODULE Upload --------------------------------
(***************************************************************************)
(* One write on its way to Drive Kit: _upload_one (clawfuse/writebuf.py)   *)
(* with its retries, and the two ways in which the client sends a content  *)
(* (clawfuse/client.py): one multipart request up to the cut-off, above it *)
(* a resumable session with one PUT per chunk.                             *)
(*                                                                         *)
(* The network loses requests and answers, and a request whose answer the  *)
(* client no longer waits for may still reach the server later.  The       *)
(* server keeps, per session, a prefix of the content; it may take less of *)
(* a chunk than was sent and may answer 308 with or without a Range.       *)
(***************************************************************************)
EXTENDS Naturals

CONSTANTS
  Sizes,         \* lengths of the content
  Cutoff,        \* _upload_cutoff
  Chunk,         \* _upload_chunk_size
  ChunkRetries,  \* max_chunk_retries
  MaxRetries,    \* max_retries of the write buffer
  MaxFaults      \* bound: requests without an answer

ASSUME SizeAssumption == Sizes \subseteq Nat /\ Cutoff \in Nat /\ Chunk \in Nat \ {0}
ASSUME BoundAssumption ==
  ChunkRetries \in Nat \ {0} /\ MaxRetries \in Nat \ {0} /\ MaxFaults \in Nat

VARIABLES
  size,     \* length of the content
  pc,       \* "idle", "whole", "initiate", "put", "answer", "ok" or "failed"
  tried,    \* attempts begun, and the number of the current session
  offset,   \* first byte of the next chunk
  resent,   \* failed tries of the current chunk
  have,     \* server: session -> length of the prefix it holds
  stored,   \* server: "old" or "new", the content of the file
  late,     \* requests the server may still receive
  faults

client == <<pc, offset, resent>>
vars == <<size, client, tried, have, stored, late, faults>>

Sessions == 1..MaxRetries
Whole == 0       \* in late: a multipart request

TypeOK ==
  /\ size \in Sizes
  /\ pc \in {"idle", "whole", "initiate", "put", "answer", "ok", "failed"}
  /\ tried \in 0..MaxRetries
  /\ offset \in 0..size /\ resent \in 0..(ChunkRetries - 1)
  /\ have \in [Sessions -> 0..size]
  /\ stored \in {"old", "new"}
  /\ late \subseteq [session : Sessions \cup {Whole}, from : 0..size, to : 0..size]
  /\ faults \in 0..MaxFaults

Init ==
  /\ size \in Sizes
  /\ pc = "idle" /\ tried = 0 /\ offset = 0 /\ resent = 0
  /\ have = [s \in Sessions |-> 0]
  /\ stored = "old" /\ late = {} /\ faults = 0

-----------------------------------------------------------------------------
(* The server.                                                             *)

\* It takes the bytes from..(upto - 1) of the content into session s; the last
\* byte makes it the content of the file.
Receive(s, from, upto) ==
  /\ have' = [have EXCEPT ![s] = IF from <= @ /\ upto > @ THEN upto ELSE @]
  /\ stored' = IF have'[s] = size THEN "new" ELSE stored

LateArrives ==
  \E r \in late :
    /\ late' = late \ {r}
    /\ IF r.session = Whole
       THEN stored' = "new" /\ UNCHANGED have
       ELSE \E k \in r.from..r.to : Receive(r.session, r.from, k)
    /\ UNCHANGED <<size, client, tried, faults>>

-----------------------------------------------------------------------------
(* _upload_one and its callers                                             *)

Goto(point) == pc' = point /\ UNCHANGED <<offset, resent>>

Attempt ==
  /\ pc = "idle"
  /\ tried' = tried + 1
  /\ Goto(IF size > Cutoff THEN "initiate" ELSE "whole")
  /\ UNCHANGED <<size, have, stored, late, faults>>

\* The write goes back to pending, or is given up after max_retries.
FailAttempt ==
  /\ pc' = IF tried < MaxRetries THEN "idle" ELSE "failed"
  /\ offset' = 0 /\ resent' = 0

\* No answer: connection error or time-out.
Fault == faults < MaxFaults /\ faults' = faults + 1

\* An error status; a write whose file is gone (404) is given up at once.
Refused == Fault /\ (FailAttempt \/ Goto("failed"))

\* update_file
SendWhole ==
  /\ pc = "whole"
  /\ \/ Goto("ok") /\ stored' = "new" /\ UNCHANGED <<late, faults>>
     \/ Refused /\ UNCHANGED <<stored, late>>
     \/ Fault /\ FailAttempt /\ stored' \in {stored, "new"} /\ UNCHANGED late
     \/ Fault /\ FailAttempt /\ UNCHANGED stored
        /\ late' = late \cup {[session |-> Whole, from |-> 0, to |-> size]}
  /\ UNCHANGED <<size, tried, have>>

\* _initiate_resumable; a session nobody knows of is of no consequence
Initiate ==
  /\ pc = "initiate"
  /\ \/ Goto("put") /\ UNCHANGED faults
     \/ Refused
  /\ UNCHANGED <<size, tried, have, stored, late>>

-----------------------------------------------------------------------------
(* _upload_chunks                                                          *)

\* Mutant: the last chunk is not cut off at the end of the content.
EndUnclipped == offset + Chunk

End == IF offset + Chunk < size THEN offset + Chunk ELSE size

\* Mutants: a 308 without Range is taken for "nothing stored"; the end of the
\* loop is taken for success.
OffsetNoRangeKept == offset
EndedOk == "ok"

OffsetNoRange == End

\* The loop ends without a final answer: DriveKitError(500).
Ended == IF tried < MaxRetries THEN "idle" ELSE "failed"

\* offset = int(last byte of the Range) + 1, or end; then the next chunk
NextChunk(next) ==
  /\ offset' = IF next < size THEN next ELSE 0
  /\ pc' = IF next < size THEN "put" ELSE Ended
  /\ resent' = 0

\* The server takes the bytes of a PUT that are before upto ...
PutTaken(upto) ==
  /\ pc = "put" /\ upto \in offset..End
  /\ Receive(tried, offset, upto)
  /\ Goto("answer")
  /\ UNCHANGED <<size, tried, late, faults>>

\* ... and answers: with the file when it has all of them, else with 308.
PutAnswered ==
  /\ pc = "answer"
  /\ \/ have[tried] = size /\ Goto("ok")
     \/ have[tried] \in 1..(size - 1) /\ NextChunk((have[tried] - 1) + 1)
     \/ have[tried] < size /\ NextChunk(OffsetNoRange)
  /\ UNCHANGED <<size, tried, have, stored, late, faults>>

\* Any status that is neither 308 nor success: the session is closed or
\* expired, the chunk does not follow on, 401.
PutRefused ==
  /\ pc = "put" /\ Refused
  /\ UNCHANGED <<size, tried, have, stored, late>>

\* No answer: the same chunk again after a pause, the third time is the last.
PutUnanswered ==
  /\ pc = "put" /\ Fault
  /\ IF resent = ChunkRetries - 1
     THEN FailAttempt
     ELSE resent' = resent + 1 /\ UNCHANGED <<pc, offset>>
  /\ \/ \E k \in offset..End : Receive(tried, offset, k) /\ UNCHANGED late
     \/ /\ late' = late \cup {[session |-> tried, from |-> offset, to |-> End]}
        /\ UNCHANGED <<have, stored>>
  /\ UNCHANGED <<size, tried>>

Put == PutRefused \/ PutUnanswered \/ PutAnswered \/ \E k \in 0..size : PutTaken(k)

Next == Attempt \/ SendWhole \/ Initiate \/ Put \/ LateArrives

Spec == Init /\ [][Next]_vars

\* The client goes on, requests end by an answer or their time-out, and a
\* server that is sent a chunk over and over takes all of it in the end.
FairSpec ==
  /\ Spec
  /\ WF_vars(Attempt \/ SendWhole \/ Initiate \/ Put)
  /\ SF_vars(PutTaken(End) /\ offset <= have[tried])

-----------------------------------------------------------------------------
(* Properties.                                                             *)

Outcome == IF pc \in {"ok", "failed"} THEN pc ELSE "running"

Promise == INSTANCE AtomicUpload WITH outcome <- Outcome

\* The cloud never shows a part of the content, and _upload_one reports
\* success, on which the only copy on disk is deleted, only when all of it has
\* arrived: through chunks that are taken in part, sent twice or arrive late.
UploadIsAtomic == Promise!Spec

\* Every upload ends, though the server moves the offset back and forth.
UploadEnds == <>(pc \in {"ok", "failed"})
===============================================================================
