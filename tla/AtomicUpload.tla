----------------------------- MODULE AtomicUpload -----------------------------
(* What the write buffer expects of an upload: the content in the cloud is   *)
(* the old one or the whole new one, and success is reported only once it is *)
(* the new one.  An upload that is given up may still have arrived.          *)

VARIABLES
  stored,  \* "old" or "new"
  outcome  \* "running", "ok" or "failed"

Init == stored = "old" /\ outcome = "running"

Arrive == stored' = "new" /\ UNCHANGED outcome

Succeed == outcome = "running" /\ stored' = "new" /\ outcome' = "ok"

GiveUp == outcome = "running" /\ outcome' = "failed" /\ stored' \in {stored, "new"}

Spec == Init /\ [][Arrive \/ Succeed \/ GiveUp]_<<stored, outcome>>
===============================================================================
