------------------------------ MODULE TokenGate ------------------------------
(***************************************************************************)
(* The gate every Drive Kit call goes through: DriveKitClient._retry_on_401*)
(* (clawfuse/client.py) with the TokenManager (clawfuse/token.py) that it  *)
(* shares among all threads.  A call refused with 401 re-reads the token   *)
(* and is retried once; a second 401 marks the token dead, so that later   *)
(* calls fail at once, until the token source is seen to have changed.  A  *)
(* semaphore bounds the calls under way.  TokenManager has no lock.        *)
(*                                                                         *)
(* Tokens are numbered in the order an external process issues them; the   *)
(* server accepts the tokens from `valid` on.                              *)
(***************************************************************************)
EXTENDS Integers, FiniteSets

CONSTANTS
  Threads,
  None,          \* no token
  Modes,         \* "file": from_file; "config": from_string with a config file
  MaxConcurrent, \* the semaphore's initial value
  MaxTokens      \* bound: tokens issued

ASSUME GateAssumption ==
  /\ IsFiniteSet(Threads)
  /\ None \notin Nat /\ Modes \subseteq {"file", "config"}
  /\ MaxConcurrent \in Nat \ {0} /\ MaxTokens \in Nat

VARIABLES
  mode,    \* _mode, never changed
  token,   \* _token, None when empty
  dead,    \* _dead
  stale,   \* _last_read_time is more than _REREAD_INTERVAL ago
  slots,   \* value of the semaphore
  source,  \* token in the token or config file, None while it is unreadable
  newest,  \* newest token issued
  valid,   \* oldest token the server accepts
  pc,      \* thread -> control point
  again,   \* thread -> it is in the retry
  old,     \* thread -> old_token
  raw,     \* thread -> what it has read from the source
  then,    \* thread -> where it goes on after reading the source
  sent,    \* thread -> the token of its request
  result,  \* thread -> how its last call ended
  calm,    \* history: thread -> the source was good and did not change in its call
  alone    \* history: no two calls have overlapped

manager == <<mode, token, dead, stale>>
outside == <<source, newest, valid>>
tvars   == <<again, old, raw, then, sent>>
ghosts  == <<calm, alone>>
vars    == <<manager, slots, outside, pc, tvars, result, ghosts>>

Tokens == 0..MaxTokens
Inside == {"auth", "read", "store", "take", "http", "force", "forced", "mark"}
Points == {"idle", "gate", "revive", "revived", "enter"} \cup Inside

TypeOK ==
  /\ mode \in Modes /\ dead \in BOOLEAN /\ stale \in BOOLEAN
  /\ {token, source} \subseteq Tokens \cup {None}
  /\ slots \in 0..MaxConcurrent
  /\ newest \in Tokens /\ valid \in 0..MaxTokens + 1
  /\ pc \in [Threads -> Points] /\ again \in [Threads -> BOOLEAN]
  /\ {old, raw, sent} \subseteq [Threads -> Tokens \cup {None}]
  /\ then \in [Threads -> {"revived", "forced", "take"}]
  /\ result \in [Threads -> {"none", "ok", "error", "refused"}]
  /\ calm \in [Threads -> BOOLEAN] /\ alone \in BOOLEAN

Init ==
  /\ mode \in Modes
  /\ token = IF mode = "config" THEN 0 ELSE None
  /\ dead = FALSE /\ stale = (mode = "file")
  /\ slots = MaxConcurrent
  /\ source = 0 /\ newest = 0 /\ valid = 0
  /\ pc = [t \in Threads |-> "idle"] /\ again = [t \in Threads |-> FALSE]
  /\ old  = [t \in Threads |-> None] /\ raw = [t \in Threads |-> None]
  /\ then = [t \in Threads |-> "take"] /\ sent = [t \in Threads |-> None]
  /\ result = [t \in Threads |-> "none"]
  /\ calm = [t \in Threads |-> FALSE] /\ alone = TRUE

-----------------------------------------------------------------------------
Goto(t, point) == pc' = [pc EXCEPT ![t] = point]

\* Mutants: every call releases the semaphore; only an answered one does.
FreesAlways(t) == 1
KeptSlot(t) == IF pc[t] = "http" THEN 1 ELSE 0

\* with self._semaphore: the thread holds it from "auth" on, and while it
\* reads the source, unless it does that for try_revive.
HoldsSlot(t) == pc[t] \in Inside /\ ~(pc[t] \in {"read", "store"} /\ then[t] = "revived")
FreedSlot(t) == IF HoldsSlot(t) THEN 1 ELSE 0

\* The call returns or raises; "refused" is a TokenError.
End(t, how) ==
  /\ Goto(t, "idle")
  /\ result' = [result EXCEPT ![t] = how]
  /\ slots' = slots + FreedSlot(t)
  /\ again' = [again EXCEPT ![t] = FALSE] /\ old' = [old EXCEPT ![t] = None]
  /\ raw' = [raw EXCEPT ![t] = None] /\ sent' = [sent EXCEPT ![t] = None]
  /\ then' = [then EXCEPT ![t] = "take"]

SourceGood == source # None /\ source >= valid

Call(t) ==
  /\ pc[t] = "idle" /\ Goto(t, "gate")
  /\ result' = [result EXCEPT ![t] = "none"]
  /\ calm' = [calm EXCEPT ![t] = SourceGood]
  /\ alone' = (alone /\ \A v \in Threads \ {t} : pc[v] = "idle")
  /\ UNCHANGED <<manager, slots, outside, tvars>>

\* if self._token.is_dead: try_revive
Gate(t) ==
  /\ pc[t] = "gate"
  /\ Goto(t, IF dead THEN "revive" ELSE "enter")
  /\ UNCHANGED <<manager, slots, outside, tvars, result, ghosts>>

Enter(t) ==
  /\ pc[t] = "enter" /\ slots > 0
  /\ slots' = slots - 1
  /\ Goto(t, "auth")
  /\ UNCHANGED <<manager, outside, tvars, result, ghosts>>

-----------------------------------------------------------------------------
(* Reading the token: _read_token_file and _reread_config_file.            *)

ReadAndGoto(t, back) ==
  /\ Goto(t, "read")
  /\ then' = [then EXCEPT ![t] = back]

\* The file is read; if it is missing or empty _read_token_file raises, while
\* _reread_config_file only warns.
ReadSource(t) ==
  /\ pc[t] = "read"
  /\ \/ /\ source # None
        /\ Goto(t, "store")
        /\ raw' = [raw EXCEPT ![t] = source]
        /\ UNCHANGED <<slots, again, old, then, sent, result>>
     \/ /\ source = None /\ mode = "config"
        /\ Goto(t, then[t])
        /\ UNCHANGED <<slots, tvars, result>>
     \/ /\ source = None /\ mode = "file"
        /\ End(t, "refused")
  /\ UNCHANGED <<manager, outside, ghosts>>

\* self._token = ...; a config file with a new token also revives it
Store(t) ==
  /\ pc[t] = "store"
  /\ token' = raw[t]
  /\ dead'  = (dead /\ ~(mode = "config" /\ raw[t] # token))
  /\ stale' = (stale /\ mode = "config")
  /\ Goto(t, then[t])
  /\ UNCHANGED <<mode, slots, outside, tvars, result, ghosts>>

-----------------------------------------------------------------------------
(* try_revive                                                              *)

Revive(t) ==
  /\ pc[t] = "revive"
  /\ old' = [old EXCEPT ![t] = token]
  /\ ReadAndGoto(t, "revived")
  /\ UNCHANGED <<manager, slots, outside, again, raw, sent, result, ghosts>>

\* Mutant: a changed token does not close the circuit again.
Never(t) == FALSE

Changed(t) == token # old[t]

\* if self._token != old_token: self._dead = False, and the call goes on
Revived(t) ==
  /\ pc[t] = "revived"
  /\ \/ /\ Changed(t)
        /\ dead' = FALSE
        /\ Goto(t, "enter")
        /\ UNCHANGED <<slots, tvars, result>>
     \/ ~Changed(t) /\ End(t, "refused") /\ UNCHANGED dead
  /\ UNCHANGED <<mode, token, stale, outside, ghosts>>

-----------------------------------------------------------------------------
(* The request, fn(), and the retry.                                       *)

\* access_token: a dead token raises, a stale one is read again
Auth(t) ==
  /\ pc[t] = "auth"
  /\ \/ dead /\ End(t, "refused")
     \/ /\ ~dead /\ mode = "file" /\ (stale \/ token = None)
        /\ ReadAndGoto(t, "take")
        /\ UNCHANGED <<slots, again, old, raw, sent, result>>
     \/ /\ ~dead /\ ~(mode = "file" /\ (stale \/ token = None))
        /\ Goto(t, "take")
        /\ UNCHANGED <<slots, tvars, result>>
  /\ UNCHANGED <<manager, outside, ghosts>>

Take(t) ==
  /\ pc[t] = "take" /\ Goto(t, "http")
  /\ sent' = [sent EXCEPT ![t] = token]
  /\ UNCHANGED <<manager, slots, outside, again, old, raw, then, result, ghosts>>

\* Mutant: the first 401 already condemns the token.
NoRetry(t)  == "mark"

After401(t) == IF again[t] THEN "mark" ELSE "force"

\* The server answers: 401 to an expired token, else success or another error.
Answer(t) ==
  /\ pc[t] = "http"
  /\ \/ /\ sent[t] >= valid
        /\ \E how \in {"ok", "error"} : End(t, how)
     \/ /\ sent[t] < valid
        /\ Goto(t, After401(t))
        /\ UNCHANGED <<slots, tvars, result>>
  /\ UNCHANGED <<manager, outside, ghosts>>

\* force_reread
ForceReread(t) ==
  /\ pc[t] = "force"
  /\ old' = [old EXCEPT ![t] = token]
  /\ stale' = (mode = "file")
  /\ ReadAndGoto(t, "forced")
  /\ UNCHANGED <<mode, token, dead, slots, outside, again, raw, sent, result, ghosts>>

\* file mode: if self._dead and self._token != old_token: self._dead = False
Forced(t) ==
  /\ pc[t] = "forced" /\ Goto(t, "auth")
  /\ dead' = (dead /\ ~(mode = "file" /\ Changed(t)))
  /\ again' = [again EXCEPT ![t] = TRUE]
  /\ UNCHANGED <<mode, token, stale, slots, outside, old, raw, then, sent, result, ghosts>>

\* mark_dead
Mark(t) ==
  /\ pc[t] = "mark" /\ dead' = TRUE
  /\ End(t, "refused")
  /\ UNCHANGED <<mode, token, stale, outside, ghosts>>

-----------------------------------------------------------------------------
(* Outside: time, the server, and the process that refreshes the token.    *)

Disturb == calm' = [t \in Threads |-> FALSE]

Age ==
  /\ mode = "file" /\ ~stale /\ stale' = TRUE
  /\ UNCHANGED <<mode, token, dead, slots, outside, pc, tvars, result, ghosts>>

\* The writer of the file truncates it and then writes the new token.
Issue ==
  /\ newest < MaxTokens /\ newest' = newest + 1
  /\ source' = None /\ Disturb
  /\ UNCHANGED <<manager, slots, valid, pc, tvars, result, alone>>

Publish ==
  /\ source = None /\ source' = newest /\ Disturb
  /\ UNCHANGED <<manager, slots, newest, valid, pc, tvars, result, alone>>

Expire ==
  /\ valid' \in valid + 1 .. newest + 1 /\ Disturb
  /\ UNCHANGED <<manager, slots, source, newest, pc, tvars, result, alone>>

Step(t) ==
  \/ Gate(t) \/ Enter(t) \/ ReadSource(t) \/ Store(t) \/ Revive(t) \/ Revived(t)
  \/ Auth(t) \/ Take(t) \/ Answer(t) \/ ForceReread(t) \/ Forced(t) \/ Mark(t)

Next == (\E t \in Threads : Call(t) \/ Step(t)) \/ Age \/ Issue \/ Publish \/ Expire

Spec == Init /\ [][Next]_vars

-----------------------------------------------------------------------------
(* Properties.                                                             *)

\* The semaphore is given back on every way out of a call, through errors,
\* refusals and retries: a slot lost on one of them would in the end stop all
\* Drive Kit traffic.
SlotsKept ==
  slots + Cardinality({t \in Threads : HoldsSlot(t)}) = MaxConcurrent

Quiet == \A t \in Threads : pc[t] = "idle"

\* As long as calls do not overlap, the circuit is left open only when the token
\* in use has really expired: whatever the process that renews the token does
\* in the middle of a call, no token is condemned for another one.
DeadIsExpired == alone /\ Quiet /\ dead => token < valid

\* A call during which the source held an accepted token is not refused, however
\* many tokens have expired before, as long as calls do not overlap.
GoodSourceServes ==
  [][\A t \in Threads :
       pc[t] # "idle" /\ result'[t] = "refused" => ~(alone /\ calm[t])]_vars

\* The circuit never stays open with the good token of the source already in
\* use: try_revive, which looks for a change, would never close it.
NeverStuck ==
  Quiet /\ dead /\ SourceGood => token # source
=============================================================================
