---------------------------- MODULE TokenGateProofs ----------------------------
(***************************************************************************)
(* Theorems about TokenGate, for any number of threads, tokens and slots.  *)
(***************************************************************************)
EXTENDS TokenGate, FiniteSetTheorems, TLAPS

\* What is sent, or put in place of the token, is a token; so is the token once
\* a call has looked at it, and it stays one.
TokenInv ==
  /\ mode = "config" \/ dead => token # None
  /\ \A t \in Threads :
       /\ pc[t] \in {"take", "http", "force", "forced", "mark"} => token # None
       /\ pc[t] = "store" => raw[t] # None
       /\ pc[t] \in {"http", "mark"} => sent[t] # None

\* A thread alone finds the circuit open only for an expired token, and then
\* keeps that token in `old` until it has looked for a new one; past the gate
\* the circuit is closed, and the token it sends stays the one in use.
AloneThread(t) ==
  /\ pc[t] \in {"enter", "auth", "take", "http", "force", "forced", "mark"} => ~dead
  /\ pc[t] \in {"read", "store"} /\ then[t] # "revived" => ~dead
  /\ pc[t] = "gate" /\ dead => token < valid
  /\ pc[t] = "revive" => token # None /\ token < valid
  /\ pc[t] \in {"read", "store"} /\ then[t] = "revived" =>
       token # None /\ old[t] = token /\ token < valid
  /\ pc[t] = "revived" => old[t] # None /\ old[t] < valid
  /\ pc[t] \in {"http", "mark"} => sent[t] = token
  /\ pc[t] = "mark" => sent[t] < valid

AloneInv ==
  alone =>
    /\ \A t, v \in Threads : pc[t] # "idle" /\ pc[v] # "idle" => t = v
    /\ Quiet /\ dead => token < valid
    /\ \A t \in Threads : AloneThread(t)

\* While the source is good and left alone, a thread alone that has read it
\* uses its token, and no such token is condemned.
CalmThread(t) ==
  /\ pc[t] = "store" => raw[t] = source
  /\ pc[t] \in {"revived", "forced"} => token = source
  /\ again[t] /\ pc[t] \in {"auth", "take", "http"} => token = source
  /\ pc[t] # "mark"

CalmInv ==
  \A t \in Threads : calm[t] => SourceGood /\ (alone => CalmThread(t))

\* A call has no result before its end, and is in its retry only after a 401.
ResultInv ==
  \A t \in Threads :
    /\ pc[t] # "idle" => result[t] = "none"
    /\ again[t] => \/ pc[t] \in {"auth", "take", "http", "mark"}
                   \/ pc[t] \in {"read", "store"} /\ then[t] = "take"

GateInv ==
  TypeOK /\ SlotsKept /\ TokenInv /\ AloneInv /\ CalmInv /\ ResultInv

-----------------------------------------------------------------------------
(* The variables of the threads.                                           *)

ThreadTypeOK ==
  /\ pc \in [Threads -> Points] /\ again \in [Threads -> BOOLEAN]
  /\ {old, raw, sent} \subseteq [Threads -> Tokens \cup {None}]
  /\ then \in [Threads -> {"revived", "forced", "take"}]
  /\ result \in [Threads -> {"none", "ok", "error", "refused"}]

ManagerTypeOK ==
  /\ mode \in Modes /\ dead \in BOOLEAN /\ stale \in BOOLEAN
  /\ {token, source} \subseteq Tokens \cup {None}
  /\ newest \in Tokens /\ valid \in 0..MaxTokens + 1
  /\ calm \in [Threads -> BOOLEAN] /\ alone \in BOOLEAN

LEMMA TypeParts ==
  TypeOK <=> ThreadTypeOK /\ ManagerTypeOK /\ slots \in 0..MaxConcurrent
BY DEF TypeOK, ThreadTypeOK, ManagerTypeOK

LEMMA EndTypes ==
  ASSUME ThreadTypeOK, NEW t \in Threads,
         NEW how \in {"none", "ok", "error", "refused"}, End(t, how)
  PROVE  ThreadTypeOK'
BY DEF ThreadTypeOK, End, Goto, Points

\* A step of a thread ends its call or sends it on.
LEMMA StepTypes ==
  ASSUME TypeOK, TokenInv, NEW t \in Threads, Call(t) \/ Step(t)
  PROVE  ThreadTypeOK' /\ ManagerTypeOK'
<1>0. ThreadTypeOK /\ ManagerTypeOK
  BY TypeParts
<1> USE <1>0
<1>1. CASE Call(t)
  BY <1>1 DEF Call, Goto, ThreadTypeOK, ManagerTypeOK, Points, manager, outside, tvars, SourceGood
<1>2. CASE Gate(t) \/ Enter(t)
  BY <1>2 DEF Gate, Enter, Goto, ThreadTypeOK, ManagerTypeOK, Points, Inside, manager,
      outside, tvars, ghosts
<1>3. CASE ReadSource(t)
  <2>1. ManagerTypeOK'
    BY <1>3 DEF ReadSource, ManagerTypeOK, manager, outside, ghosts
  <2>2. ThreadTypeOK'
    BY <1>3, EndTypes DEF ReadSource, Goto, ThreadTypeOK, ManagerTypeOK, Points, Inside, tvars
  <2> QED
    BY <2>1, <2>2
<1>4. CASE Store(t)
  BY <1>4 DEF Store, Goto, ThreadTypeOK, ManagerTypeOK, Points, Inside, outside, tvars, ghosts
<1>5. CASE Revive(t)
  BY <1>5 DEF Revive, ReadAndGoto, Goto, ThreadTypeOK, ManagerTypeOK, Points, Inside, manager,
      outside, ghosts
<1>6. CASE Revived(t)
  <2>1. ManagerTypeOK'
    BY <1>6 DEF Revived, ManagerTypeOK, outside, ghosts
  <2>2. ThreadTypeOK'
    BY <1>6, EndTypes DEF Revived, Goto, ThreadTypeOK, Points, tvars
  <2> QED
    BY <2>1, <2>2
<1>7. CASE Auth(t)
  <2>1. ManagerTypeOK'
    BY <1>7 DEF Auth, ManagerTypeOK, manager, outside, ghosts
  <2>2. ThreadTypeOK'
    BY <1>7, EndTypes DEF Auth, ReadAndGoto, Goto, ThreadTypeOK, Points, Inside, tvars
  <2> QED
    BY <2>1, <2>2
<1>8. CASE Take(t)
  BY <1>8 DEF Take, Goto, ThreadTypeOK, ManagerTypeOK, Points, Inside, manager, outside, ghosts
<1>9. CASE Answer(t)
  <2>1. ManagerTypeOK'
    BY <1>9 DEF Answer, ManagerTypeOK, manager, outside, ghosts
  <2>2. ThreadTypeOK'
    BY <1>9, EndTypes DEF Answer, After401, Goto, ThreadTypeOK, Points, Inside, tvars
  <2> QED
    BY <2>1, <2>2
<1>10. CASE ForceReread(t)
  BY <1>10 DEF ForceReread, ReadAndGoto, Goto, ThreadTypeOK, ManagerTypeOK, Points, Inside,
      outside, ghosts
<1>11. CASE Forced(t)
  BY <1>11 DEF Forced, Goto, ThreadTypeOK, ManagerTypeOK, Points, Inside, outside, ghosts
<1>12. CASE Mark(t)
  BY <1>12, EndTypes DEF Mark, ManagerTypeOK, outside, ghosts
<1> QED
  BY <1>1, <1>2, <1>3, <1>4, <1>5, <1>6, <1>7, <1>8, <1>9, <1>10, <1>11, <1>12 DEF Step

\* A step of a thread changes nothing of the others.
LEMMA StepLocal ==
  ASSUME TypeOK, NEW t \in Threads, Call(t) \/ Step(t), NEW v \in Threads \ {t}
  PROVE  /\ pc'[v] = pc[v] /\ then'[v] = then[v] /\ again'[v] = again[v]
         /\ old'[v] = old[v] /\ raw'[v] = raw[v] /\ sent'[v] = sent[v]
         /\ result'[v] = result[v]
<1>0. /\ pc \in [Threads -> Points] /\ then \in [Threads -> {"revived", "forced", "take"}]
      /\ again \in [Threads -> BOOLEAN] /\ result \in [Threads -> {"none", "ok", "error", "refused"}]
      /\ {old, raw, sent} \subseteq [Threads -> Tokens \cup {None}]
  BY DEF TypeOK
<1>1. ASSUME NEW how, End(t, how)
      PROVE  /\ pc'[v] = pc[v] /\ then'[v] = then[v] /\ again'[v] = again[v]
             /\ old'[v] = old[v] /\ raw'[v] = raw[v] /\ sent'[v] = sent[v]
             /\ result'[v] = result[v]
  BY <1>0, <1>1 DEF End, Goto
<1>2. CASE Call(t) \/ Gate(t) \/ Enter(t) \/ Store(t) \/ Take(t) \/ Forced(t)
  BY <1>0, <1>2 DEF Call, Gate, Enter, Store, Take, Forced, Goto, tvars
<1>3. CASE Revive(t) \/ ForceReread(t)
  BY <1>0, <1>3 DEF Revive, ForceReread, ReadAndGoto, Goto
<1>4. CASE ReadSource(t) \/ Revived(t)
  BY <1>0, <1>1, <1>4 DEF ReadSource, Revived, Goto, tvars
<1>5. CASE Auth(t)
  BY <1>0, <1>1, <1>5 DEF Auth, ReadAndGoto, Goto, tvars
<1>6. CASE Answer(t) \/ Mark(t)
  BY <1>0, <1>1, <1>6 DEF Answer, Mark, Goto, tvars
<1> QED
  BY <1>2, <1>3, <1>4, <1>5, <1>6 DEF Step

-----------------------------------------------------------------------------
(* The semaphore.                                                          *)

LEMMA HoldersFinite ==
  LET H == {v \in Threads : HoldsSlot(v)} IN IsFiniteSet(H) /\ Cardinality(H) \in Nat
BY GateAssumption, FS_Subset, FS_CardinalityType

LEMMA SlotsStay ==
  ASSUME SlotsKept, UNCHANGED slots,
         \A v \in Threads : HoldsSlot(v)' <=> HoldsSlot(v)
  PROVE  SlotsKept'
<1>1. {v \in Threads : HoldsSlot(v)}' = {v \in Threads : HoldsSlot(v)}
  OBVIOUS
<1> QED
  BY <1>1 DEF SlotsKept

LEMMA SlotFreed ==
  ASSUME TypeOK, SlotsKept, NEW t \in Threads, NEW how, End(t, how),
         \A v \in Threads \ {t} : HoldsSlot(v)' <=> HoldsSlot(v)
  PROVE  SlotsKept' /\ slots' \in Nat
<1> DEFINE H == {v \in Threads : HoldsSlot(v)}
<1>1. ~HoldsSlot(t)' /\ slots' = slots + FreedSlot(t) /\ slots \in Nat
  BY GateAssumption DEF TypeOK, End, Goto, HoldsSlot, Inside
<1>2. H' = H \ {t}
  BY <1>1
<1>3. IsFiniteSet(H) /\ Cardinality(H) \in Nat
  BY HoldersFinite
<1>4. Cardinality(H \ {t}) = IF t \in H THEN Cardinality(H) - 1 ELSE Cardinality(H)
  BY <1>3, FS_RemoveElement
<1>5. FreedSlot(t) = IF t \in H THEN 1 ELSE 0
  BY DEF FreedSlot
<1>6. slots + Cardinality(H) = MaxConcurrent
  BY DEF SlotsKept
<1>7. slots' + Cardinality(H') = MaxConcurrent /\ slots' \in Nat
  <2> HIDE DEF H
  <2> QED
    BY <1>1, <1>2, <1>3, <1>4, <1>5, <1>6
<1> QED
  BY <1>7 DEF SlotsKept

LEMMA SlotTaken ==
  ASSUME TypeOK, SlotsKept, NEW t \in Threads, Enter(t),
         \A v \in Threads \ {t} : HoldsSlot(v)' <=> HoldsSlot(v)
  PROVE  SlotsKept' /\ slots' \in Nat
<1> DEFINE H == {v \in Threads : HoldsSlot(v)}
<1>1. /\ HoldsSlot(t)' /\ ~HoldsSlot(t)
      /\ slots' = slots - 1 /\ slots \in Nat /\ slots > 0
  BY GateAssumption DEF TypeOK, Enter, Goto, HoldsSlot, Inside, tvars
<1>2. H' = H \cup {t} /\ t \notin H
  BY <1>1
<1>3. IsFiniteSet(H) /\ Cardinality(H) \in Nat
  BY HoldersFinite
<1>4. Cardinality(H \cup {t}) = Cardinality(H) + 1
  BY <1>2, <1>3, FS_AddElement
<1>5. slots + Cardinality(H) = MaxConcurrent
  BY DEF SlotsKept
<1>6. slots' + Cardinality(H') = MaxConcurrent /\ slots' \in Nat
  <2> HIDE DEF H
  <2> QED
    BY <1>1, <1>2, <1>3, <1>4, <1>5
<1> QED
  BY <1>6 DEF SlotsKept

LEMMA StepSlots ==
  ASSUME TypeOK, SlotsKept, NEW t \in Threads, Call(t) \/ Step(t)
  PROVE  SlotsKept' /\ slots' \in Nat
<1>0. /\ pc \in [Threads -> Points] /\ then \in [Threads -> {"revived", "forced", "take"}]
      /\ slots \in Nat
  BY GateAssumption DEF TypeOK
<1>1. \A v \in Threads \ {t} : HoldsSlot(v)' <=> HoldsSlot(v)
  BY StepLocal DEF HoldsSlot
<1>2. ASSUME UNCHANGED slots, HoldsSlot(t)' <=> HoldsSlot(t) PROVE SlotsKept' /\ slots' \in Nat
  BY <1>0, <1>1, <1>2, SlotsStay
<1>3. ASSUME NEW how, End(t, how) PROVE SlotsKept' /\ slots' \in Nat
  BY <1>1, <1>3, SlotFreed
<1>4. CASE Enter(t)
  BY <1>1, <1>4, SlotTaken
<1>5. CASE Call(t) \/ Gate(t) \/ Store(t) \/ Take(t) \/ Forced(t)
  <2>1. UNCHANGED slots /\ (HoldsSlot(t)' <=> HoldsSlot(t))
    BY <1>0, <1>5 DEF Call, Gate, Store, Take, Forced, Goto, tvars, HoldsSlot, Inside
  <2> QED
    BY <1>2, <2>1
<1>6. CASE Revive(t) \/ ForceReread(t)
  <2>1. UNCHANGED slots /\ (HoldsSlot(t)' <=> HoldsSlot(t))
    BY <1>0, <1>6 DEF Revive, ForceReread, ReadAndGoto, Goto, HoldsSlot, Inside
  <2> QED
    BY <1>2, <2>1
<1>7. CASE ReadSource(t)
  <2>1. (UNCHANGED slots /\ (HoldsSlot(t)' <=> HoldsSlot(t))) \/ End(t, "refused")
    BY <1>0, <1>7 DEF ReadSource, Goto, tvars, HoldsSlot, Inside
  <2> QED
    BY <1>2, <1>3, <2>1
<1>8. CASE Revived(t)
  <2>1. (UNCHANGED slots /\ (HoldsSlot(t)' <=> HoldsSlot(t))) \/ End(t, "refused")
    BY <1>0, <1>8 DEF Revived, Goto, tvars, HoldsSlot, Inside
  <2> QED
    BY <1>2, <1>3, <2>1
<1>9. CASE Auth(t)
  <2>1. (UNCHANGED slots /\ (HoldsSlot(t)' <=> HoldsSlot(t))) \/ End(t, "refused")
    BY <1>0, <1>9 DEF Auth, ReadAndGoto, Goto, tvars, HoldsSlot, Inside
  <2> QED
    BY <1>2, <1>3, <2>1
<1>10. CASE Answer(t) \/ Mark(t)
  <2>1. (UNCHANGED slots /\ (HoldsSlot(t)' <=> HoldsSlot(t))) \/ \E how : End(t, how)
    BY <1>0, <1>10 DEF Answer, After401, Mark, Goto, tvars, HoldsSlot, Inside
  <2> QED
    BY <1>2, <1>3, <2>1
<1> QED
  BY <1>4, <1>5, <1>6, <1>7, <1>8, <1>9, <1>10 DEF Step

-----------------------------------------------------------------------------
(* Tokens.                                                                 *)

LEMMA StepTokens ==
  ASSUME TypeOK, TokenInv, NEW t \in Threads, Call(t) \/ Step(t)
  PROVE  TokenInv'
<1>0. /\ pc \in [Threads -> Points] /\ then \in [Threads -> {"revived", "forced", "take"}]
      /\ again \in [Threads -> BOOLEAN] /\ mode \in {"file", "config"}
      /\ {old, raw, sent} \subseteq [Threads -> Tokens \cup {None}]
  BY GateAssumption DEF TypeOK
<1>1. \A v \in Threads \ {t} : pc'[v] = pc[v] /\ raw'[v] = raw[v] /\ sent'[v] = sent[v]
  BY StepLocal
<1>2. ASSUME token # None => token' # None,
             mode' = mode /\ (dead' => dead \/ token' # None),
             pc'[t] \in {"take", "http", "force", "forced", "mark"} => token' # None,
             pc'[t] = "store" => raw'[t] # None,
             pc'[t] \in {"http", "mark"} => sent'[t] # None
      PROVE  TokenInv'
  BY <1>1, <1>2 DEF TokenInv
<1>3. ASSUME NEW how, End(t, how) PROVE pc'[t] = "idle"
  BY <1>0, <1>3 DEF End, Goto
<1>4. CASE Call(t) \/ Gate(t) \/ Enter(t) \/ Take(t) \/ Forced(t)
  BY <1>0, <1>2, <1>4 DEF Call, Gate, Enter, Take, Forced, Goto, manager, tvars, TokenInv
<1>5. CASE Store(t)
  BY <1>0, <1>2, <1>5 DEF Store, Goto, tvars, TokenInv
<1>6. CASE Revive(t) \/ ForceReread(t)
  BY <1>0, <1>2, <1>6 DEF Revive, ForceReread, ReadAndGoto, Goto, manager, TokenInv
<1>7. CASE ReadSource(t)
  BY <1>0, <1>2, <1>3, <1>7 DEF ReadSource, Goto, manager, tvars, TokenInv
<1>8. CASE Revived(t)
  BY <1>0, <1>2, <1>3, <1>8 DEF Revived, Goto, tvars, TokenInv
<1>9. CASE Auth(t)
  BY <1>0, <1>2, <1>3, <1>9 DEF Auth, ReadAndGoto, Goto, manager, tvars, TokenInv
<1>10. CASE Answer(t)
  BY <1>0, <1>2, <1>3, <1>10 DEF Answer, After401, Goto, manager, tvars, TokenInv
<1>11. CASE Mark(t)
  BY <1>0, <1>2, <1>3, <1>11 DEF Mark, TokenInv
<1> QED
  BY <1>4, <1>5, <1>6, <1>7, <1>8, <1>9, <1>10, <1>11 DEF Step

-----------------------------------------------------------------------------
(* A thread alone.                                                         *)

\* While calls do not overlap, whoever takes a step is the only one inside.
LEMMA OthersIdle ==
  ASSUME TypeOK, AloneInv, NEW t \in Threads, Call(t) \/ Step(t), alone'
  PROVE  /\ alone /\ AloneThread(t)
         /\ \A v \in Threads \ {t} : pc[v] = "idle" /\ pc'[v] = "idle"
<1>1. CASE Call(t)
  <2>1. alone /\ \A v \in Threads \ {t} : pc[v] = "idle"
    BY <1>1 DEF Call, TypeOK
  <2> QED
    BY <1>1, <2>1, StepLocal DEF AloneInv
<1>2. CASE Step(t)
  <2>1. alone /\ pc[t] # "idle"
    BY <1>2 DEF Step, Gate, Enter, ReadSource, Store, Revive, Revived, Auth, Take, Answer,
        ForceReread, Forced, Mark, ghosts
  <2> QED
    BY <1>2, <2>1, StepLocal DEF AloneInv
<1> QED
  BY <1>1, <1>2

LEMMA StepAlone ==
  ASSUME TypeOK, TokenInv, AloneInv, NEW t \in Threads, Call(t) \/ Step(t)
  PROVE  AloneInv'
<1> SUFFICES ASSUME alone' PROVE AloneInv'
  BY DEF AloneInv
<1>0. /\ pc \in [Threads -> Points] /\ then \in [Threads -> {"revived", "forced", "take"}]
      /\ again \in [Threads -> BOOLEAN] /\ mode \in {"file", "config"} /\ dead \in BOOLEAN
      /\ {old, raw, sent} \subseteq [Threads -> Tokens \cup {None}]
  BY GateAssumption DEF TypeOK
<1>1. /\ alone /\ AloneThread(t)
      /\ \A v \in Threads \ {t} : pc[v] = "idle" /\ pc'[v] = "idle"
  BY OthersIdle
<1>2. ASSUME AloneThread(t)', pc'[t] = "idle" /\ dead' => token' < valid' PROVE AloneInv'
  BY <1>1, <1>2 DEF AloneInv, AloneThread, Quiet
<1>3. ASSUME NEW how, End(t, how), dead' => token' < valid' PROVE AloneInv'
  <2>1. pc'[t] = "idle"
    BY <1>0, <1>3 DEF End, Goto
  <2> QED
    BY <1>2, <1>3, <2>1 DEF AloneThread
<1>4. CASE Call(t)
  <2>1. dead => token < valid
    BY <1>1, <1>4 DEF Call, AloneInv, Quiet
  <2> QED
    BY <1>0, <1>2, <1>4, <2>1 DEF Call, Goto, manager, outside, tvars, AloneThread
<1>5. CASE Gate(t)
  BY <1>0, <1>1, <1>2, <1>5 DEF Gate, Goto, manager, outside, tvars, AloneThread, TokenInv
<1>6. CASE Enter(t) \/ Take(t) \/ Forced(t)
  BY <1>0, <1>1, <1>2, <1>6 DEF Enter, Take, Forced, Goto, manager, outside, tvars, AloneThread
<1>7. CASE Store(t)
  BY <1>0, <1>1, <1>2, <1>7 DEF Store, Goto, outside, tvars, AloneThread
<1>8. CASE Revive(t) \/ ForceReread(t)
  BY <1>0, <1>1, <1>2, <1>8 DEF Revive, ForceReread, ReadAndGoto, Goto, manager, outside,
      AloneThread
<1>9. CASE ReadSource(t)
  <2>1. dead => token < valid
    BY <1>1, <1>9 DEF ReadSource, AloneThread
  <2>2. CASE End(t, "refused")
    BY <1>3, <1>9, <2>1, <2>2 DEF ReadSource, manager, outside
  <2>3. CASE ~End(t, "refused")
    BY <1>0, <1>1, <1>2, <1>9, <2>3 DEF ReadSource, Goto, manager, outside, tvars, AloneThread
  <2> QED
    BY <2>2, <2>3
<1>10. CASE Revived(t)
  <2>1. CASE ~Changed(t) /\ End(t, "refused") /\ UNCHANGED dead
    BY <1>1, <1>3, <1>10, <2>1 DEF Revived, Changed, outside, AloneThread
  <2>2. CASE dead' = FALSE /\ Goto(t, "enter") /\ UNCHANGED <<slots, tvars, result>>
    BY <1>0, <1>1, <1>2, <1>10, <2>2 DEF Revived, Goto, outside, tvars, AloneThread
  <2> QED
    BY <1>10, <2>1, <2>2 DEF Revived
<1>11. CASE Auth(t)
  <2>1. ~dead
    BY <1>1, <1>11 DEF Auth, AloneThread
  <2> QED
    BY <1>0, <1>1, <1>2, <1>11, <2>1 DEF Auth, ReadAndGoto, Goto, manager, outside, tvars,
       AloneThread
<1>12. CASE Answer(t)
  <2>1. ~dead /\ UNCHANGED <<token, dead, valid>>
    BY <1>1, <1>12 DEF Answer, AloneThread, manager, outside
  <2>2. CASE \E how : End(t, how)
    BY <1>3, <2>1, <2>2
  <2>3. CASE sent[t] < valid /\ Goto(t, After401(t)) /\ UNCHANGED <<slots, tvars, result>>
    BY <1>0, <1>1, <1>2, <1>12, <2>1, <2>3 DEF Answer, After401, Goto, tvars, AloneThread
  <2> QED
    BY <1>12, <2>2, <2>3 DEF Answer
<1>13. CASE Mark(t)
  BY <1>1, <1>3, <1>13 DEF Mark, outside, AloneThread
<1> QED
  BY <1>4, <1>5, <1>6, <1>7, <1>8, <1>9, <1>10, <1>11, <1>12, <1>13 DEF Step

\* With a good source a thread alone that has read it is served with its token.
LEMMA StepCalm ==
  ASSUME TypeOK, AloneInv, CalmInv, ResultInv, NEW t \in Threads, Call(t) \/ Step(t)
  PROVE  CalmInv'
<1>0. /\ pc \in [Threads -> Points] /\ then \in [Threads -> {"revived", "forced", "take"}]
      /\ again \in [Threads -> BOOLEAN] /\ calm \in [Threads -> BOOLEAN]
      /\ mode \in {"file", "config"}
      /\ {old, raw, sent} \subseteq [Threads -> Tokens \cup {None}]
      /\ {token, source} \subseteq Tokens \cup {None} /\ valid \in Nat
  BY GateAssumption DEF TypeOK
<1>1. UNCHANGED outside
  BY DEF Call, Step, Gate, Enter, ReadSource, Store, Revive, Revived, Auth, Take, Answer,
     ForceReread, Forced, Mark
<1>2. SourceGood' = SourceGood
  BY <1>1 DEF SourceGood, outside
<1>3. \A v \in Threads : calm'[v] => SourceGood'
  BY <1>0, <1>2 DEF Call, Step, Gate, Enter, ReadSource, Store, Revive, Revived, Auth, Take,
     Answer, ForceReread, Forced, Mark, ghosts, CalmInv
<1>4. ASSUME NEW v \in Threads \ {t}, alone' PROVE CalmThread(v)'
  BY <1>4, OthersIdle DEF CalmThread
<1>5. SUFFICES ASSUME alone', calm'[t] PROVE CalmThread(t)'
  BY <1>3, <1>4 DEF CalmInv
<1>6. alone /\ AloneThread(t)
  BY <1>5, OthersIdle
<1>7. ASSUME NEW how, End(t, how) PROVE CalmThread(t)'
  BY <1>0, <1>7 DEF End, Goto, CalmThread
<1>8. CASE Call(t)
  BY <1>0, <1>8 DEF Call, Goto, CalmThread
<1>9. CASE Step(t)
  <2>1. /\ calm[t] /\ SourceGood /\ CalmThread(t) /\ UNCHANGED source
    BY <1>1, <1>5, <1>6, <1>9
    DEF Step, Gate, Enter, ReadSource, Store, Revive, Revived, Auth, Take, Answer, ForceReread,
        Forced, Mark, ghosts, CalmInv, outside
  <2>2. CASE Gate(t) \/ Enter(t) \/ Take(t) \/ Forced(t)
    BY <1>0, <2>1, <2>2 DEF Gate, Enter, Take, Forced, Goto, manager, tvars, CalmThread, ResultInv
  <2>3. CASE ReadSource(t)
    BY <1>0, <2>1, <2>3 DEF ReadSource, Goto, CalmThread, SourceGood
  <2>4. CASE Store(t)
    BY <1>0, <2>1, <2>4 DEF Store, Goto, tvars, CalmThread
  <2>5. CASE Revive(t) \/ ForceReread(t)
    BY <1>0, <2>5 DEF Revive, ForceReread, ReadAndGoto, Goto, CalmThread
  <2>6. CASE Revived(t)
    BY <1>0, <1>7, <2>1, <2>6 DEF Revived, Goto, tvars, CalmThread
  <2>7. CASE Auth(t)
    BY <1>0, <1>7, <2>1, <2>7 DEF Auth, ReadAndGoto, Goto, manager, tvars, CalmThread
  <2>8. CASE Answer(t)
    <3>1. CASE again[t] /\ sent[t] < valid
      BY <1>0, <1>6, <2>1, <2>8, <3>1, GateAssumption
      DEF Answer, AloneThread, CalmThread, SourceGood, Tokens
    <3>2. CASE ~(again[t] /\ sent[t] < valid)
      BY <1>0, <1>7, <2>8, <3>2 DEF Answer, After401, Goto, CalmThread, tvars
    <3> QED
      BY <3>1, <3>2
  <2>9. CASE Mark(t)
    BY <1>7, <2>9 DEF Mark
  <2> QED
    BY <1>9, <2>2, <2>3, <2>4, <2>5, <2>6, <2>7, <2>8, <2>9 DEF Step
<1> QED
  BY <1>8, <1>9

LEMMA StepResult ==
  ASSUME TypeOK, ResultInv, NEW t \in Threads, Call(t) \/ Step(t)
  PROVE  ResultInv'
<1>0. /\ pc \in [Threads -> Points] /\ again \in [Threads -> BOOLEAN]
      /\ result \in [Threads -> {"none", "ok", "error", "refused"}]
      /\ then \in [Threads -> {"revived", "forced", "take"}]
  BY DEF TypeOK
<1>1. \A v \in Threads \ {t} : /\ pc'[v] = pc[v] /\ result'[v] = result[v]
                              /\ again'[v] = again[v] /\ then'[v] = then[v]
  BY StepLocal
<1>2. pc'[t] # "idle" => result'[t] = "none"
  <2>1. CASE Call(t)
    BY <1>0, <2>1 DEF Call
  <2>2. CASE Step(t)
    <3>1. pc[t] # "idle"
      BY <2>2 DEF Step, Gate, Enter, ReadSource, Store, Revive, Revived, Auth, Take, Answer,
         ForceReread, Forced, Mark
    <3>2. UNCHANGED result \/ \E how : End(t, how)
      BY <2>2 DEF Step, Gate, Enter, ReadSource, Store, Revive, Revived, Auth, Take, Answer,
         ForceReread, Forced, Mark
    <3>3. ASSUME NEW how, End(t, how) PROVE pc'[t] = "idle"
      BY <1>0, <3>3 DEF End, Goto
    <3> QED
      BY <3>1, <3>2, <3>3 DEF ResultInv
  <2> QED
    BY <2>1, <2>2
<1>3. again'[t] => \/ pc'[t] \in {"auth", "take", "http", "mark"}
                   \/ pc'[t] \in {"read", "store"} /\ then'[t] = "take"
  <2>0. again[t] => \/ pc[t] \in {"auth", "take", "http", "mark"}
                    \/ pc[t] \in {"read", "store"} /\ then[t] = "take"
    BY DEF ResultInv
  <2>1. ASSUME NEW how, End(t, how) PROVE ~again'[t]
    BY <1>0, <2>1 DEF End
  <2>2. CASE Call(t) \/ Gate(t) \/ Enter(t)
    <3>1. pc[t] \in {"idle", "gate", "enter"} /\ UNCHANGED again
      BY <2>2 DEF Call, Gate, Enter, tvars
    <3> QED
      BY <2>0, <3>1
  <2>3. CASE Store(t) \/ Take(t) \/ Forced(t)
    BY <1>0, <2>0, <2>3 DEF Store, Take, Forced, Goto, tvars
  <2>4. CASE Revive(t) \/ ForceReread(t)
    <3>1. pc[t] \in {"revive", "force"} /\ UNCHANGED again
      BY <2>4 DEF Revive, ForceReread
    <3> QED
      BY <2>0, <3>1
  <2>5. CASE ReadSource(t) \/ Revived(t)
    <3>1. CASE \E how : End(t, how)
      BY <2>1, <3>1
    <3>2. CASE ~\E how : End(t, how)
      BY <1>0, <2>0, <2>5, <3>2 DEF ReadSource, Revived, Goto, tvars
    <3> QED
      BY <3>1, <3>2
  <2>6. CASE Auth(t)
    <3>1. pc'[t] = "take" \/ (pc'[t] = "read" /\ then'[t] = "take") \/ End(t, "refused")
      BY <1>0, <2>6 DEF Auth, ReadAndGoto, Goto
    <3> QED
      BY <2>1, <3>1
  <2>7. CASE Answer(t) \/ Mark(t)
    <3>1. (UNCHANGED again /\ pc'[t] = After401(t)) \/ \E how : End(t, how)
      BY <1>0, <2>7 DEF Answer, Mark, Goto, tvars
    <3> QED
      BY <2>1, <3>1 DEF After401
  <2> QED
    BY <2>2, <2>3, <2>4, <2>5, <2>6, <2>7 DEF Step
<1> QED
  BY <1>1, <1>2, <1>3 DEF ResultInv

-----------------------------------------------------------------------------
(* The invariant.                                                          *)

LEMMA InitGateInv == Init => GateInv
<1> SUFFICES ASSUME Init PROVE GateInv
  OBVIOUS
<1>1. TypeOK
  <2>1. 0 \in Tokens /\ "idle" \in Points
    BY GateAssumption DEF Tokens, Points
  <2>2. valid \in 0..MaxTokens + 1 /\ slots \in 0..MaxConcurrent
    BY GateAssumption DEF Init
  <2> QED
    BY <2>1, <2>2 DEF Init, TypeOK
<1>2. SlotsKept
  <2>1. {t \in Threads : HoldsSlot(t)} = {}
    BY DEF Init, HoldsSlot, Inside
  <2>2. Cardinality({}) = 0
    BY FS_EmptySet
  <2> QED
    BY <2>1, <2>2, GateAssumption DEF Init, SlotsKept
<1>3. TokenInv /\ AloneInv /\ CalmInv /\ ResultInv
  BY GateAssumption DEF Init, TokenInv, AloneInv, AloneThread, CalmInv, ResultInv
<1> QED
  BY <1>1, <1>2, <1>3 DEF GateInv

\* Time, the server and the writer of the source only raise `valid`, and no
\* thread counts on a source that has changed.
LEMMA OutsideKeeps ==
  ASSUME GateInv, Age \/ Issue \/ Publish \/ Expire
  PROVE  GateInv'
<1> USE DEF GateInv
<1>1. UNCHANGED <<mode, token, dead, slots, pc, tvars, result, alone>>
  BY DEF Age, Issue, Publish, Expire, manager, ghosts
<1>2. valid' >= valid /\ valid' \in 0..MaxTokens + 1 /\ newest' \in Tokens
      /\ stale' \in BOOLEAN /\ source' \in Tokens \cup {None}
  <2> USE GateAssumption DEF TypeOK, Tokens
  <2>1. CASE Age
    BY <2>1 DEF Age, outside
  <2>2. CASE Issue
    BY <2>2 DEF Issue, manager
  <2>3. CASE Publish
    BY <2>3 DEF Publish, manager
  <2>4. CASE Expire
    BY <2>4 DEF Expire, manager
  <2> QED
    BY <2>1, <2>2, <2>3, <2>4
<1>3. (UNCHANGED <<calm, source, valid>>) \/ calm' = [t \in Threads |-> FALSE]
  BY DEF Age, Issue, Publish, Expire, Disturb, ghosts, outside
<1>4. TypeOK'
  BY <1>1, <1>2, <1>3 DEF TypeOK, tvars
<1>5. SlotsKept'
  <2>1. \A v \in Threads : HoldsSlot(v)' <=> HoldsSlot(v)
    BY <1>1 DEF HoldsSlot, tvars
  <2> QED
    BY <1>1, <2>1, SlotsStay
<1>6. TokenInv' /\ ResultInv'
  BY <1>1 DEF TokenInv, ResultInv, tvars
<1>7. AloneInv'
  <2>1. \A n \in Tokens \cup {None} : n # None /\ n < valid => n < valid'
    BY <1>2, GateAssumption DEF TypeOK, Tokens
  <2>2. ASSUME NEW t \in Threads, AloneThread(t) PROVE AloneThread(t)'
    BY <1>1, <2>1, <2>2 DEF AloneThread, tvars, TokenInv, TypeOK
  <2>3. Quiet' = Quiet
    BY <1>1 DEF Quiet
  <2> QED
    BY <1>1, <2>1, <2>2, <2>3 DEF AloneInv, TokenInv, TypeOK
<1>8. CalmInv'
  <2>1. CASE UNCHANGED <<calm, source, valid>>
    BY <1>1, <2>1 DEF CalmInv, CalmThread, SourceGood, tvars
  <2>2. CASE calm' = [t \in Threads |-> FALSE]
    BY <2>2 DEF CalmInv
  <2> QED
    BY <1>3, <2>1, <2>2
<1> QED
  BY <1>4, <1>5, <1>6, <1>7, <1>8

LEMMA StepGateInv == GateInv /\ [Next]_vars => GateInv'
<1> SUFFICES ASSUME GateInv, [Next]_vars PROVE GateInv'
  OBVIOUS
<1> USE DEF GateInv
<1>1. ASSUME NEW t \in Threads, Call(t) \/ Step(t) PROVE GateInv'
  <2>1. SlotsKept' /\ slots' \in Nat
    BY <1>1, StepSlots
  <2>2. slots' \in 0..MaxConcurrent
    <3>1. IsFiniteSet({v \in Threads : HoldsSlot(v)'})
          /\ Cardinality({v \in Threads : HoldsSlot(v)'}) \in Nat
      BY GateAssumption, FS_Subset, FS_CardinalityType
    <3> QED
      BY <2>1, <3>1, GateAssumption DEF SlotsKept
  <2>3. ThreadTypeOK' /\ ManagerTypeOK'
    BY <1>1, StepTypes
  <2>4. TypeOK'
    BY <2>2, <2>3 DEF TypeOK, ThreadTypeOK, ManagerTypeOK
  <2> QED
    BY <1>1, <2>1, <2>4, StepTokens, StepAlone, StepCalm, StepResult
<1>2. CASE Age \/ Issue \/ Publish \/ Expire
  BY <1>2, OutsideKeeps
<1>3. CASE UNCHANGED vars
  <2>1. UNCHANGED <<mode, token, dead, stale, slots, source, newest, valid, pc, again, old, raw,
                    then, sent, result, calm, alone>>
    BY <1>3 DEF vars, manager, outside, tvars, ghosts
  <2>2. SlotsKept'
    BY <2>1, SlotsStay DEF HoldsSlot
  <2> QED
    BY <2>1, <2>2 DEF TypeOK, TokenInv, AloneInv, AloneThread, Quiet, CalmInv, CalmThread,
       SourceGood, ResultInv
<1> QED
  BY <1>1, <1>2, <1>3 DEF Next

LEMMA GateInvariant == Spec => []GateInv
BY InitGateInv, StepGateInv, PTL DEF Spec

\* Every variable of the client, the token manager and the source keeps its
\* type.
THEOREM TypeCorrect == Spec => []TypeOK
BY GateInvariant, PTL DEF GateInv

\* Every way out of a call gives its slot back, for any number of threads.
THEOREM SlotsKeptHolds == Spec => []SlotsKept
BY GateInvariant, PTL DEF GateInv

\* Calls that do not overlap leave the circuit open only for an expired token.
THEOREM DeadIsExpiredHolds == Spec => []DeadIsExpired
<1>1. GateInv => DeadIsExpired
  BY DEF GateInv, AloneInv, DeadIsExpired
<1> QED
  BY <1>1, GateInvariant, PTL

\* A call that is alone and finds a good source all the time is not refused.
THEOREM GoodSourceServesHolds == Spec => GoodSourceServes
<1>1. ASSUME GateInv, [Next]_vars, NEW t \in Threads,
             pc[t] # "idle", result'[t] = "refused", alone, calm[t]
      PROVE  FALSE
  <2> USE DEF GateInv
  <2>1. /\ result[t] = "none" /\ SourceGood /\ CalmThread(t) /\ AloneThread(t)
        /\ \A v \in Threads \ {t} : pc[v] = "idle"
        /\ result \in [Threads -> {"none", "ok", "error", "refused"}]
        /\ {token, source} \subseteq Tokens \cup {None} /\ valid \in Nat
        /\ old \in [Threads -> Tokens \cup {None}]
    BY <1>1, GateAssumption DEF ResultInv, CalmInv, AloneInv, TypeOK
  <2>2. CASE Step(t)
    <3>1. CASE ReadSource(t)
      BY <1>1, <2>1, <3>1 DEF ReadSource, SourceGood
    <3>2. CASE Revived(t)
      BY <1>1, <2>1, <3>2, GateAssumption DEF Revived, Changed, CalmThread, AloneThread,
         SourceGood, Tokens
    <3>3. CASE Auth(t)
      BY <1>1, <2>1, <3>3 DEF Auth, AloneThread
    <3>4. CASE Answer(t)
      BY <1>1, <2>1, <3>4 DEF Answer, End
    <3>5. CASE Mark(t)
      BY <2>1, <3>5 DEF Mark, CalmThread
    <3>6. CASE Gate(t) \/ Enter(t) \/ Store(t) \/ Revive(t) \/ Take(t) \/ ForceReread(t) \/ Forced(t)
      BY <1>1, <2>1, <3>6 DEF Gate, Enter, Store, Revive, Take, ForceReread, Forced
    <3> QED
      BY <2>2, <3>1, <3>2, <3>3, <3>4, <3>5, <3>6 DEF Step
  <2>3. ASSUME NEW v \in Threads \ {t}, Call(v) \/ Step(v) PROVE FALSE
    BY <1>1, <2>1, <2>3, StepLocal
  <2>4. CASE Call(t)
    BY <1>1, <2>4 DEF Call
  <2>5. CASE Age \/ Issue \/ Publish \/ Expire \/ UNCHANGED vars
    BY <1>1, <2>1, <2>5 DEF Age, Issue, Publish, Expire, vars
  <2> QED
    BY <1>1, <2>2, <2>3, <2>4, <2>5 DEF Next
<1>2. GateInv /\ [Next]_vars
        => [\A t \in Threads :
              pc[t] # "idle" /\ result'[t] = "refused" => ~(alone /\ calm[t])]_vars
  BY <1>1
<1> QED
  BY <1>2, GateInvariant, PTL DEF Spec, GoodSourceServes
================================================================================
