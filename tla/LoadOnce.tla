------------------------------- MODULE LoadOnce -------------------------------
(***************************************************************************)
(* What the lazy directory tree promises about loading, without threads:   *)
(* a directory is fetched by nobody or by somebody, an unfetched directory *)
(* may be tried again after a failure, and the entries of a directory      *)
(* enter the index once and stay there.                                    *)
(***************************************************************************)
EXTENDS Naturals

CONSTANT Dirs

VARIABLES
  phase,   \* directory -> "absent", "fetching" or "present"
  copies   \* directory -> how often its entries are in the index

Init ==
  /\ phase  = [d \in Dirs |-> "absent"]
  /\ copies = [d \in Dirs |-> 0]

Begin(d) ==
  /\ phase[d] = "absent"
  /\ phase' = [phase EXCEPT ![d] = "fetching"]
  /\ UNCHANGED copies

Complete(d) ==
  /\ phase[d] = "fetching"
  /\ phase'  = [phase EXCEPT ![d] = "present"]
  /\ copies' = [copies EXCEPT ![d] = 1]

Abandon(d) ==
  /\ phase[d] = "fetching"
  /\ phase' = [phase EXCEPT ![d] = "absent"]
  /\ UNCHANGED copies

Next == \E d \in Dirs : Begin(d) \/ Complete(d) \/ Abandon(d)

Spec == Init /\ [][Next]_<<phase, copies>>
=============================================================================
