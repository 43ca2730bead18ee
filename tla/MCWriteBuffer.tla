---------------------------- MODULE MCWriteBuffer ----------------------------
(***************************************************************************)
(* WriteBuffer for TLC.  The code tells neither files nor threads apart.   *)
(***************************************************************************)
EXTENDS WriteBuffer, TLC

Symmetry == Permutations(Files) \cup Permutations(Threads)
=============================================================================
