--------------------------- MODULE MCContentCache ---------------------------
(* Three versions, the second one larger than the budget of two bytes.      *)
EXTENDS ContentCache

MCSize == <<1, 3, 2>>
\* Files and threads are interchangeable; nothing is said about liveness.
MCSymmetry == Permutations(Files) \cup Permutations(Threads)
=============================================================================
