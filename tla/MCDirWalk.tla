------------------------------ MODULE MCDirWalk ------------------------------
(* A tree of four directories for TLC: top / left / deep, and top / right.  *)
EXTENDS DirWalk

CONSTANTS top, left, deep, right

MCDirs   == {top, left, deep, right}
MCParent == [d \in MCDirs |-> IF d = deep THEN left ELSE top]
=============================================================================
