------------------------------- MODULE MCMount -------------------------------
(* Drive Kit at first: an empty container, a container with a file and the  *)
(* folder "d" (of which only the latter shows with pages of one entry on    *)
(* the second page), and one whose folder holds a file already.             *)
EXTENDS Mount

CONSTANTS a, b, dot

File(i, n, p) == [id |-> i, name |-> n, dir |-> FALSE, parent |-> p, rev |-> 0]
Dir(i, n, p)  == [id |-> i, name |-> n, dir |-> TRUE, parent |-> p, rev |-> 0]

MCClouds == {
  {},
  {File(1, b, Top)},
  {File(1, b, Top), Dir(2, a, Top), File(3, a, 2)}}
=============================================================================
