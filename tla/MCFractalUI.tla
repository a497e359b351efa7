------------------------------ MODULE MCFractalUI ------------------------------
(***************************************************************************)
(* A small screen and short counters: 3 iterations from one update to the  *)
(* next, 4 between zoom steps, a table of 3 views and a zoom guard that    *)
(* lets the level leave the table, as in the code.                         *)
(***************************************************************************)
EXTENDS FractalUI
MCDeltas == {-1, 0, 1, 2}
=============================================================================
