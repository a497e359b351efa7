------------------------- MODULE MCCellularAutomaton -------------------------
(* Small instances of CellularAutomaton for TLC.                           *)
EXTENDS CellularAutomaton

\* Rules 30 and 110.
MCRules == {{1, 2, 3, 4}, {1, 2, 3, 5, 6}}
==============================================================================
