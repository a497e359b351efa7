---------------------------- MODULE MCFractalEngine ----------------------------
EXTENDS FractalEngine
MCUpperLeftX == [v \in Views |-> 3 * v]
MCUpperLeftY == [v \in Views |-> 1 + v]
MCXSize == [v \in Views |-> 5 - v]
MCYSize == [v \in Views |-> 7 - 2 * v]
=============================================================================
