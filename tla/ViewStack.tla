------------------------------- MODULE ViewStack -------------------------------
(***************************************************************************)
(* What the user of the fractal explorer is promised: the view on display  *)
(* is reached from the first one by a path of cursor positions. Zooming in *)
(* adds the position of the cursor to the path, zooming out takes the last *)
(* one off, and the zoom level is the length of the path.                  *)
(***************************************************************************)
EXTENDS Integers, Sequences

CONSTANT Positions  \* where the cursor can be

VARIABLES
    level,  \* the zoom level on display
    path    \* the cursor positions that lead to the view on display

stackVars == <<level, path>>

StackInit == level = 0 /\ path = <<>>

ZoomIn ==
    /\ \E c \in Positions : path' = Append(path, c)
    /\ level' = level + 1

ZoomOut ==
    /\ level > 0
    /\ \E c \in Positions : path = Append(path', c)
    /\ level' = level - 1

StackNext == ZoomIn \/ ZoomOut

StackSpec == StackInit /\ [][StackNext]_stackVars
=============================================================================
