---------------------------- MODULE CoordGenerator ----------------------------
(***************************************************************************)
(* coordGenerator.v: walks over the screen and offers one point at a time  *)
(* to the load balancer. The code computes state = nextState with a        *)
(* blocking assignment before it looks at state, so cgState is nextState.  *)
(***************************************************************************)
EXTENDS FractalParams

VARIABLES
    cgState,        \* nextState
    oLoadDistVal,   \* a point is on offer
    vgaX, vgaY,     \* oVGAX, oVGAY: the pixel on offer
    coordX, coordY, \* oCoordX, oCoordY: its coordinate in the plane
    done            \* every point of the frame has been offered and taken

cgVars == <<cgState, oLoadDistVal, vgaX, vgaY, coordX, coordY, done>>

CGStates == {"s_init", "s_waiting", "s_getNextValue", "s_complete"}

CGTypeOK ==
    /\ cgState \in CGStates
    /\ oLoadDistVal \in BOOLEAN
    /\ vgaX \in 0 .. Width
    /\ vgaY \in 0 .. Height
    /\ coordX \in Coord
    /\ coordY \in Coord
    /\ done \in BOOLEAN

\* The registers power up as zero, which is s_init.
CGInit ==
    /\ cgState = "s_init"
    /\ oLoadDistVal = FALSE
    /\ vgaX = 0 /\ vgaY = 0
    /\ coordX = 0 /\ coordY = 0
    /\ done = FALSE

\* The point on the wires to the balancer.
Offered == [x |-> vgaX, y |-> vgaY, cx |-> coordX, cy |-> coordY]

\* reset or draw is high: only the state is touched, the offer stays up.
Restart ==
    /\ cgState' = "s_init"
    /\ UNCHANGED <<oLoadDistVal, vgaX, vgaY, coordX, coordY, done>>

\* A slip in StartFrame: the frame starts where the last one stopped.
StartFrameKeepsCoord(v) ==
    /\ cgState = "s_init"
    /\ oLoadDistVal' = FALSE
    /\ vgaX' = 0 /\ vgaY' = 0
    /\ done' = FALSE
    /\ cgState' = "s_getNextValue"
    /\ UNCHANGED <<coordX, coordY>>

StartFrame(v) ==
    /\ cgState = "s_init"
    /\ oLoadDistVal' = FALSE
    /\ vgaX' = 0 /\ vgaY' = 0
    /\ coordX' = UpperLeftX[v] /\ coordY' = UpperLeftY[v]
    /\ done' = FALSE
    /\ cgState' = "s_getNextValue"

\* A slip in OfferTaken: the generator does not wait for the balancer.
OfferTakenUnseen(iLoadDistRdy) ==
    /\ cgState = "s_waiting"
    /\ oLoadDistVal' = FALSE
    /\ cgState' = "s_getNextValue"
    /\ UNCHANGED <<vgaX, vgaY, coordX, coordY, done>>

\* The offer is taken, or there is none.
OfferTaken(iLoadDistRdy) ==
    /\ cgState = "s_waiting"
    /\ oLoadDistVal => iLoadDistRdy
    /\ oLoadDistVal' = FALSE
    /\ cgState' = "s_getNextValue"
    /\ UNCHANGED <<vgaX, vgaY, coordX, coordY, done>>

OfferStands(iLoadDistRdy) ==
    /\ cgState = "s_waiting"
    /\ oLoadDistVal /\ ~iLoadDistRdy
    /\ UNCHANGED cgVars

\* A slip in NextColumn: one column too many.
NextColumnInclusive(v) ==
    /\ cgState = "s_getNextValue"
    /\ vgaX <= Width /\ vgaY < Height
    /\ vgaX' = vgaX + 1
    /\ coordX' = coordX + XSize[v]
    /\ oLoadDistVal' = TRUE
    /\ cgState' = "s_waiting"
    /\ UNCHANGED <<vgaY, coordY, done>>

\* The next column; column Width is offered as well.
NextColumn(v) ==
    /\ cgState = "s_getNextValue"
    /\ vgaX < Width /\ vgaY < Height
    /\ vgaX' = vgaX + 1
    /\ coordX' = coordX + XSize[v]
    /\ oLoadDistVal' = TRUE
    /\ cgState' = "s_waiting"
    /\ UNCHANGED <<vgaY, coordY, done>>

\* A slip in NextLine: the left edge is not restored.
NextLineKeepsX(v) ==
    /\ cgState = "s_getNextValue"
    /\ vgaX = Width /\ vgaY < Height
    /\ vgaX' = 0
    /\ vgaY' = vgaY + 1
    /\ coordY' = coordY + YSize[v]
    /\ oLoadDistVal' = TRUE
    /\ cgState' = "s_waiting"
    /\ UNCHANGED <<coordX, done>>

\* The next line: the left edge is read again from the live view.
NextLine(v) ==
    /\ cgState = "s_getNextValue"
    /\ vgaX = Width /\ vgaY < Height
    /\ vgaX' = 0
    /\ vgaY' = vgaY + 1
    /\ coordX' = UpperLeftX[v]
    /\ coordY' = coordY + YSize[v]
    /\ oLoadDistVal' = TRUE
    /\ cgState' = "s_waiting"
    /\ UNCHANGED done

\* A slip in LastPoint: the end of a line is taken for the end of the frame.
LastPointEarly ==
    /\ cgState = "s_getNextValue"
    /\ vgaX >= Width \/ vgaY >= Height
    /\ oLoadDistVal' = FALSE
    /\ cgState' = "s_complete"
    /\ UNCHANGED <<vgaX, vgaY, coordX, coordY, done>>

LastPoint ==
    /\ cgState = "s_getNextValue"
    /\ vgaX > Width \/ vgaY >= Height
    /\ oLoadDistVal' = FALSE
    /\ cgState' = "s_complete"
    /\ UNCHANGED <<vgaX, vgaY, coordX, coordY, done>>

Complete ==
    /\ cgState = "s_complete"
    /\ oLoadDistVal' = FALSE
    /\ done' = TRUE
    /\ UNCHANGED <<cgState, vgaX, vgaY, coordX, coordY>>

\* One rising edge of clk, with the wires as they were before it.
CGEdge(restart, v, iLoadDistRdy) ==
    \/ restart /\ Restart
    \/ /\ ~restart
       /\ \/ StartFrame(v)
          \/ OfferTaken(iLoadDistRdy)
          \/ OfferStands(iLoadDistRdy)
          \/ NextColumn(v)
          \/ NextLine(v)
          \/ LastPoint
          \/ Complete
=============================================================================
