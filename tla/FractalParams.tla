---------------------------- MODULE FractalParams ----------------------------
(***************************************************************************)
(* What the modules of the lab 4 fractal engine share: the size of the     *)
(* screen, the processors, the fixed-point words and the views the user    *)
(* can ask for.                                                            *)
(***************************************************************************)
EXTENDS Integers

CONSTANTS
    Width,          \* pixels in a line: 640 in the code
    Height,         \* lines of the screen: 480 in the code
    NumProcs,       \* processors instantiated by the top level: 16
    NumSeen,        \* processors the balancer is wired to: its numProcs, 8
    MaxIterations,  \* iterations before a point counts as inside: 1200
    NoColor,        \* what an unwritten word of the framebuffer holds
    Views,          \* the (zoom, upper left corner) settings in use
    View0,          \* the view of the power-up values, zoom 0
    UpperLeftX,     \* Views -> coordinate of the left column
    UpperLeftY,     \* Views -> coordinate of the top line
    XSize,          \* Views -> distance of two columns
    YSize           \* Views -> distance of two lines

\* A coordinate is a signed fixed-point word with 32 fractional bits.
Coord == Int

\* A colour is known by the coordinate it was computed for.
Color == [cx : Coord, cy : Coord]

ASSUME SizeAssumption ==
    /\ Width \in Nat \ {0}
    /\ Height \in Nat \ {0}
    /\ MaxIterations \in Nat
    /\ NumSeen \in Nat \ {0}
    /\ NumProcs \in Nat
    /\ NumSeen <= NumProcs

\* At zoom 0 two columns are x_step times three units apart.
ASSUME ViewAssumption ==
    /\ View0 \in Views
    /\ UpperLeftX \in [Views -> Coord]
    /\ UpperLeftY \in [Views -> Coord]
    /\ XSize \in [Views -> Coord]
    /\ YSize \in [Views -> Coord]
    /\ XSize[View0] # 0

ASSUME NoColorAssumption == NoColor \notin Color

Procs == 0 .. NumProcs - 1

\* The processors whose ready and data-valid lines reach the balancer.
Seen == 0 .. NumSeen - 1

\* What travels from the generator to a processor.
Point == [x : 0 .. Width, y : 0 .. Height, cx : Coord, cy : Coord]

\* The framebuffer address of column x of line y.
VGACoord(x, y) == x + Width * y

\* The addresses a point can have; the screen is 0 .. Width * Height - 1.
Addresses == 0 .. VGACoord(Width, Height)

\* A vector of wires is the set of its bits that are high. msbOneHot keeps
\* the highest one.
msbOneHot(in) == {p \in in : \A q \in in : q <= p}
=============================================================================
