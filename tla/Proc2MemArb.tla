------------------------------ MODULE Proc2MemArb ------------------------------
(***************************************************************************)
(* proc2memArb.v picks one processor with a result per cycle and drives    *)
(* the write port of the framebuffer with it; hotter_buffer is the         *)
(* framebuffer, written on the edge after.                                 *)
(***************************************************************************)
EXTENDS FractalParams

VARIABLES
    oProcRdy,    \* the processor told that its value is stored
    w_en,        \* write enable
    addr, data,  \* address and colour on the write port
    frameBuffer  \* address -> colour, or NoColor before the first write

arbVars == <<oProcRdy, w_en, addr, data, frameBuffer>>

ArbTypeOK ==
    /\ oProcRdy \in SUBSET Procs
    /\ w_en \in BOOLEAN
    /\ addr \in Addresses
    /\ data \in Color
    /\ frameBuffer \in [Addresses -> Color \cup {NoColor}]

ArbInit ==
    /\ oProcRdy = {}
    /\ w_en = FALSE
    /\ addr = 0
    /\ data = [cx |-> 0, cy |-> 0]
    /\ frameBuffer = [a \in Addresses |-> NoColor]

Grant(iProcRdy, iProcVGA, iProcColor) ==
    \E p \in msbOneHot(iProcRdy) :
        /\ oProcRdy' = {p}
        /\ w_en' = TRUE
        /\ addr' = iProcVGA[p]
        /\ data' = iProcColor[p]

NoGrant(iProcRdy) ==
    /\ iProcRdy = {}
    /\ oProcRdy' = {}
    /\ w_en' = FALSE
    /\ UNCHANGED <<addr, data>>

\* The write port as it was before the edge.
WritePort ==
    frameBuffer' = IF w_en THEN [frameBuffer EXCEPT ![addr] = data]
                           ELSE frameBuffer

\* A slip in the arbiter: the list of processors ends at 1.
ArbEdgeShort(iProcRdy, iProcVGA, iProcColor) ==
    /\ \/ Grant(iProcRdy \ {0}, iProcVGA, iProcColor)
       \/ NoGrant(iProcRdy \ {0})
    /\ WritePort

\* One rising edge of clk.
ArbEdge(iProcRdy, iProcVGA, iProcColor) ==
    /\ Grant(iProcRdy, iProcVGA, iProcColor) \/ NoGrant(iProcRdy)
    /\ WritePort
=============================================================================
