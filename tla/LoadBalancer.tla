----------------------------- MODULE LoadBalancer -----------------------------
(***************************************************************************)
(* loadBalancer.v: a queue of one point in front of the processors. The    *)
(* register that holds the point is also the data bus to all processors,   *)
(* and oDataVal says for whom the bus is meant.                            *)
(***************************************************************************)
EXTENDS FractalParams

VARIABLES
    oCoordRdy,  \* the balancer can take a point
    oDataVal,   \* the processors told to load: no bit or one
    full,       \* bus holds a point that no processor was given yet
    bus         \* oDataXSignal, oDataYSignal, oVGAX, oVGAY

lbVars == <<oCoordRdy, oDataVal, full, bus>>

LBTypeOK ==
    /\ oCoordRdy \in BOOLEAN
    /\ oDataVal \in SUBSET Seen
    /\ full \in BOOLEAN
    /\ bus \in Point

LBInit ==
    /\ oCoordRdy = FALSE
    /\ oDataVal = {}
    /\ full = FALSE
    /\ bus = [x |-> 0, y |-> 0, cx |-> 0, cy |-> 0]

LBReset ==
    /\ oCoordRdy' = TRUE
    /\ oDataVal' = {}
    /\ full' = FALSE
    /\ UNCHANGED bus

\* The queue is empty and a point is on offer. oDataVal is not touched: it
\* may still be up for the processor that is loading the previous point.
LBIntake(iCoordVal, iPoint) ==
    /\ ~full /\ iCoordVal /\ oCoordRdy
    /\ oCoordRdy' = FALSE
    /\ bus' = iPoint
    /\ full' = TRUE
    /\ UNCHANGED oDataVal

LBIdle(iCoordVal) ==
    /\ ~full /\ ~iCoordVal
    /\ oDataVal' = {}
    /\ oCoordRdy' = TRUE
    /\ UNCHANGED <<full, bus>>

\* Slips in LBDispatch: nobody has to be ready; the point stays in the
\* queue; the balancer does not become ready again.
LBDispatchBlind(iProcReady) ==
    /\ full
    /\ oDataVal' = msbOneHot(iProcReady)
    /\ full' = FALSE
    /\ oCoordRdy' = TRUE
    /\ UNCHANGED bus

LBDispatchTwice(iProcReady) ==
    /\ full /\ iProcReady # {}
    /\ oDataVal' = msbOneHot(iProcReady)
    /\ oCoordRdy' = TRUE
    /\ UNCHANGED <<full, bus>>

LBDispatchMute(iProcReady) ==
    /\ full /\ iProcReady # {}
    /\ oDataVal' = msbOneHot(iProcReady)
    /\ full' = FALSE
    /\ UNCHANGED <<oCoordRdy, bus>>

LBDispatch(iProcReady) ==
    /\ full /\ iProcReady # {}
    /\ oDataVal' = msbOneHot(iProcReady)
    /\ full' = FALSE
    /\ oCoordRdy' = TRUE
    /\ UNCHANGED bus

\* A slip in LBWait: the last processor stays told to load.
LBWaitHolds(iCoordVal, iProcReady) ==
    /\ IF full THEN iProcReady = {} ELSE iCoordVal /\ ~oCoordRdy
    /\ UNCHANGED lbVars

\* None of the above: the queue is full and nobody is ready, or a point is
\* on offer while oCoordRdy is down.
LBWait(iCoordVal, iProcReady) ==
    /\ IF full THEN iProcReady = {} ELSE iCoordVal /\ ~oCoordRdy
    /\ oDataVal' = {}
    /\ UNCHANGED <<oCoordRdy, full, bus>>

\* One rising edge of clk.
LBEdge(reset, iCoordVal, iPoint, iProcReady) ==
    \/ reset /\ LBReset
    \/ /\ ~reset
       /\ \/ LBIntake(iCoordVal, iPoint)
          \/ LBIdle(iCoordVal)
          \/ LBDispatch(iProcReady)
          \/ LBWait(iCoordVal, iProcReady)
=============================================================================
