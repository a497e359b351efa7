-------------------------- MODULE MandelbrotProcessor --------------------------
(***************************************************************************)
(* mandlebrotProcessor.v: the processors that iterate one point each.      *)
(* state is the code's nextState, which a blocking assignment copies       *)
(* before the case. The code's reset branch assigns nextState and the case *)
(* that follows assigns it again, so reset has no effect and is no input   *)
(* here. The orbit is abstracted to when it leaves the circle: escape is   *)
(* chosen freely each cycle. oColor is set on the edge that enters s_store *)
(* and read only while oVGAVal is up, so it is the coordinate loaded last. *)
(***************************************************************************)
EXTENDS FractalParams

VARIABLE proc

ProcStates == {"s_init", "s_waiting", "s_processing", "s_store"}

Processor ==
    [state : ProcStates,
     oProcReady : BOOLEAN,
     oVGAVal : BOOLEAN,
     oVGACoord : Addresses,
     coord : Color,                      \* xCoord, yCoord
     calcCount : Nat]

ProcTypeOK == proc \in [Procs -> Processor]

ProcInit ==
    proc = [p \in Procs |->
              [state |-> "s_init", oProcReady |-> FALSE, oVGAVal |-> FALSE,
               oVGACoord |-> 0, coord |-> [cx |-> 0, cy |-> 0],
               calcCount |-> 0]]

\* s_init
Starting(r) == [r EXCEPT !.state = "s_waiting", !.oVGAVal = FALSE]

\* s_waiting with iDataVal: take the point on the bus.
Loading(r, iPoint) ==
    [r EXCEPT !.state = "s_processing",
              !.oVGAVal = FALSE,
              !.oProcReady = FALSE,
              !.coord = [cx |-> iPoint.cx, cy |-> iPoint.cy],
              !.oVGACoord = VGACoord(iPoint.x, iPoint.y),
              !.calcCount = 0]

\* s_waiting without iDataVal
Idling(r) == [r EXCEPT !.oVGAVal = FALSE, !.oProcReady = TRUE]

\* s_processing, one more iteration
Iterating(r) == [r EXCEPT !.oProcReady = FALSE,
                          !.oVGAVal = FALSE,
                          !.calcCount = @ + 1]

\* s_processing, the last iteration: the result goes up for storing.
Finishing(r) == [r EXCEPT !.state = "s_store",
                          !.oProcReady = FALSE,
                          !.oVGAVal = TRUE,
                          !.calcCount = @ + 1]

\* The point has used up its iterations or its orbit has escaped.
Finished(r, escape) == r.calcCount >= MaxIterations \/ escape

\* s_store without valueStored: hold the result.
Holding(r) == [r EXCEPT !.oProcReady = FALSE, !.oVGAVal = TRUE]

\* s_store with valueStored
Stored(r) == [r EXCEPT !.state = "s_waiting",
                       !.oProcReady = TRUE,
                       !.oVGAVal = FALSE]

\* What one rising edge of clk makes of a processor.
ProcAfter(r, iDataVal, iPoint, valueStored, escape) ==
    CASE r.state = "s_init" -> Starting(r)
      [] r.state = "s_waiting" /\ iDataVal -> Loading(r, iPoint)
      [] r.state = "s_waiting" /\ ~iDataVal -> Idling(r)
      [] r.state = "s_processing" /\ ~Finished(r, escape) -> Iterating(r)
      [] r.state = "s_processing" /\ Finished(r, escape) -> Finishing(r)
      [] r.state = "s_store" /\ ~valueStored -> Holding(r)
      [] r.state = "s_store" /\ valueStored -> Stored(r)

\* All processors see the same edge; escaped are those whose orbit escapes.
ProcEdge(iDataVal, iPoint, valueStored, escaped) ==
    proc' = [p \in Procs |->
               ProcAfter(proc[p], p \in iDataVal, iPoint,
                         p \in valueStored, p \in escaped)]

\* The wires of all processors, as vectors.
ProcReady == {p \in Procs : proc[p].oProcReady}
ProcVal == {p \in Procs : proc[p].oVGAVal}
Computing == {p \in Procs : proc[p].state = "s_processing"}
=============================================================================
