-------------------------- MODULE FractalEngineProofs --------------------------
(***************************************************************************)
(* Proofs about the fractal engine for every screen size, number of        *)
(* processors, iteration limit and set of views.                           *)
(***************************************************************************)
EXTENDS FractalEngine, WellFoundedInduction, TLAPS

\* A non-empty set of processor numbers has a largest one.
LEMMA MaxExists ==
    ASSUME NEW n \in Nat, NEW S, S \subseteq 0 .. n - 1, S # {}
    PROVE  \E p \in S : \A q \in S : q <= p
<1> DEFINE T == {k \in Nat : \E q \in S : k = n - q}
<1>1. T \subseteq Nat
  OBVIOUS
<1>2. T # {}
  <2>1. PICK q \in S : TRUE
    OBVIOUS
  <2>2. n - q \in T
    BY <2>1
  <2> QED
    BY <2>2
<1>3. PICK k \in T : \A j \in T : ~(j < k)
  <2> HIDE DEF T
  <2>1. \E x \in T : \A y \in T : ~(<<y, x>> \in OpToRel(<, Nat))
    BY <1>1, <1>2, NatLessThanWellFounded, WFMin
  <2> QED
    BY <2>1, <1>1 DEF OpToRel
<1>4. PICK p \in S : k = n - p
  OBVIOUS
<1>5. ASSUME NEW q \in S
      PROVE  q <= p
  <2>1. n - q \in T
    OBVIOUS
  <2>2. ~(n - q < k)
    BY <1>3, <2>1
  <2> QED
    BY <2>2, <1>4
<1> QED
  BY <1>5

\* msbOneHot.v: the output is one bit of the input if the input has one.
LEMMA MsbOneHotIsOne ==
    ASSUME NEW in, in \subseteq Procs
    PROVE  /\ msbOneHot(in) \subseteq in
           /\ in # {} => msbOneHot(in) # {}
           /\ \A p, q \in msbOneHot(in) : p = q
<1>1. in # {} => \E p \in in : \A q \in in : q <= p
  BY MaxExists, SizeAssumption DEF Procs
<1> QED
  BY <1>1 DEF msbOneHot, Procs

\* The processors on the balancer's ports exist.
LEMMA SeenAreProcs == Seen \subseteq Procs
BY SizeAssumption DEF Seen, Procs

\* A point the generator offers has an address in the framebuffer.
LEMMA AddressOfPoint ==
    ASSUME NEW pt \in Point
    PROVE  /\ VGACoord(pt.x, pt.y) \in Addresses
           /\ PixelOf(pt) \in Pixel
<1>1. Width \in Nat /\ Height \in Nat
  BY SizeAssumption
<1>2. pt.x \in 0 .. Width /\ pt.y \in 0 .. Height /\ pt.cx \in Coord /\ pt.cy \in Coord
  BY DEF Point
<1>3. Width * pt.y <= Width * Height /\ Width * pt.y >= 0 /\ Width * pt.y \in Int
        /\ Width * Height \in Int
  BY <1>1, <1>2
<1>4. VGACoord(pt.x, pt.y) \in Addresses
  BY <1>1, <1>2, <1>3 DEF VGACoord, Addresses
<1> QED
  BY <1>2, <1>4 DEF PixelOf, Pixel, Color
-----------------------------------------------------------------------------
\* One clock edge seen from a processor, by the state it is in.
LEMMA ProcCases ==
    ASSUME ProcTypeOK, NEW p \in Procs, NEW dv, NEW pt \in Point, NEW vs, NEW esc,
           ProcEdge(dv, pt, vs, esc)
    PROVE  /\ proc'[p] \in Processor
           /\ proc[p].state = "s_init" =>
                /\ proc'[p].state = "s_waiting"
                /\ proc'[p].oProcReady = proc[p].oProcReady
                /\ proc'[p].oVGAVal = FALSE
           /\ proc[p].state = "s_waiting" /\ p \in dv =>
                /\ proc'[p].state = "s_processing"
                /\ proc'[p].oProcReady = FALSE
                /\ proc'[p].oVGAVal = FALSE
                /\ proc'[p].oVGACoord = VGACoord(pt.x, pt.y)
                /\ proc'[p].coord = [cx |-> pt.cx, cy |-> pt.cy]
           /\ proc[p].state = "s_waiting" /\ p \notin dv =>
                /\ proc'[p].state = "s_waiting"
                /\ proc'[p].oVGAVal = FALSE
           /\ proc[p].state = "s_processing" =>
                /\ \/ proc'[p].state = "s_processing" /\ proc'[p].oVGAVal = FALSE
                   \/ proc'[p].state = "s_store" /\ proc'[p].oVGAVal = TRUE
                /\ proc'[p].oProcReady = FALSE
                /\ proc'[p].oVGACoord = proc[p].oVGACoord
                /\ proc'[p].coord = proc[p].coord
           /\ proc[p].state = "s_store" /\ p \in vs =>
                /\ proc'[p].state = "s_waiting"
                /\ proc'[p].oVGAVal = FALSE
           /\ proc[p].state = "s_store" /\ p \notin vs =>
                /\ proc'[p].state = "s_store"
                /\ proc'[p].oProcReady = FALSE
                /\ proc'[p].oVGAVal = TRUE
                /\ proc'[p].oVGACoord = proc[p].oVGACoord
                /\ proc'[p].coord = proc[p].coord
<1> DEFINE r == proc[p]
<1>1. r \in Processor
  BY DEF ProcTypeOK
<1>2. proc'[p] = ProcAfter(r, p \in dv, pt, p \in vs, p \in esc)
  BY DEF ProcEdge
<1>3. r.state \in ProcStates /\ r.calcCount \in Nat
  BY <1>1 DEF Processor
<1>4. CASE r.state = "s_init"
  <2>1. proc'[p] = Starting(r)
    BY <1>2, <1>4 DEF ProcAfter
  <2> QED
    BY <2>1, <1>1, <1>4 DEF Starting, Processor, ProcStates
<1>5. CASE r.state = "s_waiting" /\ p \in dv
  <2>1. proc'[p] = Loading(r, pt)
    BY <1>2, <1>5 DEF ProcAfter
  <2>2. VGACoord(pt.x, pt.y) \in Addresses
    BY AddressOfPoint
  <2>3. [cx |-> pt.cx, cy |-> pt.cy] \in Color
    BY DEF Point, Color
  <2>4. proc'[p] = [state |-> "s_processing", oProcReady |-> FALSE, oVGAVal |-> FALSE,
                    oVGACoord |-> VGACoord(pt.x, pt.y),
                    coord |-> [cx |-> pt.cx, cy |-> pt.cy], calcCount |-> 0]
    BY <2>1, <1>1 DEF Loading, Processor
  <2>5. proc'[p] \in Processor
    BY <2>4, <2>2, <2>3, SizeAssumption DEF Processor, ProcStates
  <2> QED
    BY <2>4, <2>5, <1>5
<1>6. CASE r.state = "s_waiting" /\ p \notin dv
  <2>1. proc'[p] = Idling(r)
    BY <1>2, <1>6 DEF ProcAfter
  <2> QED
    BY <2>1, <1>1, <1>6 DEF Idling, Processor, ProcStates
<1>7. CASE r.state = "s_processing" /\ Finished(r, p \in esc)
  <2>1. proc'[p] = Finishing(r)
    BY <1>2, <1>7 DEF ProcAfter
  <2>2. proc'[p] = [state |-> "s_store", oProcReady |-> FALSE, oVGAVal |-> TRUE,
                    oVGACoord |-> r.oVGACoord, coord |-> r.coord,
                    calcCount |-> r.calcCount + 1]
    BY <2>1, <1>1 DEF Finishing, Processor
  <2>3. r.calcCount + 1 \in Nat
    BY <1>3
  <2>4. proc'[p] \in Processor
    BY <2>2, <2>3, <1>1 DEF Processor, ProcStates
  <2> QED
    BY <2>2, <2>4, <1>7
<1>8. CASE r.state = "s_processing" /\ ~Finished(r, p \in esc)
  <2>1. proc'[p] = Iterating(r)
    BY <1>2, <1>8 DEF ProcAfter
  <2>2. proc'[p] = [state |-> r.state, oProcReady |-> FALSE, oVGAVal |-> FALSE,
                    oVGACoord |-> r.oVGACoord, coord |-> r.coord,
                    calcCount |-> r.calcCount + 1]
    BY <2>1, <1>1 DEF Iterating, Processor
  <2>3. r.calcCount + 1 \in Nat
    BY <1>3
  <2>4. proc'[p] \in Processor
    BY <2>2, <2>3, <1>1 DEF Processor, ProcStates
  <2> QED
    BY <2>2, <2>4, <1>8
<1>9. CASE r.state = "s_store" /\ p \in vs
  <2>1. proc'[p] = Stored(r)
    BY <1>2, <1>9 DEF ProcAfter
  <2> QED
    BY <2>1, <1>1, <1>9 DEF Stored, Processor, ProcStates
<1>10. CASE r.state = "s_store" /\ p \notin vs
  <2>1. proc'[p] = Holding(r)
    BY <1>2, <1>10 DEF ProcAfter
  <2> QED
    BY <2>1, <1>1, <1>10 DEF Holding, Processor, ProcStates
<1> QED
  BY <1>3, <1>4, <1>5, <1>6, <1>7, <1>8, <1>9, <1>10 DEF ProcStates
-----------------------------------------------------------------------------
(* Type correctness, component by component. *)

\* An edge leaves the generator's registers in range.
LEMMA CGType ==
    ASSUME CGTypeOK, NEW restart, NEW v \in Views, NEW rdy,
           CGEdge(restart, v, rdy)
    PROVE  CGTypeOK'
<1> USE DEF CGTypeOK, CGStates, Coord
<1>0. /\ Width \in Nat /\ Height \in Nat
      /\ UpperLeftX[v] \in Int /\ UpperLeftY[v] \in Int
      /\ XSize[v] \in Int /\ YSize[v] \in Int
  BY SizeAssumption, ViewAssumption
<1>1. CASE Restart
  BY <1>1 DEF Restart
<1>2. CASE StartFrame(v)
  <2>1. oLoadDistVal' \in BOOLEAN /\ done' \in BOOLEAN
    BY <1>2 DEF StartFrame
  <2>2. 0 \in 0 .. Width /\ 0 \in 0 .. Height
    BY <1>0
  <2> QED
    BY <1>0, <1>2, <2>1, <2>2 DEF StartFrame
<1>3. CASE OfferTaken(rdy)
  BY <1>3 DEF OfferTaken
<1>4. CASE OfferStands(rdy)
  BY <1>4 DEF OfferStands, cgVars
<1>5. CASE NextColumn(v)
  BY <1>0, <1>5 DEF NextColumn
<1>6. CASE NextLine(v)
  BY <1>0, <1>6 DEF NextLine
<1>7. CASE LastPoint
  BY <1>7 DEF LastPoint
<1>8. CASE Complete
  BY <1>8 DEF Complete
<1> QED
  BY <1>1, <1>2, <1>3, <1>4, <1>5, <1>6, <1>7, <1>8 DEF CGEdge

\* The wires from the generator carry a point.
LEMMA OfferedType == CGTypeOK => Offered \in Point
BY DEF CGTypeOK, Offered, Point

\* An edge leaves the balancer's registers in range.
LEMMA LBType ==
    ASSUME LBTypeOK, NEW rst, NEW val, NEW pt \in Point,
           NEW rdy, rdy \subseteq Seen, LBEdge(rst, val, pt, rdy)
    PROVE  LBTypeOK'
<1> USE DEF LBTypeOK
<1>1. CASE LBReset
  BY <1>1 DEF LBReset
<1>2. CASE LBIntake(val, pt)
  BY <1>2 DEF LBIntake
<1>3. CASE LBIdle(val)
  BY <1>3 DEF LBIdle
<1>4. CASE LBDispatch(rdy)
  <2>1. msbOneHot(rdy) \subseteq Seen
    BY DEF msbOneHot
  <2> QED
    BY <1>4, <2>1 DEF LBDispatch
<1>5. CASE LBWait(val, rdy)
  BY <1>5 DEF LBWait
<1> QED
  BY <1>1, <1>2, <1>3, <1>4, <1>5 DEF LBEdge

\* An edge leaves the processors' registers in range.
LEMMA ProcType ==
    ASSUME ProcTypeOK, NEW dv, NEW pt \in Point, NEW vs, NEW esc,
           ProcEdge(dv, pt, vs, esc)
    PROVE  ProcTypeOK'
<1>1. \A p \in Procs : proc'[p] \in Processor
  BY ProcCases
<1>2. proc' = [p \in Procs |-> proc'[p]]
  BY DEF ProcEdge
<1> QED
  BY <1>1, <1>2 DEF ProcTypeOK

\* An edge leaves the write port and the framebuffer in range.
LEMMA ArbType ==
    ASSUME ArbTypeOK, ProcTypeOK,
           ArbEdge(ProcVal, [p \in Procs |-> proc[p].oVGACoord],
                            [p \in Procs |-> proc[p].coord])
    PROVE  ArbTypeOK'
<1> DEFINE vga == [p \in Procs |-> proc[p].oVGACoord]
           col == [p \in Procs |-> proc[p].coord]
<1>1. \A p \in Procs : vga[p] \in Addresses /\ col[p] \in Color
  BY DEF ProcTypeOK, Processor
<1>2. frameBuffer' \in [Addresses -> Color \cup {NoColor}]
  BY DEF ArbEdge, WritePort, ArbTypeOK
<1>3. CASE NoGrant(ProcVal)
  BY <1>2, <1>3 DEF NoGrant, ArbTypeOK
<1>4. CASE Grant(ProcVal, vga, col)
  <2> HIDE DEF vga, col
  <2>1. msbOneHot(ProcVal) \subseteq Procs
    BY DEF msbOneHot, ProcVal
  <2> QED
    BY <1>1, <1>2, <1>4, <2>1 DEF Grant, ArbTypeOK
<1> QED
  BY <1>3, <1>4 DEF ArbEdge

\* The history holds pixels.
LEMMA RecordType ==
    ASSUME TypeOK, Record
    PROVE  accepted' \in SUBSET Pixel /\ stored' \in SUBSET Pixel
<1>1. PixelOf(Offered) \in Pixel
  BY OfferedType, AddressOfPoint DEF TypeOK
<1>2. PixelWritten \in Pixel
  BY DEF TypeOK, ArbTypeOK, PixelWritten, Pixel
<1> QED
  BY <1>1, <1>2 DEF Record, TypeOK

\* One edge of CLOCK_50, taken apart into its components.
LEMMA TickParts ==
    ASSUME TypeOK, Tick
    PROVE  /\ CGEdge(reset \/ draw, view, oCoordRdy)
           /\ LBEdge(reset, oLoadDistVal, Offered, ProcReady \cap Seen)
           /\ \E esc : ProcEdge(oDataVal, bus, oProcRdy, esc)
           /\ ArbEdge(ProcVal, [p \in Procs |-> proc[p].oVGACoord],
                               [p \in Procs |-> proc[p].coord])
           /\ Record
           /\ sampled' = TRUE
           /\ UNCHANGED topVars
BY DEF Tick

\* Every step keeps the types.
LEMMA TypeStep == TypeOK /\ [Next]_vars => TypeOK'
<1> SUFFICES ASSUME TypeOK, [Next]_vars
             PROVE  TypeOK'
  OBVIOUS
<1>1. CASE Tick
  <2>1. CGTypeOK'
    BY <1>1, CGType DEF TypeOK, Tick
  <2>2. LBTypeOK'
    <3>1. Offered \in Point
      BY OfferedType DEF TypeOK
    <3> QED
      BY <1>1, <3>1, LBType DEF TypeOK, Tick
  <2>3. ProcTypeOK'
    BY <1>1, ProcType, TickParts DEF TypeOK, LBTypeOK
  <2>4. ArbTypeOK'
    BY <1>1, ArbType, TickParts DEF TypeOK
  <2>5. accepted' \in SUBSET Pixel /\ stored' \in SUBSET Pixel
    BY <1>1, RecordType, TickParts
  <2>6. sampled' = TRUE /\ UNCHANGED <<view, oldView, drawTrigger, key0, key3, events>>
    BY <1>1 DEF Tick, topVars
  <2> QED
    BY <2>1, <2>2, <2>3, <2>4, <2>5, <2>6 DEF TypeOK
<1>2. ASSUME NEW v \in Views, CursorUpdate(v)
      PROVE  TypeOK'
  <2>1. events' \in 0 .. MaxEvents
    BY <1>2, EventAssumption DEF CursorUpdate, TypeOK
  <2>2. (view # oldView) \in BOOLEAN
    OBVIOUS
  <2>3. UNCHANGED <<cgVars, lbVars, proc, arbVars>>
    BY <1>2 DEF CursorUpdate
  <2>4. CGTypeOK' /\ LBTypeOK' /\ ProcTypeOK' /\ ArbTypeOK'
    BY <2>3 DEF TypeOK, CGTypeOK, LBTypeOK, ProcTypeOK, ArbTypeOK, cgVars, lbVars, arbVars
  <2> QED
    BY <1>2, <2>1, <2>2, <2>4 DEF CursorUpdate, TypeOK, historyVars
<1>3. CASE Press
  <2>1. UNCHANGED <<cgVars, lbVars, proc, arbVars>>
    BY <1>3 DEF Press
  <2>2. CGTypeOK' /\ LBTypeOK' /\ ProcTypeOK' /\ ArbTypeOK'
    BY <2>1 DEF TypeOK, CGTypeOK, LBTypeOK, ProcTypeOK, ArbTypeOK, cgVars, lbVars, arbVars
  <2>3. events' \in 0 .. MaxEvents
    BY <1>3, EventAssumption DEF Press, TypeOK
  <2> QED
    BY <1>3, <2>2, <2>3 DEF Press, TypeOK, historyVars
<1>4. CASE Release
  <2>1. UNCHANGED <<cgVars, lbVars, proc, arbVars>>
    BY <1>4 DEF Release
  <2>2. CGTypeOK' /\ LBTypeOK' /\ ProcTypeOK' /\ ArbTypeOK'
    BY <2>1 DEF TypeOK, CGTypeOK, LBTypeOK, ProcTypeOK, ArbTypeOK, cgVars, lbVars, arbVars
  <2> QED
    BY <1>4, <2>2 DEF Release, TypeOK, historyVars
<1>5. CASE UNCHANGED vars
  BY <1>5 DEF vars, TypeOK, CGTypeOK, LBTypeOK, ProcTypeOK, ArbTypeOK, cgVars, lbVars,
              arbVars, topVars, historyVars
<1> QED
  BY <1>1, <1>2, <1>3, <1>4, <1>5 DEF Next

\* Every register of the engine keeps its range.
THEOREM TypeCorrect == Spec => []TypeOK
<1>1. Init => TypeOK
  <2> SUFFICES ASSUME Init
               PROVE  TypeOK
    OBVIOUS
  <2>0. Width \in Nat /\ Height \in Nat /\ Width * Height \in Nat /\ MaxEvents \in Nat
    BY SizeAssumption, EventAssumption
  <2>1. 0 \in Addresses
    BY <2>0 DEF Addresses, VGACoord
  <2>2. CGTypeOK
    <3>1. oLoadDistVal \in BOOLEAN /\ done \in BOOLEAN
      BY DEF Init, CGInit
    <3> QED
      BY <2>0, <3>1 DEF Init, CGInit, CGTypeOK, CGStates, Coord
  <2>3. LBTypeOK
    <3>1. oCoordRdy \in BOOLEAN /\ full \in BOOLEAN
      BY DEF Init, LBInit
    <3> QED
      BY <2>0, <3>1 DEF Init, LBInit, LBTypeOK, Point, Coord
  <2>4. ProcTypeOK
    BY <2>1 DEF Init, ProcInit, ProcTypeOK, Processor, ProcStates, Color, Coord
  <2>5. ArbTypeOK
    <3>1. w_en \in BOOLEAN
      BY DEF Init, ArbInit
    <3> QED
      BY <2>1, <3>1 DEF Init, ArbInit, ArbTypeOK, Color, Coord
  <2>6. drawTrigger \in BOOLEAN /\ key0 \in BOOLEAN /\ key3 \in BOOLEAN /\ sampled \in BOOLEAN
    BY DEF Init
  <2> QED
    BY <2>0, <2>2, <2>3, <2>4, <2>5, <2>6, ViewAssumption DEF Init, TypeOK
<1> QED
  BY <1>1, TypeStep, PTL DEF Spec
-----------------------------------------------------------------------------
(* The handshakes between the components. *)

\* The balancer is never ready and full.
LEMMA RdyMeansEmptyStep ==
    ASSUME RdyMeansEmpty, NEW rst, NEW val, NEW pt, NEW rdy, LBEdge(rst, val, pt, rdy)
    PROVE  RdyMeansEmpty'
BY DEF RdyMeansEmpty, LBEdge, LBReset, LBIntake, LBIdle, LBDispatch, LBWait

\* The processor told to load has loaded by the time the bus changes.
LEMMA OneLoadsStep ==
    ASSUME TypeOK, Handshake, Tick
    PROVE  OneLoads'
<1>1. PICK esc : ProcEdge(oDataVal, bus, oProcRdy, esc)
  BY TickParts
<1>2. ProcTypeOK /\ bus \in Point /\ oDataVal \subseteq Procs
  BY SeenAreProcs DEF TypeOK, LBTypeOK
<1>3. LBEdge(reset, oLoadDistVal, Offered, ProcReady \cap Seen)
  BY TickParts
<1>4. CASE LBReset \/ LBIdle(oLoadDistVal) \/ LBWait(oLoadDistVal, ProcReady \cap Seen)
  BY <1>4 DEF LBReset, LBIdle, LBWait, OneLoads
<1>5. CASE LBIntake(oLoadDistVal, Offered)
  <2>1. oDataVal' = oDataVal /\ full' /\ ~full
    BY <1>5 DEF LBIntake
  <2>2. \A p \in oDataVal : proc[p].state = "s_waiting"
    BY <2>1 DEF Handshake, OneLoads
  <2>3. \A p \in oDataVal : proc'[p].state = "s_processing"
    BY <2>2, <1>1, <1>2, ProcCases
  <2> QED
    BY <2>1, <2>3 DEF Handshake, OneLoads
<1>6. CASE LBDispatch(ProcReady \cap Seen)
  <2>1. oDataVal' = msbOneHot(ProcReady \cap Seen) /\ ~full' /\ full
    BY <1>6 DEF LBDispatch
  <2>2. /\ oDataVal' \subseteq ProcReady \cap Seen
        /\ \A p, q \in oDataVal' : p = q
    BY <2>1, MsbOneHotIsOne, SeenAreProcs
  <2>3. \A p \in oDataVal' : p \in Procs /\ proc[p].state = "s_waiting"
    BY <2>2 DEF ProcReady, Handshake, ReadyMeansWaiting
  <2>4. \A p \in oDataVal' : p \notin oDataVal
    BY <2>1, <2>3 DEF Handshake, OneLoads
  <2>5. \A p \in oDataVal' : proc'[p].state = "s_waiting"
    BY <2>3, <2>4, <1>1, <1>2, ProcCases
  <2> QED
    BY <2>1, <2>2, <2>5 DEF OneLoads
<1> QED
  BY <1>3, <1>4, <1>5, <1>6 DEF LBEdge

\* The processors' output wires follow their states.
LEMMA ProcWiresStep ==
    ASSUME TypeOK, Handshake, Tick
    PROVE  ReadyMeansWaiting' /\ ValMeansStore'
<1>1. PICK esc : ProcEdge(oDataVal, bus, oProcRdy, esc)
  BY TickParts
<1>2. ProcTypeOK /\ bus \in Point
  BY DEF TypeOK, LBTypeOK
<1>3. ASSUME NEW p \in Procs
      PROVE  /\ proc'[p].oProcReady => proc'[p].state = "s_waiting"
             /\ proc'[p].oVGAVal <=> proc'[p].state = "s_store"
  <2>1. proc[p].state \in ProcStates
    BY <1>2 DEF ProcTypeOK, Processor
  <2>2. CASE proc[p].state = "s_init"
    BY <2>2, <1>1, <1>2, ProcCases DEF Handshake, ReadyMeansWaiting
  <2>3. CASE proc[p].state = "s_waiting" /\ p \in oDataVal
    BY <2>3, <1>1, <1>2, ProcCases
  <2>4. CASE proc[p].state = "s_waiting" /\ p \notin oDataVal
    BY <2>4, <1>1, <1>2, ProcCases
  <2>5. CASE proc[p].state = "s_processing"
    BY <2>5, <1>1, <1>2, ProcCases
  <2>6. CASE proc[p].state = "s_store" /\ p \in oProcRdy
    BY <2>6, <1>1, <1>2, ProcCases
  <2>7. CASE proc[p].state = "s_store" /\ p \notin oProcRdy
    BY <2>7, <1>1, <1>2, ProcCases
  <2> QED
    BY <2>1, <2>2, <2>3, <2>4, <2>5, <2>6, <2>7 DEF ProcStates
<1> QED
  BY <1>3 DEF ReadyMeansWaiting, ValMeansStore

\* A grant names the processor whose pixel is on the write port.
LEMMA GrantStep ==
    ASSUME TypeOK, Handshake, Tick
    PROVE  GrantMeansWrite'
<1> DEFINE vga == [p \in Procs |-> proc[p].oVGACoord]
           col == [p \in Procs |-> proc[p].coord]
<1>1. PICK esc : ProcEdge(oDataVal, bus, oProcRdy, esc)
  BY TickParts
<1>2. ProcTypeOK /\ bus \in Point
  BY DEF TypeOK, LBTypeOK
<1>3. Grant(ProcVal, vga, col) \/ NoGrant(ProcVal)
  BY TickParts DEF ArbEdge
<1>4. CASE NoGrant(ProcVal)
  BY <1>4 DEF NoGrant, GrantMeansWrite
<1>5. CASE Grant(ProcVal, vga, col)
  <2>1. PICK p \in msbOneHot(ProcVal) :
           oProcRdy' = {p} /\ w_en' = TRUE /\ addr' = vga[p] /\ data' = col[p]
    BY <1>5 DEF Grant
  <2>2. p \in Procs /\ proc[p].oVGAVal
    BY DEF msbOneHot, ProcVal
  <2>3. proc[p].state = "s_store"
    BY <2>2 DEF Handshake, ValMeansStore
  <2>4. addr' = proc[p].oVGACoord /\ data' = proc[p].coord
    BY <2>1, <2>2
  <2>5. ASSUME proc'[p].state = "s_store"
        PROVE  PixelWritten' = PixelIn(p)'
    <3>1. p \notin oProcRdy
      BY <2>2, <2>3, <2>5, <1>1, <1>2, ProcCases
    <3>2. proc'[p].oVGACoord = proc[p].oVGACoord /\ proc'[p].coord = proc[p].coord
      BY <2>2, <2>3, <3>1, <1>1, <1>2, ProcCases
    <3> QED
      BY <2>4, <3>2 DEF PixelWritten, PixelIn
  <2> QED
    BY <2>1, <2>5 DEF GrantMeansWrite
<1> QED
  BY <1>3, <1>4, <1>5

\* Only the clock moves the components.
LEMMA OtherSteps ==
    ASSUME [Next]_vars, ~Tick
    PROVE  UNCHANGED <<cgVars, lbVars, proc, arbVars, historyVars>>
BY DEF Next, CursorUpdate, Press, Release, vars

\* Every step keeps the handshakes.
LEMMA HandshakeStep == TypeOK /\ Handshake /\ [Next]_vars => Handshake'
<1> SUFFICES ASSUME TypeOK, Handshake, [Next]_vars
             PROVE  Handshake'
  OBVIOUS
<1>1. CASE Tick
  <2>1. RdyMeansEmpty'
    BY <1>1, TickParts, RdyMeansEmptyStep DEF Handshake
  <2> QED
    BY <1>1, <2>1, OneLoadsStep, ProcWiresStep, GrantStep DEF Handshake
<1>2. CASE ~Tick
  BY <1>2, OtherSteps DEF Handshake, RdyMeansEmpty, OneLoads, ReadyMeansWaiting,
        ValMeansStore, GrantMeansWrite, PixelWritten, PixelIn, lbVars, arbVars
<1> QED
  BY <1>1, <1>2

\* Balancer, processors and arbiter agree on every wire, at every edge.
THEOREM HandshakeHolds == Spec => []Handshake
<1>1. Init => Handshake
  BY DEF Init, LBInit, ProcInit, ArbInit, Handshake, RdyMeansEmpty, OneLoads,
         ReadyMeansWaiting, ValMeansStore, GrantMeansWrite
<1> QED
  BY <1>1, HandshakeStep, TypeCorrect, PTL DEF Spec
-----------------------------------------------------------------------------
(* No point is lost. *)

\* A point waiting on the bus stays there or is loaded.
LEMMA BusStep ==
    ASSUME TypeOK, Handshake, Tick, ~reset, BusPending
    PROVE  PixelOf(bus) \in InFlight'
<1>1. PICK esc : ProcEdge(oDataVal, bus, oProcRdy, esc)
  BY TickParts
<1>2. ProcTypeOK /\ bus \in Point /\ oDataVal \subseteq Procs
  BY SeenAreProcs DEF TypeOK, LBTypeOK
<1>3. CASE full
  <2>1. LBDispatch(ProcReady \cap Seen) \/ LBWait(oLoadDistVal, ProcReady \cap Seen)
    BY <1>3, TickParts DEF LBEdge, LBIntake, LBIdle
  <2>2. CASE LBWait(oLoadDistVal, ProcReady \cap Seen)
    BY <1>3, <2>2 DEF LBWait, InFlight, BusPending
  <2>3. CASE LBDispatch(ProcReady \cap Seen)
    <3>1. msbOneHot(ProcReady \cap Seen) # {}
      BY <2>3, MsbOneHotIsOne, SeenAreProcs DEF LBDispatch
    <3>2. oDataVal' # {} /\ bus' = bus
      BY <2>3, <3>1 DEF LBDispatch
    <3> QED
      BY <3>2 DEF InFlight, BusPending
  <2> QED
    BY <2>1, <2>2, <2>3
<1>4. CASE ~full
  <2>1. PICK p \in oDataVal : TRUE
    BY <1>4 DEF BusPending
  <2>2. p \in Procs /\ proc[p].state = "s_waiting"
    BY <1>2, <1>4 DEF Handshake, OneLoads
  <2>3. /\ proc'[p].state = "s_processing"
        /\ proc'[p].oVGACoord = VGACoord(bus.x, bus.y)
        /\ proc'[p].coord = [cx |-> bus.cx, cy |-> bus.cy]
    BY <2>2, <1>1, <1>2, ProcCases
  <2>4. PixelIn(p)' = PixelOf(bus) /\ Busy(p)'
    BY <2>3 DEF PixelIn, PixelOf, Busy
  <2> QED
    BY <2>2, <2>4 DEF InFlight
<1> QED
  BY <1>3, <1>4

\* A pixel in a processor stays there or is written at this edge.
LEMMA BusyStep ==
    ASSUME TypeOK, Handshake, Tick, NEW p \in Procs, Busy(p)
    PROVE  \/ Busy(p)' /\ PixelIn(p)' = PixelIn(p)
           \/ w_en /\ PixelWritten = PixelIn(p)
<1>1. PICK esc : ProcEdge(oDataVal, bus, oProcRdy, esc)
  BY TickParts
<1>2. ProcTypeOK /\ bus \in Point
  BY DEF TypeOK, LBTypeOK
<1>3. CASE proc[p].state = "s_processing"
  BY <1>1, <1>2, <1>3, ProcCases DEF Busy, PixelIn
<1>4. CASE proc[p].state = "s_store" /\ p \notin oProcRdy
  BY <1>1, <1>2, <1>4, ProcCases DEF Busy, PixelIn
<1>5. CASE proc[p].state = "s_store" /\ p \in oProcRdy
  BY <1>5 DEF Handshake, GrantMeansWrite
<1> QED
  BY <1>3, <1>4, <1>5 DEF Busy

\* Every step keeps the accepted pixels in flight or stored.
LEMMA NoPixelLostStep ==
    TypeOK /\ Handshake /\ NoPixelLost /\ [Next]_vars => NoPixelLost'
<1> SUFFICES ASSUME TypeOK, Handshake, NoPixelLost, [Next]_vars
             PROVE  NoPixelLost'
  OBVIOUS
<1>1. CASE ~Tick
  BY <1>1, OtherSteps DEF NoPixelLost, InFlight, BusPending, Busy, PixelIn, lbVars,
                          historyVars
<1>2. CASE Tick /\ NewFrame
  BY <1>2 DEF Tick, Record, NoPixelLost
<1>3. CASE Tick /\ ~NewFrame
  <2>1. /\ accepted' = accepted \cup {px \in {PixelOf(Offered)} : Takes}
        /\ stored' = stored \cup {px \in {PixelWritten} : w_en}
        /\ ~reset
    BY <1>3 DEF Tick, Record, NewFrame
  <2>2. ASSUME Takes
        PROVE  PixelOf(Offered) \in InFlight'
    <3>1. LBIntake(oLoadDistVal, Offered)
      BY <1>3, <2>2, TickParts DEF Takes, LBEdge, LBIdle, LBDispatch, LBWait
    <3> QED
      BY <3>1 DEF LBIntake, InFlight, BusPending
  <2>3. ASSUME NEW px \in accepted
        PROVE  px \in stored' \cup InFlight'
    <3>1. CASE px \in stored
      BY <3>1, <2>1
    <3>2. CASE BusPending /\ px = PixelOf(bus)
      BY <3>2, <2>1, <1>3, BusStep
    <3>3. ASSUME NEW p \in Procs, Busy(p), px = PixelIn(p)
          PROVE  px \in stored' \cup InFlight'
      <4>1. CASE Busy(p)' /\ PixelIn(p)' = PixelIn(p)
        BY <4>1, <3>3 DEF InFlight
      <4>2. CASE w_en /\ PixelWritten = PixelIn(p)
        BY <4>2, <3>3, <2>1
      <4> QED
        BY <4>1, <4>2, <3>3, <1>3, BusyStep
    <3> QED
      BY <3>1, <3>2, <3>3 DEF NoPixelLost, InFlight
  <2> QED
    BY <2>1, <2>2, <2>3 DEF NoPixelLost
<1> QED
  BY <1>1, <1>2, <1>3

\* Whatever the user does, a point that the balancer took is written to
\* the framebuffer or still on its way there.
THEOREM NoPixelIsLost == Spec => []NoPixelLost
<1>1. Init => NoPixelLost
  BY DEF Init, NoPixelLost
<1> QED
  BY <1>1, NoPixelLostStep, TypeCorrect, HandshakeHolds, PTL DEF Spec
-----------------------------------------------------------------------------
(* The frame the generator walks over: each part of GeneratorInv has the    *)
(* step that preserves it.                                                 *)

\* An edge keeps the shape of the walk.
LEMMA GenShapeStep ==
    ASSUME TypeOK, GenShape, Tick
    PROVE  GenShape'
<1> USE DEF GenShape
<1>0. /\ Width \in Nat \ {0} /\ Height \in Nat \ {0}
      /\ vgaX \in 0 .. Width /\ vgaY \in 0 .. Height
      /\ CGEdge(reset \/ draw, view, oCoordRdy)
  BY SizeAssumption, TickParts DEF TypeOK, CGTypeOK
<1>1. CASE Restart
  BY <1>1 DEF Restart
<1>2. CASE StartFrame(view)
  BY <1>0, <1>2 DEF StartFrame
<1>3. CASE OfferTaken(oCoordRdy)
  BY <1>3 DEF OfferTaken
<1>4. CASE OfferStands(oCoordRdy)
  BY <1>4 DEF OfferStands, cgVars
<1>5. CASE NextColumn(view)
  BY <1>0, <1>5 DEF NextColumn
<1>6. CASE NextLine(view)
  BY <1>0, <1>6 DEF NextLine
<1>7. CASE LastPoint
  <2>1. vgaY = Height
    BY <1>0, <1>7 DEF LastPoint
  <2> QED
    BY <2>1, <1>7 DEF LastPoint
<1>8. CASE Complete
  BY <1>8 DEF Complete
<1> QED
  BY <1>0, <1>1, <1>2, <1>3, <1>4, <1>5, <1>6, <1>7, <1>8 DEF CGEdge

\* An edge keeps the coordinate in step with the position.
LEMMA GenCoordStep ==
    ASSUME TypeOK, GenCoord, Tick
    PROVE  GenCoord'
<1> DEFINE ux == UpperLeftX[view]  uy == UpperLeftY[view]
           sx == XSize[view]       sy == YSize[view]
<1>0. /\ ux \in Int /\ uy \in Int /\ sx \in Int /\ sy \in Int
      /\ vgaX \in Int /\ vgaY \in Int
      /\ CGEdge(reset \/ draw, view, oCoordRdy)
  <2>1. ux \in Int /\ uy \in Int /\ sx \in Int /\ sy \in Int
    BY ViewAssumption DEF TypeOK, Coord
  <2>2. vgaX \in Int /\ vgaY \in Int
    BY SizeAssumption DEF TypeOK, CGTypeOK
  <2> QED
    BY <2>1, <2>2, TickParts
<1>1. UNCHANGED <<view, oldView, drawTrigger>>
  BY TickParts DEF topVars
<1> HIDE DEF ux, uy, sx, sy
<1> SUFFICES ASSUME Steady, cgState' # "s_init"
             PROVE  coordX' = ux + vgaX' * sx /\ coordY' = uy + vgaY' * sy
  BY <1>1 DEF GenCoord, Steady, ux, uy, sx, sy
<1>2. cgState # "s_init" => coordX = ux + vgaX * sx /\ coordY = uy + vgaY * sy
  BY DEF GenCoord, ux, uy, sx, sy
<1>3. /\ 0 * sx = 0 /\ 0 * sy = 0
      /\ (vgaX + 1) * sx = vgaX * sx + sx
      /\ (vgaY + 1) * sy = vgaY * sy + sy
      /\ vgaX * sx \in Int /\ vgaY * sy \in Int
  BY <1>0
<1>4. CASE StartFrame(view)
  <2>1. vgaX' = 0 /\ vgaY' = 0 /\ coordX' = ux /\ coordY' = uy
    BY <1>4 DEF StartFrame, ux, uy
  <2> QED
    BY <2>1, <1>0, <1>3
<1>5. CASE NextColumn(view)
  <2>1. /\ vgaX' = vgaX + 1 /\ vgaY' = vgaY
        /\ coordX' = coordX + sx /\ coordY' = coordY
        /\ cgState # "s_init"
    BY <1>5 DEF NextColumn, sx
  <2> QED
    BY <2>1, <1>0, <1>2, <1>3
<1>6. CASE NextLine(view)
  <2>1. /\ vgaX' = 0 /\ vgaY' = vgaY + 1
        /\ coordX' = ux /\ coordY' = coordY + sy
        /\ cgState # "s_init"
    BY <1>6 DEF NextLine, ux, sy
  <2> QED
    BY <2>1, <1>0, <1>2, <1>3
<1>7. CASE OfferTaken(oCoordRdy) \/ OfferStands(oCoordRdy) \/ LastPoint \/ Complete
  <2>1. UNCHANGED <<vgaX, vgaY, coordX, coordY>> /\ cgState # "s_init"
    BY <1>7 DEF OfferTaken, OfferStands, LastPoint, Complete, cgVars
  <2> QED
    BY <2>1, <1>2
<1>8. CASE Restart
  BY <1>8 DEF Restart
<1> QED
  BY <1>0, <1>4, <1>5, <1>6, <1>7, <1>8 DEF CGEdge

\* An edge passes a position only when its point was taken.
LEMMA GenTakenStep ==
    ASSUME TypeOK, Handshake, GenShape, GenCoord, GenTaken, Tick
    PROVE  GenTaken'
<1>0. /\ Width \in Nat \ {0} /\ Height \in Nat \ {0}
      /\ vgaX \in 0 .. Width /\ vgaY \in 0 .. Height
      /\ CGEdge(reset \/ draw, view, oCoordRdy)
      /\ reset \in BOOLEAN
  BY SizeAssumption, TickParts DEF TypeOK, CGTypeOK, reset
<1>1. UNCHANGED <<view, oldView, drawTrigger>>
  BY TickParts DEF topVars
<1> SUFFICES ASSUME Steady, cgState' # "s_init",
                    NEW x \in 0 .. Width, NEW y \in 0 .. Height,
                    InFrame(x, y), Passed(x, y)'
             PROVE  PixelAt(view, x, y) \in accepted'
  BY <1>1 DEF GenTaken, Steady, PixelAt, ColorAt
<1>2. cgState # "s_init" /\ Passed(x, y) => PixelAt(view, x, y) \in accepted
  BY DEF GenTaken
<1>3. ~(reset \/ draw)
  BY <1>0 DEF CGEdge, Restart
<1>4. CASE StartFrame(view)
  BY <1>4, <1>0 DEF StartFrame, Passed, InFrame
<1>5. cgState # "s_init" => /\ accepted \subseteq accepted'
                            /\ Takes => PixelOf(Offered) \in accepted'
  BY <1>3, TickParts DEF Record, NewFrame
<1>6. CASE OfferTaken(oCoordRdy)
  <2>1. /\ cgState = "s_waiting" /\ cgState' = "s_getNextValue"
        /\ vgaX' = vgaX /\ vgaY' = vgaY
        /\ oLoadDistVal => oCoordRdy
    BY <1>6 DEF OfferTaken
  <2>2. CASE Passed(x, y)
    BY <2>1, <2>2, <1>2, <1>5
  <2>3. CASE ~Passed(x, y)
    <3>1. x = vgaX /\ y = vgaY
      BY <2>1, <2>3 DEF Passed
    <3>2. Takes
      BY <2>1, <1>3 DEF GenShape, Takes, Handshake, RdyMeansEmpty
    <3>3. PixelOf(Offered) = PixelAt(view, x, y)
      BY <3>1, <2>1 DEF GenCoord, PixelOf, Offered, PixelAt, ColorAt
    <3> QED
      BY <2>1, <3>2, <3>3, <1>5
  <2> QED
    BY <2>2, <2>3
<1>7. CASE OfferStands(oCoordRdy)
  <2>1. Passed(x, y) /\ cgState # "s_init"
    BY <1>7 DEF OfferStands, cgVars, Passed
  <2> QED
    BY <2>1, <1>2, <1>5
<1>8. CASE NextColumn(view)
  <2>1. Passed(x, y) /\ cgState # "s_init"
    BY <1>0, <1>8 DEF NextColumn, Passed
  <2> QED
    BY <2>1, <1>2, <1>5
<1>9. CASE NextLine(view)
  <2>1. Passed(x, y) /\ cgState # "s_init"
    BY <1>0, <1>9 DEF NextLine, Passed
  <2> QED
    BY <2>1, <1>2, <1>5
<1>10. CASE LastPoint \/ Complete
  <2>1. Passed(x, y) /\ cgState # "s_init"
    BY <1>10 DEF LastPoint, Complete, Passed
  <2> QED
    BY <2>1, <1>2, <1>5
<1> QED
  BY <1>0, <1>3, <1>4, <1>6, <1>7, <1>8, <1>9, <1>10 DEF CGEdge

\* Every step keeps the generator's invariant.
LEMMA GeneratorStep ==
    TypeOK /\ Handshake /\ GeneratorInv /\ [Next]_vars => GeneratorInv'
<1> SUFFICES ASSUME TypeOK, Handshake, GeneratorInv, [Next]_vars
             PROVE  GeneratorInv'
  OBVIOUS
<1>1. CASE Tick
  <2>1. drawTrigger' /\ sampled' => cgState' = "s_init"
    BY <1>1, TickParts DEF topVars, draw, CGEdge, Restart
  <2>2. GenShape' /\ GenCoord' /\ GenTaken'
    BY <1>1, GenShapeStep, GenCoordStep, GenTakenStep DEF GeneratorInv
  <2> QED
    BY <2>1, <2>2 DEF GeneratorInv
<1>2. ASSUME NEW v \in Views, CursorUpdate(v)
      PROVE  GeneratorInv'
  <2>1. UNCHANGED <<cgVars, accepted>> /\ ~sampled' /\ sampled
    BY <1>2 DEF CursorUpdate, historyVars
  <2>2. Steady' /\ cgState # "s_init" => Steady /\ view' = view
    BY <1>2, <2>1 DEF CursorUpdate, Steady, GeneratorInv, TypeOK
  <2> QED
    BY <2>1, <2>2 DEF GeneratorInv, GenShape, GenCoord, GenTaken, cgVars, Passed, PixelAt, ColorAt
<1>3. CASE Press \/ Release
  <2>1. UNCHANGED <<cgVars, accepted, view, oldView, drawTrigger, sampled>>
    BY <1>3 DEF Press, Release, historyVars
  <2> QED
    BY <2>1 DEF GeneratorInv, GenShape, GenCoord, GenTaken, cgVars, Passed, PixelAt, ColorAt, Steady
<1>4. CASE UNCHANGED vars
  <2>1. UNCHANGED <<cgVars, accepted, view, oldView, drawTrigger, sampled>>
    BY <1>4 DEF vars, historyVars, topVars
  <2> QED
    BY <2>1 DEF GeneratorInv, GenShape, GenCoord, GenTaken, cgVars, Passed, PixelAt, ColorAt, Steady
<1> QED
  BY <1>1, <1>2, <1>3, <1>4 DEF Next

\* The strengthening that carries the frame properties is inductive.
THEOREM GeneratorInvHolds == Spec => []GeneratorInv
<1>1. Init => GeneratorInv
  BY DEF Init, CGInit, GeneratorInv, GenShape, GenCoord, GenTaken
<1> QED
  BY <1>1, GeneratorStep, TypeCorrect, HandshakeHolds, PTL DEF Spec

\* A view change in the middle of a frame never goes unnoticed: unless a
\* redraw is due, the generator is at a coordinate of the current view.
THEOREM ViewIsCoherent == Spec => []ViewCoherent
<1>1. GeneratorInv => ViewCoherent
  BY DEF GeneratorInv, GenCoord, ViewCoherent, Settled, Steady, draw, ColorAt
<1> QED
  BY <1>1, GeneratorInvHolds, PTL

\* A finished frame has every pixel of the current view written.
THEOREM FrameIsComplete == Spec => []FrameComplete
<1>1. TypeOK /\ GeneratorInv /\ NoPixelLost => FrameComplete
  <2> SUFFICES ASSUME TypeOK, GeneratorInv, NoPixelLost, FrameFinished, Settled,
                      NEW x \in 0 .. Width, NEW y \in 0 .. Height, InFrame(x, y)
               PROVE  PixelAt(view, x, y) \in stored
    BY DEF FrameComplete
  <2>1. cgState = "s_complete" /\ Steady
    BY DEF FrameFinished, Settled, Steady, draw
  <2>2. vgaY = Height /\ vgaX = 0
    BY <2>1 DEF GeneratorInv, GenShape
  <2>3. Passed(x, y)
    BY <2>1, <2>2, SizeAssumption DEF Passed, InFrame
  <2>4. PixelAt(view, x, y) \in accepted
    BY <2>1, <2>3 DEF GeneratorInv, GenTaken
  <2>5. InFlight = {}
    BY DEF FrameFinished, InFlight
  <2> QED
    BY <2>4, <2>5 DEF NoPixelLost
<1> QED
  BY <1>1, TypeCorrect, GeneratorInvHolds, NoPixelIsLost, PTL
=============================================================================
