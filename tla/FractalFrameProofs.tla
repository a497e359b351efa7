--------------------------- MODULE FractalFrameProofs ---------------------------
(***************************************************************************)
(* Proofs about what is on the screen when the engine has finished: no     *)
(* wrong pixel and no work done twice in the first frame, and a bound on   *)
(* the wrong pixels after any number of redraws.                           *)
(***************************************************************************)
EXTENDS FractalEngineProofs, FiniteSetTheorems

\* px is a pixel of the frame of the current view.
OfFrame(px) ==
    \E x \in 0 .. Width, y \in 0 .. Height : InFrame(x, y) /\ px = PixelAt(view, x, y)

\* What the framebuffer shows at address a.
Shown(a) == [at |-> a, color |-> frameBuffer[a]]
-----------------------------------------------------------------------------
(* Positions and addresses. *)

\* Every address of the screen but the first has a position in the walk.
LEMMA EveryAddress ==
    ASSUME NEW a \in 1 .. Width * Height - 1
    PROVE  \E x \in 0 .. Width, y \in 0 .. Height : InFrame(x, y) /\ VGACoord(x, y) = a
<1>0. Width \in Nat \ {0} /\ Height \in Nat \ {0} /\ Width * Height \in Nat
  BY SizeAssumption
<1> DEFINE T == {y \in Nat : a < Width * (y + 1)}
<1>1. PICK y \in T : \A z \in T : ~(z < y)
  <2>1. Height - 1 \in T
    BY <1>0
  <2> HIDE DEF T
  <2>2. T \subseteq Nat
    BY DEF T
  <2>3. \E x \in T : \A z \in T : ~(<<z, x>> \in OpToRel(<, Nat))
    BY <2>1, <2>2, NatLessThanWellFounded, WFMin
  <2> QED
    BY <2>2, <2>3 DEF OpToRel
<1>2. y \in Nat /\ a < Width * (y + 1) /\ Width * (y + 1) = Width * y + Width
        /\ Width * y \in Nat
  BY <1>0, <1>1
<1>3. y <= Height - 1
  <2>1. Height - 1 \in T
    BY <1>0
  <2> QED
    BY <2>1, <1>0, <1>1
<1>4. Width * y <= a
  <2>1. CASE y = 0
    BY <2>1, <1>0
  <2>2. CASE y # 0
    <3>1. y - 1 \in Nat /\ y - 1 \notin T
      BY <2>2, <1>1, <1>2
    <3>2. ~(a < Width * ((y - 1) + 1)) /\ (y - 1) + 1 = y
      BY <3>1, <1>2
    <3> QED
      BY <3>2, <1>2
  <2> QED
    BY <2>1, <2>2
<1> DEFINE x == a - Width * y
<1>5. x \in 0 .. Width /\ y \in 0 .. Height /\ y < Height
  BY <1>0, <1>2, <1>3, <1>4
<1>6. VGACoord(x, y) = a
  BY <1>0, <1>2 DEF VGACoord
<1>7. x > 0 \/ y > 0
  <2>1. y = 0 => x = a
    BY <1>0
  <2> QED
    BY <2>1, <1>2
<1> QED
  BY <1>5, <1>6, <1>7 DEF InFrame

\* Where two columns have different coordinates, no pixel belongs to two
\* positions: column Width and the next column 0 share an address only.
LEMMA OnePosition ==
    ASSUME NEW v \in Views, XSize[v] # 0,
           NEW x \in 0 .. Width, NEW y \in 0 .. Height,
           NEW p \in 0 .. Width, NEW q \in 0 .. Height,
           PixelAt(v, x, y) = PixelAt(v, p, q)
    PROVE  x = p /\ y = q
<1> DEFINE ux == UpperLeftX[v]  sx == XSize[v]
<1>0. Width \in Nat \ {0} /\ Height \in Nat \ {0} /\ ux \in Int /\ sx \in Int
  BY SizeAssumption, ViewAssumption DEF Coord
<1>1. x + Width * y = p + Width * q
  BY DEF PixelAt, VGACoord
<1>2. ux + x * sx = ux + p * sx
  BY DEF PixelAt, ColorAt
<1>3. sx # 0
  OBVIOUS
<1> HIDE DEF ux, sx
<1>4. x * sx \in Int /\ p * sx \in Int /\ x * sx = p * sx
  BY <1>0, <1>2
<1>5. (x - p) * sx = 0
  BY <1>0, <1>4
<1>6. x = p
  BY <1>0, <1>3, <1>5
<1>7. Width * (y - q) = 0
  BY <1>0, <1>1, <1>6
<1>8. y - q = 0
  BY <1>0, <1>7
<1> QED
  BY <1>0, <1>6, <1>8
-----------------------------------------------------------------------------
(* One edge of CLOCK_50. *)

\* The generator offers no position outside the frame: it starts after
\* (0, 0).
OffersInFrame == cgState = "s_waiting" => vgaX > 0 \/ vgaY > 0

\* Every step keeps the offers in the frame.
LEMMA OffersStep == TypeOK /\ OffersInFrame /\ [Next]_vars => OffersInFrame'
<1> SUFFICES ASSUME TypeOK, OffersInFrame, [Next]_vars
             PROVE  OffersInFrame'
  OBVIOUS
<1> USE DEF OffersInFrame
<1>1. CASE ~Tick
  BY <1>1, OtherSteps DEF cgVars
<1>2. CASE Tick
  <2>1. vgaX \in Nat /\ vgaY \in Nat
    BY SizeAssumption DEF TypeOK, CGTypeOK
  <2>2. CGEdge(reset \/ draw, view, oCoordRdy)
    BY <1>2, TickParts
  <2> QED
    BY <2>1, <2>2 DEF CGEdge, Restart, StartFrame, OfferTaken, OfferStands, NextColumn,
                NextLine, LastPoint, Complete, cgVars
<1> QED
  BY <1>1, <1>2

\* The point on the bus after an edge was there before, or is taken now.
LEMMA BusFrom ==
    ASSUME TypeOK, Tick, BusPending'
    PROVE  \/ Takes /\ full' /\ bus' = Offered
           \/ full /\ bus' = bus /\ ~Takes
<1>1. LBEdge(reset, oLoadDistVal, Offered, ProcReady \cap Seen)
  BY TickParts
<1>2. CASE LBReset /\ reset
  BY <1>2 DEF LBReset, BusPending
<1>3. CASE LBIntake(oLoadDistVal, Offered) /\ ~reset
  BY <1>3 DEF LBIntake, Takes
<1>4. CASE LBIdle(oLoadDistVal)
  BY <1>4 DEF LBIdle, BusPending
<1>5. CASE LBDispatch(ProcReady \cap Seen)
  BY <1>5 DEF LBDispatch, Takes
<1>6. CASE LBWait(oLoadDistVal, ProcReady \cap Seen)
  BY <1>6 DEF LBWait, BusPending, Takes
<1> QED
  BY <1>1, <1>2, <1>3, <1>4, <1>5, <1>6 DEF LBEdge

\* A busy processor has its pixel from before the edge, or from the bus,
\* which then has no point in the queue.
LEMMA BusyFrom ==
    ASSUME TypeOK, Handshake, Tick, NEW p \in Procs, Busy(p)'
    PROVE  \/ Busy(p) /\ PixelIn(p)' = PixelIn(p) /\ ~(proc[p].state = "s_store" /\ p \in oProcRdy)
           \/ p \in oDataVal /\ ~full /\ PixelIn(p)' = PixelOf(bus) /\ ~Busy(p)
<1>1. PICK esc : ProcEdge(oDataVal, bus, oProcRdy, esc)
  BY TickParts
<1>2. ProcTypeOK /\ bus \in Point
  BY DEF TypeOK, LBTypeOK
<1>3. proc[p].state \in ProcStates
  BY <1>2 DEF ProcTypeOK, Processor
<1>4. CASE proc[p].state = "s_init"
  BY <1>4, <1>1, <1>2, ProcCases DEF Busy
<1>5. CASE proc[p].state = "s_waiting" /\ p \in oDataVal
  <2>1. ~full
    BY <1>5 DEF Handshake, OneLoads
  <2> QED
    BY <2>1, <1>5, <1>1, <1>2, ProcCases DEF Busy, PixelIn, PixelOf
<1>6. CASE proc[p].state = "s_waiting" /\ p \notin oDataVal
  BY <1>6, <1>1, <1>2, ProcCases DEF Busy
<1>7. CASE proc[p].state = "s_processing"
  BY <1>7, <1>1, <1>2, ProcCases DEF Busy, PixelIn
<1>8. CASE proc[p].state = "s_store" /\ p \in oProcRdy
  BY <1>8, <1>1, <1>2, ProcCases DEF Busy
<1>9. CASE proc[p].state = "s_store" /\ p \notin oProcRdy
  BY <1>9, <1>1, <1>2, ProcCases DEF Busy, PixelIn
<1> QED
  BY <1>3, <1>4, <1>5, <1>6, <1>7, <1>8, <1>9 DEF ProcStates

\* Nothing gets on its way but the point taken from the generator.
LEMMA InFlightFrom ==
    ASSUME TypeOK, Handshake, Tick, NEW px \in InFlight'
    PROVE  px \in InFlight \/ (Takes /\ px = PixelOf(Offered))
<1>1. CASE BusPending' /\ px = PixelOf(bus)'
  <2>1. CASE Takes /\ bus' = Offered
    BY <2>1, <1>1 DEF PixelOf
  <2>2. CASE full /\ bus' = bus
    BY <2>2, <1>1 DEF PixelOf, InFlight, BusPending
  <2> QED
    BY <2>1, <2>2, <1>1, BusFrom
<1>2. ASSUME NEW p \in Procs, Busy(p)', px = PixelIn(p)'
      PROVE  px \in InFlight
  BY <1>2, BusyFrom DEF InFlight, BusPending
<1> QED
  BY <1>1, <1>2 DEF InFlight

\* Outside a reset a pixel on its way stays so, or is written.
LEMMA InFlightKept ==
    ASSUME TypeOK, Handshake, Tick, ~reset, NEW px \in InFlight
    PROVE  px \in InFlight' \/ (w_en /\ px = PixelWritten)
<1>1. CASE BusPending /\ px = PixelOf(bus)
  BY <1>1, BusStep
<1>2. ASSUME NEW p \in Procs, Busy(p), px = PixelIn(p)
      PROVE  px \in InFlight' \/ (w_en /\ px = PixelWritten)
  BY <1>2, BusyStep DEF InFlight
<1> QED
  BY <1>1, <1>2 DEF InFlight

\* The point taken is the pixel of the generator's position.
LEMMA TakenPixel ==
    ASSUME TypeOK, GeneratorInv, OffersInFrame, Takes, Steady, cgState # "s_init"
    PROVE  /\ PixelOf(Offered) = PixelAt(view, vgaX, vgaY)
           /\ cgState = "s_waiting"
           /\ vgaX \in 0 .. Width /\ vgaY \in 0 .. Height
           /\ InFrame(vgaX, vgaY)
<1>1. cgState = "s_waiting"
  BY DEF Takes, GeneratorInv, GenShape
<1>2. vgaX \in 0 .. Width /\ vgaY \in 0 .. Height
  BY DEF TypeOK, CGTypeOK
<1>3. InFrame(vgaX, vgaY)
  BY <1>1, <1>2, SizeAssumption DEF OffersInFrame, GeneratorInv, GenShape, InFrame
<1>4. PixelOf(Offered) = PixelAt(view, vgaX, vgaY)
  BY DEF GeneratorInv, GenCoord, PixelOf, Offered, PixelAt, ColorAt
<1> QED
  BY <1>1, <1>2, <1>3, <1>4

\* Within a frame the walk goes on, and passes a position only by taking it.
LEMMA PassedStep ==
    ASSUME TypeOK, Handshake, GeneratorInv, Tick, cgState # "s_init", cgState' # "s_init",
           NEW x \in 0 .. Width, NEW y \in 0 .. Height
    PROVE  /\ ~reset /\ ~draw /\ ~NewFrame
           /\ Passed(x, y) => Passed(x, y)'
           /\ Passed(x, y)' /\ ~Passed(x, y) => Takes /\ x = vgaX /\ y = vgaY
           /\ Takes /\ x = vgaX /\ y = vgaY => Passed(x, y)'
<1>0. /\ Width \in Nat \ {0} /\ Height \in Nat \ {0}
      /\ vgaX \in 0 .. Width /\ vgaY \in 0 .. Height
      /\ CGEdge(reset \/ draw, view, oCoordRdy)
  BY SizeAssumption, TickParts DEF TypeOK, CGTypeOK
<1>1. ~reset /\ ~draw /\ ~NewFrame
  BY <1>0 DEF CGEdge, Restart, NewFrame
<1>2. Takes => cgState = "s_waiting" /\ oCoordRdy /\ oLoadDistVal
  BY DEF Takes, GeneratorInv, GenShape
<1>3. CASE OfferTaken(oCoordRdy)
  <2>1. /\ cgState = "s_waiting" /\ cgState' = "s_getNextValue"
        /\ vgaX' = vgaX /\ vgaY' = vgaY
        /\ oLoadDistVal => oCoordRdy
    BY <1>3 DEF OfferTaken
  <2>2. Takes
    BY <2>1, <1>1 DEF GeneratorInv, GenShape, Takes, Handshake, RdyMeansEmpty
  <2> QED
    BY <2>1, <2>2, <1>1 DEF Passed
<1>4. CASE OfferStands(oCoordRdy)
  BY <1>1, <1>2, <1>4 DEF OfferStands, cgVars, Passed
<1>5. CASE NextColumn(view)
  BY <1>0, <1>1, <1>2, <1>5 DEF NextColumn, Passed
<1>6. CASE NextLine(view)
  BY <1>0, <1>1, <1>2, <1>6 DEF NextLine, Passed
<1>7. CASE LastPoint \/ Complete
  BY <1>1, <1>2, <1>7 DEF LastPoint, Complete, Passed
<1> QED
  BY <1>0, <1>1, <1>3, <1>4, <1>5, <1>6, <1>7 DEF CGEdge, StartFrame
-----------------------------------------------------------------------------
(* The first frame. *)

\* Nobody has asked for a redraw.
Undisturbed ==
    /\ view = View0 /\ oldView = View0
    /\ ~drawTrigger /\ ~key0 /\ ~key3
    /\ cgState = "s_init" => ~oLoadDistVal /\ accepted = {}

\* What the balancer took are the positions the generator has gone past.
AcceptedPassed ==
    \A px \in accepted :
        \E x \in 0 .. Width, y \in 0 .. Height :
            InFrame(x, y) /\ Passed(x, y) /\ px = PixelAt(view, x, y)

\* Whatever is on its way, on the write port or on the screen was taken in
\* this frame, and what was written is on the screen.
OnlyAccepted ==
    /\ InFlight \subseteq accepted
    /\ w_en => PixelWritten \in accepted
    /\ \A a \in Addresses : frameBuffer[a] # NoColor => Shown(a) \in accepted
    /\ \A px \in stored : frameBuffer[px.at] # NoColor

\* A pixel is in one place.
OnePlace ==
    /\ \A p, q \in Procs :
          p # q /\ Busy(p) /\ Busy(q) => PixelIn(p) # PixelIn(q)
    /\ \A p \in Procs : BusPending /\ Busy(p) => PixelIn(p) # PixelOf(bus)

FirstFrame ==
    events = 0 => Undisturbed /\ AcceptedPassed /\ OnlyAccepted /\ OnePlace

\* An edge in a frame nobody disturbs starts it or goes on with it.
LEMMA UndisturbedEdge ==
    ASSUME TypeOK, GeneratorInv, Undisturbed, Tick
    PROVE  /\ Undisturbed'
           /\ ~reset /\ Steady /\ Steady' /\ view' = view
           /\ NewFrame <=> cgState = "s_init"
           /\ cgState' # "s_init"
           /\ Takes => cgState # "s_init"
<1>1. /\ CGEdge(reset \/ draw, view, oCoordRdy)
      /\ UNCHANGED <<view, oldView, drawTrigger, key0, key3, events>>
  BY TickParts DEF topVars
<1>2. ~reset /\ ~draw
  BY DEF Undisturbed, reset, draw
<1>3. cgState' # "s_init"
  BY <1>1, <1>2 DEF CGEdge, StartFrame, OfferTaken, OfferStands, NextColumn,
                NextLine, LastPoint, Complete, cgVars
<1> QED
  BY <1>1, <1>2, <1>3 DEF Undisturbed, Steady, NewFrame, Takes

\* What is on the screen after an edge was there, or was on the write port.
LEMMA ShownFrom ==
    ASSUME TypeOK, Tick, NEW a \in Addresses
    PROVE  \/ w_en /\ addr = a /\ Shown(a)' = PixelWritten
           \/ ~(w_en /\ addr = a) /\ Shown(a)' = Shown(a)
<1>1. WritePort
  BY TickParts DEF ArbEdge
<1>2. frameBuffer \in [Addresses -> Color \cup {NoColor}] /\ w_en \in BOOLEAN
  BY DEF TypeOK, ArbTypeOK
<1> QED
  BY <1>1, <1>2 DEF WritePort, Shown, PixelWritten

\* What is on the write port after an edge was in a processor before.
LEMMA WrittenFrom ==
    ASSUME TypeOK, Handshake, Tick, w_en'
    PROVE  \E p \in Procs : /\ oProcRdy' = {p}
                            /\ proc[p].state = "s_store"
                            /\ PixelWritten' = PixelIn(p)
<1> DEFINE vga == [p \in Procs |-> proc[p].oVGACoord]
           col == [p \in Procs |-> proc[p].coord]
<1>1. Grant(ProcVal, vga, col)
  BY TickParts DEF ArbEdge, NoGrant
<1>2. PICK p \in msbOneHot(ProcVal) :
         oProcRdy' = {p} /\ w_en' = TRUE /\ addr' = vga[p] /\ data' = col[p]
  BY <1>1 DEF Grant
<1>3. p \in Procs /\ proc[p].oVGAVal
  BY DEF msbOneHot, ProcVal
<1> QED
  BY <1>2, <1>3 DEF Handshake, ValMeansStore, PixelWritten, PixelIn

\* An edge of the first frame accepts the position it passes, once.
LEMMA AcceptedEdge ==
    ASSUME TypeOK, Handshake, GeneratorInv, OffersInFrame, Undisturbed, AcceptedPassed, Tick
    PROVE  /\ AcceptedPassed'
           /\ Takes => PixelOf(Offered) \in accepted' \ accepted
           /\ accepted \subseteq accepted'
<1>0. /\ ~reset /\ Steady /\ view' = view
      /\ NewFrame <=> cgState = "s_init"
      /\ cgState' # "s_init"
      /\ Takes => cgState # "s_init"
  BY UndisturbedEdge
<1>1. accepted' = IF NewFrame THEN {}
                  ELSE accepted \cup {px \in {PixelOf(Offered)} : Takes}
  BY TickParts DEF Record
<1>2. CASE cgState = "s_init"
  BY <1>0, <1>1, <1>2 DEF Undisturbed, AcceptedPassed
<1>3. CASE cgState # "s_init"
  <2>1. accepted' = accepted \cup {px \in {PixelOf(Offered)} : Takes}
    BY <1>0, <1>1, <1>3
  <2>2. ASSUME NEW px \in accepted
        PROVE  \E x \in 0 .. Width, y \in 0 .. Height :
                  InFrame(x, y) /\ Passed(x, y)' /\ px = PixelAt(view, x, y)
    BY <1>0, <1>3, PassedStep DEF AcceptedPassed
  <2>3. ASSUME Takes
        PROVE  /\ \E x \in 0 .. Width, y \in 0 .. Height :
                  /\ InFrame(x, y) /\ Passed(x, y)'
                  /\ PixelOf(Offered) = PixelAt(view, x, y)
               /\ PixelOf(Offered) \notin accepted
    <3>1. /\ PixelOf(Offered) = PixelAt(view, vgaX, vgaY)
          /\ cgState = "s_waiting"
          /\ vgaX \in 0 .. Width /\ vgaY \in 0 .. Height
          /\ InFrame(vgaX, vgaY)
      BY <1>0, <1>3, <2>3, TakenPixel
    <3>2. PICK x \in 0 .. Width, y \in 0 .. Height : x = vgaX /\ y = vgaY
      BY <3>1
    <3>3. Passed(x, y)'
      BY <1>0, <1>3, <2>3, <3>2, PassedStep
    <3>4. ASSUME NEW u \in 0 .. Width, NEW w \in 0 .. Height, Passed(u, w),
                 PixelOf(Offered) = PixelAt(view, u, w)
          PROVE  FALSE
      <4>1. view \in Views /\ XSize[view] # 0
        BY ViewAssumption DEF Undisturbed
      <4>2. u = vgaX /\ w = vgaY
        BY <3>1, <3>4, <4>1, OnePosition
      <4> QED
        BY <3>1, <3>4, <4>2, SizeAssumption DEF Passed
    <3>5. PixelOf(Offered) \notin accepted
      BY <3>4 DEF AcceptedPassed
    <3> QED
      BY <3>1, <3>2, <3>3, <3>5
  <2>4. \A px \in accepted' : \E x \in 0 .. Width, y \in 0 .. Height :
           InFrame(x, y) /\ Passed(x, y)' /\ px = PixelAt(view, x, y)
    BY <2>1, <2>2, <2>3
  <2> QED
    BY <1>0, <2>1, <2>3, <2>4 DEF AcceptedPassed, PixelAt, ColorAt
<1> QED
  BY <1>2, <1>3

\* An edge of the first frame brings nothing on the way or on the screen
\* that was not taken.
LEMMA OnlyAcceptedEdge ==
    ASSUME TypeOK, Handshake, GeneratorInv, OffersInFrame, Undisturbed, AcceptedPassed,
           OnlyAccepted, Tick
    PROVE  OnlyAccepted'
<1>0. /\ Takes => PixelOf(Offered) \in accepted'
      /\ accepted \subseteq accepted'
  BY AcceptedEdge
<1>1. InFlight' \subseteq accepted'
  BY <1>0, InFlightFrom DEF OnlyAccepted
<1>2. w_en' => PixelWritten' \in accepted'
  <2> SUFFICES ASSUME w_en'
               PROVE  PixelWritten' \in accepted'
    OBVIOUS
  <2>1. PICK p \in Procs : proc[p].state = "s_store" /\ PixelWritten' = PixelIn(p)
    BY WrittenFrom
  <2>2. PixelIn(p) \in InFlight
    BY <2>1 DEF InFlight, Busy
  <2> QED
    BY <2>1, <2>2, <1>0 DEF OnlyAccepted
<1>3. ASSUME NEW a \in Addresses
      PROVE  /\ frameBuffer'[a] # NoColor => Shown(a)' \in accepted'
             /\ frameBuffer[a] # NoColor => frameBuffer'[a] # NoColor
             /\ w_en /\ addr = a => frameBuffer'[a] # NoColor
  <2>1. CASE w_en /\ addr = a /\ Shown(a)' = PixelWritten
    <3>1. frameBuffer'[a] = data
      BY <2>1 DEF Shown, PixelWritten
    <3>2. data # NoColor
      BY NoColorAssumption DEF TypeOK, ArbTypeOK
    <3> QED
      BY <2>1, <3>1, <3>2, <1>0 DEF OnlyAccepted
  <2>2. CASE ~(w_en /\ addr = a) /\ Shown(a)' = Shown(a)
    <3>1. frameBuffer'[a] = frameBuffer[a]
      BY <2>2 DEF Shown
    <3> QED
      BY <2>2, <3>1, <1>0 DEF OnlyAccepted
  <2> QED
    BY <2>1, <2>2, ShownFrom
<1>4. ASSUME NEW px \in stored'
      PROVE  frameBuffer'[px.at] # NoColor
  <2>1. px \in stored \/ (w_en /\ px = PixelWritten)
    BY <1>4, TickParts DEF Record
  <2>2. CASE px \in stored
    <3>1. px.at \in Addresses
      BY <2>2 DEF TypeOK, Pixel
    <3> QED
      BY <2>2, <3>1, <1>3 DEF OnlyAccepted
  <2>3. CASE w_en /\ px = PixelWritten
    <3>1. px.at = addr /\ addr \in Addresses
      BY <2>3 DEF PixelWritten, TypeOK, ArbTypeOK
    <3> QED
      BY <2>3, <3>1, <1>3
  <2> QED
    BY <2>1, <2>2, <2>3
<1> QED
  BY <1>1, <1>2, <1>3, <1>4 DEF OnlyAccepted

\* An edge of the first frame hands a pixel on, and never copies it.
LEMMA OnePlaceEdge ==
    ASSUME TypeOK, Handshake, GeneratorInv, OffersInFrame, Undisturbed, AcceptedPassed,
           OnlyAccepted, OnePlace, Tick
    PROVE  OnePlace'
<1>1. ASSUME NEW p \in Procs, NEW q \in Procs, p # q, Busy(p)', Busy(q)'
      PROVE  PixelIn(p)' # PixelIn(q)'
  <2>1. /\ \/ Busy(p) /\ PixelIn(p)' = PixelIn(p)
           \/ p \in oDataVal /\ PixelIn(p)' = PixelOf(bus)
        /\ \/ Busy(q) /\ PixelIn(q)' = PixelIn(q)
           \/ q \in oDataVal /\ PixelIn(q)' = PixelOf(bus)
    BY <1>1, BusyFrom
  <2>2. ~(p \in oDataVal /\ q \in oDataVal)
    BY <1>1 DEF Handshake, OneLoads
  <2>3. p \in oDataVal \/ q \in oDataVal => BusPending
    BY DEF BusPending
  <2> QED
    BY <1>1, <2>1, <2>2, <2>3 DEF OnePlace
<1>2. ASSUME NEW p \in Procs, BusPending', Busy(p)'
      PROVE  PixelIn(p)' # PixelOf(bus)'
  <2>1. \/ Busy(p) /\ PixelIn(p)' = PixelIn(p)
        \/ p \in oDataVal /\ ~full /\ PixelIn(p)' = PixelOf(bus)
    BY <1>2, BusyFrom
  <2>2. CASE Takes /\ bus' = Offered
    <3>1. PixelIn(p)' \in InFlight
      BY <2>1 DEF InFlight, BusPending
    <3>2. PixelOf(bus)' \notin accepted
      BY <2>2, AcceptedEdge DEF PixelOf
    <3> QED
      BY <3>1, <3>2 DEF OnlyAccepted
  <2>3. CASE full /\ bus' = bus
    BY <2>1, <2>3, <1>2 DEF OnePlace, BusPending, PixelOf
  <2> QED
    BY <2>2, <2>3, <1>2, BusFrom
<1> QED
  BY <1>1, <1>2 DEF OnePlace

\* Every step keeps the first frame undisturbed, or is counted.
LEMMA FirstFrameStep ==
    TypeOK /\ Handshake /\ GeneratorInv /\ OffersInFrame /\ FirstFrame /\ [Next]_vars
        => FirstFrame'
<1> SUFFICES ASSUME TypeOK, Handshake, GeneratorInv, OffersInFrame, FirstFrame,
                    [Next]_vars, events' = 0
             PROVE  (Undisturbed /\ AcceptedPassed /\ OnlyAccepted /\ OnePlace)'
  BY DEF FirstFrame
<1>1. events \in Nat
  BY EventAssumption DEF TypeOK
<1>2. events = 0
  BY <1>1 DEF Next, Tick, CursorUpdate, Press, Release, vars, topVars
<1>3. Undisturbed /\ AcceptedPassed /\ OnlyAccepted /\ OnePlace
  BY <1>2 DEF FirstFrame
<1>4. CASE Tick
  BY <1>3, <1>4, UndisturbedEdge, AcceptedEdge, OnlyAcceptedEdge, OnePlaceEdge
<1>5. CASE ~Tick
  <2>1. UNCHANGED <<cgVars, lbVars, proc, arbVars, historyVars>>
    BY <1>5, OtherSteps
  <2>2. /\ view' = view /\ oldView' = oldView /\ ~drawTrigger' /\ ~key0' /\ ~key3'
    <3>1. ASSUME NEW v \in Views, CursorUpdate(v)
          PROVE  view' = view /\ oldView' = oldView /\ ~drawTrigger' /\ UNCHANGED <<key0, key3>>
      <4>1. v = view
        BY <1>1, <1>2, <3>1 DEF CursorUpdate
      <4> QED
        BY <1>3, <3>1, <4>1 DEF CursorUpdate, Undisturbed
    <3>2. ~Press
      BY <1>1, <1>2 DEF Press
    <3>3. ~Release
      BY <1>3 DEF Release, Undisturbed
    <3>4. CASE UNCHANGED vars
      BY <1>3, <3>4 DEF vars, topVars, Undisturbed
    <3> QED
      BY <1>3, <1>5, <3>1, <3>2, <3>3, <3>4 DEF Next, Undisturbed
  <2>3. Undisturbed'
    BY <2>1, <2>2, <1>3 DEF Undisturbed, cgVars, historyVars
  <2>4. AcceptedPassed'
    BY <2>1, <2>2, <1>3 DEF AcceptedPassed, cgVars, historyVars, Passed, PixelAt, ColorAt
  <2>5. OnlyAccepted' /\ OnePlace'
    BY <2>1, <1>3 DEF OnlyAccepted, OnePlace, InFlight, BusPending, Busy, PixelIn, PixelOf,
                      PixelWritten, Shown, lbVars, arbVars, historyVars
  <2> QED
    BY <2>3, <2>4, <2>5
<1> QED
  BY <1>4, <1>5

\* The first frame is drawn from what the generator walks over, and every
\* pixel of it is in one place.
LEMMA FirstFrameHolds == Spec => [](OffersInFrame /\ FirstFrame)
<1>1. Init => OffersInFrame /\ FirstFrame
  <2> SUFFICES ASSUME Init
               PROVE  OffersInFrame /\ FirstFrame
    OBVIOUS
  <2>1. InFlight = {}
    BY DEF Init, LBInit, ProcInit, InFlight, BusPending, Busy
  <2>2. \A p \in Procs : ~Busy(p)
    BY DEF Init, ProcInit, Busy
  <2> QED
    BY <2>1, <2>2 DEF Init, CGInit, ArbInit, OffersInFrame, FirstFrame, Undisturbed,
                      AcceptedPassed, OnlyAccepted, OnePlace
<1> QED
  BY <1>1, OffersStep, FirstFrameStep, TypeCorrect, HandshakeHolds, GeneratorInvHolds, PTL
     DEF Spec

\* In the first frame no pixel is computed twice at a time: the handshakes
\* hand every point on exactly once.
THEOREM NoWorkIsDoubled == Spec => []NoDoubleWork
<1>1. FirstFrame => NoDoubleWork
  BY DEF FirstFrame, OnePlace, NoDoubleWork, BusPending
<1> QED
  BY <1>1, FirstFrameHolds, PTL

\* When the first frame is finished every address of the screen but the
\* first shows a pixel of the view.
THEOREM FirstFrameIsExact == Spec => []FrameExact
<1>1. FirstFrame /\ FrameComplete => FrameExact
  <2> SUFFICES ASSUME FirstFrame, FrameComplete, FrameFinished, events = 0,
                      NEW a \in 1 .. Width * Height - 1
               PROVE  OfFrame(Shown(a))
    BY DEF FrameExact, WrongPixels, OfFrame, Shown
  <2>1. Undisturbed /\ AcceptedPassed /\ OnlyAccepted
    BY DEF FirstFrame
  <2>2. Settled
    BY <2>1 DEF Undisturbed, Settled, draw, reset
  <2>3. PICK x \in 0 .. Width, y \in 0 .. Height : InFrame(x, y) /\ VGACoord(x, y) = a
    BY EveryAddress
  <2>4. PixelAt(view, x, y) \in stored /\ PixelAt(view, x, y).at = a
    BY <2>2, <2>3 DEF FrameComplete, PixelAt
  <2>5. a \in Addresses
    BY SizeAssumption DEF Addresses, VGACoord
  <2>6. Shown(a) \in accepted
    BY <2>1, <2>4, <2>5 DEF OnlyAccepted
  <2> QED
    BY <2>1, <2>6 DEF AcceptedPassed, OfFrame
<1> QED
  BY <1>1, FirstFrameHolds, FrameIsComplete, PTL
-----------------------------------------------------------------------------
(* Redraws. A pixel is stale when it belongs to a view of before. *)

\* Only the processors on the balancer's ports ever work.
BusySeen == \A p \in Procs : Busy(p) => p \in Seen

\* The arbiter's second grant of a result writes what is there already.
PortInv ==
    w_en => \/ frameBuffer[addr] = data
            \/ \E p \in oProcRdy : proc[p].state = "s_store"

\* Address a will still get a pixel of the frame.
ToCome(a) ==
    \E x \in 0 .. Width, y \in 0 .. Height :
        /\ InFrame(x, y) /\ VGACoord(x, y) = a
        /\ Passed(x, y) => PixelAt(view, x, y) \in InFlight

\* Addresses that are wrong and will not be mended.
Spoiled == {a \in WrongPixels : ~ToCome(a)}

\* Processors that are going to write a stale pixel.
StaleProcs == {p \in Seen : Busy(p) /\ ~OfFrame(PixelIn(p))}

\* A processor has been given a point of this frame.
Handed == \E px \in accepted : ~(BusPending /\ px = PixelOf(bus))

\* The bus is a queue: behind a point of this frame comes no stale one.
BusInFrame == accepted # {} /\ BusPending => OfFrame(PixelOf(bus))

\* Each stale processor can spoil one address; and while one processor had
\* the first point of the frame at most the others were stale.
SpoilBound == Handed => Cardinality(Spoiled) + Cardinality(StaleProcs) < NumSeen

StaleInv ==
    /\ BusySeen
    /\ PortInv
    /\ Steady /\ cgState # "s_init" => BusInFrame /\ SpoilBound

\* The sets that are counted are finite.
LEMMA Counted ==
    ASSUME NEW D \in SUBSET (1 .. Width * Height - 1), NEW S \in SUBSET Seen
    PROVE  /\ IsFiniteSet(D) /\ Cardinality(D) \in Nat
           /\ IsFiniteSet(S) /\ Cardinality(S) \in Nat
           /\ S # Seen => Cardinality(S) < NumSeen
<1>0. NumSeen \in Nat \ {0} /\ Width * Height \in Nat
  BY SizeAssumption
<1>1. IsFiniteSet(Seen) /\ Cardinality(Seen) = NumSeen
  BY <1>0, FS_Interval DEF Seen
<1>2. IsFiniteSet(1 .. Width * Height - 1)
  BY <1>0, FS_Interval
<1>3. IsFiniteSet(D)
  BY <1>2, FS_Subset
<1>4. /\ IsFiniteSet(S) /\ Cardinality(S) <= Cardinality(Seen)
      /\ Cardinality(Seen) = Cardinality(S) => Seen = S
  BY <1>1, FS_Subset
<1>5. Cardinality(D) \in Nat /\ Cardinality(S) \in Nat
  BY <1>3, <1>4, FS_CardinalityType
<1> QED
  BY <1>0, <1>1, <1>3, <1>4, <1>5

\* An edge keeps work with the processors on the ports.
LEMMA BusySeenEdge ==
    ASSUME TypeOK, Handshake, BusySeen, Tick
    PROVE  BusySeen'
<1>1. ASSUME NEW p \in Procs, Busy(p)'
      PROVE  p \in Seen
  BY <1>1, BusyFrom DEF BusySeen, TypeOK, LBTypeOK
<1> QED
  BY <1>1 DEF BusySeen, Seen

\* A grant that is repeated repeats the pixel just written.
LEMMA PortEdge ==
    ASSUME TypeOK, Handshake, Tick
    PROVE  PortInv'
<1> SUFFICES ASSUME w_en'
             PROVE  \/ frameBuffer'[addr'] = data'
                    \/ \E p \in oProcRdy' : proc'[p].state = "s_store"
  BY DEF PortInv
<1>1. PICK p \in Procs : /\ oProcRdy' = {p}
                         /\ proc[p].state = "s_store"
                         /\ PixelWritten' = PixelIn(p)
  BY WrittenFrom
<1>2. PICK esc : ProcEdge(oDataVal, bus, oProcRdy, esc)
  BY TickParts
<1>3. ProcTypeOK /\ bus \in Point
  BY DEF TypeOK, LBTypeOK
<1>4. CASE p \notin oProcRdy
  <2>1. proc'[p].state = "s_store"
    BY <1>1, <1>2, <1>3, <1>4, ProcCases
  <2> QED
    BY <1>1, <2>1
<1>5. CASE p \in oProcRdy
  <2>1. w_en /\ PixelWritten = PixelIn(p)
    BY <1>1, <1>5 DEF Handshake, GrantMeansWrite
  <2>2. addr' = addr /\ data' = data
    BY <1>1, <2>1 DEF PixelWritten
  <2>3. addr \in Addresses
    BY DEF TypeOK, ArbTypeOK
  <2>4. PICK a \in Addresses : a = addr
    BY <2>3
  <2>5. frameBuffer'[a] = data
    BY <2>1, <2>4, ShownFrom DEF Shown, PixelWritten
  <2> QED
    BY <2>2, <2>4, <2>5
<1> QED
  BY <1>4, <1>5

\* The premises of an edge in the middle of a frame.
MidFrame ==
    /\ TypeOK /\ Handshake /\ GeneratorInv /\ OffersInFrame
    /\ Tick /\ Steady
    /\ cgState # "s_init" /\ cgState' # "s_init"

\* In the middle of a frame the view stays, and so do the pixels taken.
LEMMA MidFrameEdge ==
    ASSUME MidFrame
    PROVE  /\ ~reset /\ view' = view /\ Steady' /\ GenTaken'
           /\ accepted' = accepted \cup {px \in {PixelOf(Offered)} : Takes}
           /\ \A px : OfFrame(px)' <=> OfFrame(px)
<1>1. UNCHANGED <<view, oldView, drawTrigger>>
  BY TickParts DEF MidFrame, topVars
<1>2. ~NewFrame /\ ~reset
  <2>1. CGEdge(reset \/ draw, view, oCoordRdy)
    BY TickParts DEF MidFrame
  <2> QED
    BY <2>1 DEF MidFrame, CGEdge, Restart, NewFrame
<1>3. accepted' = accepted \cup {px \in {PixelOf(Offered)} : Takes}
  BY <1>2, TickParts DEF MidFrame, Record
<1>4. GenTaken'
  BY GenTakenStep DEF MidFrame, GeneratorInv
<1>5. \A px : OfFrame(px)' <=> OfFrame(px)
  BY <1>1 DEF OfFrame, PixelAt, ColorAt
<1> QED
  BY <1>1, <1>2, <1>3, <1>4, <1>5 DEF MidFrame, Steady

\* An address waiting for a pixel goes on waiting until it gets one.
LEMMA ToComeEdge ==
    ASSUME MidFrame, NEW a, ToCome(a)
    PROVE  ToCome(a)' \/ (w_en /\ addr = a /\ OfFrame(PixelWritten))
<1>0. ~reset /\ view' = view
  BY MidFrameEdge
<1>1. PICK x \in 0 .. Width, y \in 0 .. Height :
         /\ InFrame(x, y) /\ VGACoord(x, y) = a
         /\ Passed(x, y) => PixelAt(view, x, y) \in InFlight
  BY DEF ToCome
<1>2. CASE ~Passed(x, y)'
  BY <1>1, <1>2 DEF ToCome
<1>3. CASE Passed(x, y)' /\ ~Passed(x, y)
  <2>1. Takes /\ x = vgaX /\ y = vgaY
    BY <1>3, PassedStep DEF MidFrame
  <2>2. PixelOf(Offered) = PixelAt(view, x, y)
    BY <2>1, TakenPixel DEF MidFrame
  <2>3. LBIntake(oLoadDistVal, Offered)
    BY <2>1, TickParts DEF MidFrame, Takes, LBEdge, LBIdle, LBDispatch, LBWait
  <2>4. PixelOf(Offered) \in InFlight'
    BY <2>3 DEF LBIntake, InFlight, BusPending, PixelOf
  <2> QED
    BY <1>0, <1>1, <2>2, <2>4 DEF ToCome, PixelAt, ColorAt
<1>4. CASE PixelAt(view, x, y) \in InFlight'
  BY <1>0, <1>1, <1>4 DEF ToCome, PixelAt, ColorAt
<1>5. CASE PixelAt(view, x, y) \in InFlight /\ PixelAt(view, x, y) \notin InFlight'
  <2>1. w_en /\ PixelAt(view, x, y) = PixelWritten
    BY <1>0, <1>5, InFlightKept DEF MidFrame
  <2> QED
    BY <1>1, <2>1 DEF OfFrame, PixelAt, PixelWritten
<1> QED
  BY <1>1, <1>2, <1>3, <1>4, <1>5

\* The bus stays free of stale points.
LEMMA BusInFrameEdge ==
    ASSUME MidFrame, BusInFrame
    PROVE  BusInFrame'
<1> SUFFICES ASSUME accepted' # {}, BusPending'
             PROVE  OfFrame(PixelOf(bus)')
  <2>1. \A px : OfFrame(px)' <=> OfFrame(px)
    BY MidFrameEdge
  <2> QED
    BY <2>1 DEF BusInFrame, OfFrame, PixelAt, ColorAt
<1>1. CASE Takes /\ bus' = Offered
  <2>1. /\ PixelOf(Offered) = PixelAt(view, vgaX, vgaY) /\ InFrame(vgaX, vgaY)
        /\ vgaX \in 0 .. Width /\ vgaY \in 0 .. Height
    BY <1>1, TakenPixel DEF MidFrame
  <2> QED
    BY <1>1, <2>1 DEF OfFrame, PixelOf
<1>2. CASE full /\ bus' = bus /\ ~Takes
  <2>1. accepted # {} /\ BusPending
    BY <1>2, MidFrameEdge DEF BusPending
  <2> QED
    BY <1>2, <2>1 DEF BusInFrame, PixelOf
<1> QED
  BY <1>1, <1>2, BusFrom DEF MidFrame

\* The first point of the frame is given to a processor: nothing is spoiled
\* yet, and that processor is not stale.
LEMMA FirstHanded ==
    ASSUME MidFrame, BusInFrame, ~Handed, Handed'
    PROVE  Spoiled' = {} /\ StaleProcs' # Seen
<1>0. /\ ~reset /\ view' = view /\ Steady' /\ GenTaken'
      /\ accepted' = accepted \cup {px \in {PixelOf(Offered)} : Takes}
      /\ \A px : OfFrame(px)' <=> OfFrame(px)
  BY MidFrameEdge
<1>1. Takes => PixelOf(Offered) = PixelOf(bus)' /\ BusPending'
  <2> SUFFICES ASSUME Takes
               PROVE  PixelOf(Offered) = PixelOf(bus)' /\ BusPending'
    OBVIOUS
  <2>1. LBIntake(oLoadDistVal, Offered)
    BY TickParts DEF MidFrame, Takes, LBEdge, LBIdle, LBDispatch, LBWait
  <2> QED
    BY <2>1 DEF LBIntake, BusPending, PixelOf
<1>2. BusPending /\ accepted = {PixelOf(bus)}
  BY <1>0, <1>1 DEF Handed
<1>3. ~full
  <2> SUFFICES ASSUME full
               PROVE  FALSE
    OBVIOUS
  <2>1. ~Takes
    BY DEF Takes
  <2>2. LBDispatch(ProcReady \cap Seen) \/ LBWait(oLoadDistVal, ProcReady \cap Seen)
    BY <1>0, TickParts DEF MidFrame, LBEdge, LBIntake, LBIdle
  <2>3. bus' = bus /\ BusPending'
    <3>1. CASE LBWait(oLoadDistVal, ProcReady \cap Seen)
      BY <3>1 DEF LBWait, BusPending
    <3>2. CASE LBDispatch(ProcReady \cap Seen)
      <4>1. msbOneHot(ProcReady \cap Seen) # {}
        BY <3>2, MsbOneHotIsOne, SeenAreProcs DEF LBDispatch
      <4> QED
        BY <3>2, <4>1 DEF LBDispatch, BusPending
    <3> QED
      BY <2>2, <3>1, <3>2
  <2> QED
    BY <1>0, <1>2, <2>1, <2>3 DEF Handed, PixelOf
<1>4. PICK r \in oDataVal : TRUE
  BY <1>2, <1>3 DEF BusPending
<1>5. Busy(r)' /\ PixelIn(r)' = PixelOf(bus) /\ r \in Seen /\ r \in Procs
  <2>1. PICK esc : ProcEdge(oDataVal, bus, oProcRdy, esc)
    BY TickParts DEF MidFrame
  <2>2. ProcTypeOK /\ bus \in Point /\ oDataVal \subseteq Seen
    BY DEF MidFrame, TypeOK, LBTypeOK
  <2>3. r \in Procs /\ proc[r].state = "s_waiting"
    BY <1>3, <1>4, <2>2, SeenAreProcs DEF MidFrame, Handshake, OneLoads
  <2>4. /\ proc'[r].state = "s_processing"
        /\ proc'[r].oVGACoord = VGACoord(bus.x, bus.y)
        /\ proc'[r].coord = [cx |-> bus.cx, cy |-> bus.cy]
    BY <1>4, <2>1, <2>2, <2>3, ProcCases
  <2> QED
    BY <1>4, <2>2, <2>3, <2>4 DEF Busy, PixelIn, PixelOf
<1>6. StaleProcs' # Seen
  <2>1. OfFrame(PixelOf(bus))
    BY <1>2 DEF BusInFrame
  <2>2. r \notin StaleProcs'
    BY <1>0, <1>5, <2>1 DEF StaleProcs, OfFrame, PixelAt, ColorAt
  <2> QED
    BY <1>5, <2>2
<1>7. accepted' \subseteq InFlight'
  BY <1>0, <1>1, <1>2, <1>5 DEF InFlight
<1>8. ASSUME NEW a \in Spoiled'
      PROVE  FALSE
  <2>1. a \in 1 .. Width * Height - 1 /\ ~ToCome(a)'
    BY DEF Spoiled, WrongPixels
  <2>2. PICK x \in 0 .. Width, y \in 0 .. Height : InFrame(x, y) /\ VGACoord(x, y) = a
    BY <2>1, EveryAddress
  <2>3. Passed(x, y)' /\ PixelAt(view, x, y)' \notin InFlight'
    BY <2>1, <2>2 DEF ToCome
  <2>4. PixelAt(view, x, y)' \in accepted'
    BY <1>0, <2>2, <2>3 DEF GenTaken, MidFrame
  <2> QED
    BY <1>7, <2>3, <2>4
<1> QED
  BY <1>6, <1>8

\* Once a point of the frame is out no processor becomes stale.
LEMMA StaleProcsEdge ==
    ASSUME MidFrame, BusInFrame, Handed, NEW p \in StaleProcs'
    PROVE  p \in StaleProcs /\ ~(proc[p].state = "s_store" /\ p \in oProcRdy)
<1>0. \A px : OfFrame(px)' <=> OfFrame(px)
  BY MidFrameEdge
<1>1. p \in Seen /\ p \in Procs /\ Busy(p)' /\ ~OfFrame(PixelIn(p)')
  BY <1>0, SeenAreProcs, MidFrameEdge DEF StaleProcs, OfFrame, PixelAt, ColorAt
<1>2. CASE p \in oDataVal /\ PixelIn(p)' = PixelOf(bus)
  <2>1. accepted # {} /\ BusPending
    BY <1>2 DEF Handed, BusPending
  <2> QED
    BY <1>1, <1>2, <2>1 DEF BusInFrame
<1>3. CASE /\ Busy(p) /\ PixelIn(p)' = PixelIn(p)
           /\ ~(proc[p].state = "s_store" /\ p \in oProcRdy)
  BY <1>1, <1>3 DEF StaleProcs
<1> QED
  BY <1>1, <1>2, <1>3, BusyFrom DEF MidFrame

\* An address is spoiled only by the write of a processor that was stale
\* and is not any more.
LEMMA SpoiledEdge ==
    ASSUME MidFrame, BusySeen, PortInv, BusInFrame, Handed,
           NEW a \in Spoiled', a \notin Spoiled
    PROVE  a = addr /\ \E p \in StaleProcs : p \notin StaleProcs'
<1>0. view' = view /\ \A px : OfFrame(px)' <=> OfFrame(px)
  BY MidFrameEdge
<1>1. a \in 1 .. Width * Height - 1 /\ ~ToCome(a)' /\ ~OfFrame(Shown(a)')
  BY <1>0 DEF Spoiled, WrongPixels, OfFrame, Shown, PixelAt, ColorAt
<1>2. a \in Addresses
  BY <1>1, SizeAssumption DEF Addresses, VGACoord
<1>3. ~OfFrame(Shown(a)) => ToCome(a)
  BY <1>1 DEF Spoiled, WrongPixels, OfFrame, Shown
<1>4. CASE Shown(a)' = Shown(a) /\ ~(w_en /\ addr = a)
  BY <1>1, <1>3, <1>4, ToComeEdge
<1>5. CASE w_en /\ addr = a /\ Shown(a)' = PixelWritten
  <2>1. ~OfFrame(PixelWritten)
    BY <1>1, <1>5
  <2>2. ~ToCome(a)
    BY <1>1, <2>1, ToComeEdge
  <2>3. frameBuffer[addr] # data
    BY <1>3, <1>5, <2>1, <2>2 DEF Shown, PixelWritten
  <2>4. PICK p \in oProcRdy : proc[p].state = "s_store"
    BY <1>5, <2>3 DEF PortInv
  <2>5. PixelWritten = PixelIn(p) /\ p \in Procs /\ Busy(p)
    BY <2>4 DEF MidFrame, Handshake, GrantMeansWrite, TypeOK, ArbTypeOK, Busy
  <2>6. p \in StaleProcs
    BY <2>1, <2>5 DEF BusySeen, StaleProcs
  <2>7. p \notin StaleProcs'
    BY <2>4, StaleProcsEdge
  <2> QED
    BY <1>5, <2>6, <2>7
<1> QED
  BY <1>2, <1>4, <1>5, ShownFrom DEF MidFrame

\* An edge in the middle of a frame keeps the bound.
LEMMA SpoilBoundEdge ==
    ASSUME MidFrame, BusySeen, PortInv, BusInFrame, SpoilBound
    PROVE  SpoilBound'
<1> SUFFICES ASSUME Handed'
             PROVE  Cardinality(Spoiled') + Cardinality(StaleProcs') < NumSeen
  BY DEF SpoilBound
<1>0. /\ Spoiled \in SUBSET (1 .. Width * Height - 1) /\ StaleProcs \in SUBSET Seen
      /\ Spoiled' \in SUBSET (1 .. Width * Height - 1) /\ StaleProcs' \in SUBSET Seen
  BY DEF Spoiled, WrongPixels, StaleProcs, Seen
<1> DEFINE D == Spoiled  S == StaleProcs  E == Spoiled'  T == StaleProcs'
<1>1. /\ IsFiniteSet(D) /\ Cardinality(D) \in Nat
      /\ IsFiniteSet(S) /\ Cardinality(S) \in Nat
      /\ IsFiniteSet(E) /\ Cardinality(E) \in Nat
      /\ IsFiniteSet(T) /\ Cardinality(T) \in Nat
      /\ T # Seen => Cardinality(T) < NumSeen
  BY <1>0, Counted
<1>2. NumSeen \in Nat
  BY SizeAssumption
<1>3. CASE ~Handed
  <2>1. E = {} /\ T # Seen
    BY <1>3, FirstHanded
  <2>2. Cardinality(E) = 0
    BY <2>1, FS_EmptySet
  <2> QED
    BY <1>1, <1>2, <2>1, <2>2
<1>4. CASE Handed
  <2>1. Cardinality(D) + Cardinality(S) < NumSeen
    BY <1>4 DEF SpoilBound
  <2>2. T \in SUBSET S
    BY <1>4, StaleProcsEdge
  <2>3. Cardinality(T) <= Cardinality(S)
    BY <1>1, <2>2, FS_Subset
  <2>4. CASE E \subseteq D
    <3>1. Cardinality(E) <= Cardinality(D)
      BY <1>1, <2>4, FS_Subset
    <3> HIDE DEF D, S, E, T
    <3> QED
      BY <1>1, <1>2, <2>1, <2>3, <3>1 DEF E, T
  <2>5. ASSUME NEW a \in E, a \notin D
        PROVE  Cardinality(E) + Cardinality(T) < NumSeen
    <3>1. PICK p \in S : p \notin T
      BY <1>4, <2>5, SpoiledEdge
    <3>2. E \in SUBSET (D \cup {addr})
      BY <1>4, SpoiledEdge
    <3>3. /\ IsFiniteSet(D \cup {addr})
          /\ Cardinality(D \cup {addr}) = IF addr \in D THEN Cardinality(D) ELSE Cardinality(D) + 1
      BY <1>1, FS_AddElement
    <3>4. Cardinality(E) <= Cardinality(D \cup {addr})
      BY <3>2, <3>3, FS_Subset
    <3>5. IsFiniteSet(S \ {p}) /\ Cardinality(S \ {p}) = Cardinality(S) - 1
      BY <1>1, <3>1, FS_RemoveElement
    <3>6. Cardinality(T) <= Cardinality(S \ {p})
      <4>1. T \in SUBSET (S \ {p})
        BY <2>2, <3>1
      <4> QED
        BY <3>5, <4>1, FS_Subset
    <3> HIDE DEF D, S, E, T
    <3> QED
      BY <1>1, <1>2, <2>1, <3>3, <3>4, <3>5, <3>6
  <2> QED
    BY <2>4, <2>5
<1> QED
  BY <1>3, <1>4

\* Every step keeps the invariant of the redraws.
LEMMA StaleStep ==
    TypeOK /\ Handshake /\ GeneratorInv /\ OffersInFrame /\ StaleInv /\ [Next]_vars
        => StaleInv'
<1> SUFFICES ASSUME TypeOK, Handshake, GeneratorInv, OffersInFrame, StaleInv, [Next]_vars
             PROVE  StaleInv'
  OBVIOUS
<1>1. CASE Tick
  <2>1. BusySeen' /\ PortInv'
    BY <1>1, BusySeenEdge, PortEdge DEF StaleInv
  <2>2. ASSUME Steady', cgState' # "s_init"
        PROVE  BusInFrame' /\ SpoilBound'
    <3>1. Steady
      BY <1>1, <2>2, TickParts DEF Steady, topVars
    <3>2. CASE cgState = "s_init"
      <4>1. CGEdge(reset \/ draw, view, oCoordRdy)
        BY <1>1, TickParts
      <4>2. NewFrame
        BY <2>2, <3>2, <4>1 DEF CGEdge, Restart, NewFrame
      <4>3. accepted' = {}
        BY <1>1, <4>2, TickParts DEF Record
      <4> QED
        BY <4>3 DEF BusInFrame, SpoilBound, Handed
    <3>3. CASE cgState # "s_init"
      <4>1. MidFrame
        BY <1>1, <2>2, <3>1, <3>3 DEF MidFrame
      <4>2. BusySeen /\ PortInv /\ BusInFrame /\ SpoilBound
        BY <3>1, <3>3 DEF StaleInv
      <4> QED
        BY <4>1, <4>2, BusInFrameEdge, SpoilBoundEdge
    <3> QED
      BY <3>2, <3>3
  <2> QED
    BY <2>1, <2>2 DEF StaleInv
<1>2. CASE ~Tick
  <2>1. UNCHANGED <<cgVars, lbVars, proc, arbVars, historyVars>>
    BY <1>2, OtherSteps
  <2>2. BusySeen' /\ PortInv'
    BY <2>1 DEF StaleInv, BusySeen, PortInv, Busy, arbVars
  <2>3. ASSUME Steady', cgState' # "s_init"
        PROVE  BusInFrame' /\ SpoilBound'
    <3>1. Steady /\ view' = view
      <4>1. ASSUME NEW v \in Views, CursorUpdate(v)
            PROVE  Steady /\ view' = view
        BY <2>1, <2>3, <4>1 DEF CursorUpdate, Steady, GeneratorInv, TypeOK, cgVars
      <4>2. CASE Press \/ Release \/ UNCHANGED vars
        BY <2>3, <4>2 DEF Press, Release, vars, topVars, Steady
      <4> QED
        BY <1>2, <4>1, <4>2 DEF Next
    <3>2. BusInFrame /\ SpoilBound
      BY <2>1, <2>3, <3>1 DEF StaleInv, cgVars
    <3>3. /\ InFlight' = InFlight /\ BusPending' = BusPending /\ PixelOf(bus)' = PixelOf(bus)
          /\ accepted' = accepted
      BY <2>1 DEF InFlight, BusPending, PixelOf, Busy, PixelIn, lbVars, historyVars
    <3>4. Spoiled' = Spoiled
      BY <2>1, <3>1, <3>3 DEF Spoiled, WrongPixels, ToCome, Passed, PixelAt, ColorAt, cgVars,
                              arbVars
    <3>5. StaleProcs' = StaleProcs
      BY <2>1, <3>1 DEF StaleProcs, Busy, PixelIn, OfFrame, PixelAt, ColorAt, Seen
    <3>6. BusInFrame'
      BY <3>1, <3>2, <3>3 DEF BusInFrame, OfFrame, PixelAt, ColorAt
    <3> QED
      BY <3>2, <3>3, <3>4, <3>5, <3>6 DEF SpoilBound, Handed
  <2> QED
    BY <2>2, <2>3 DEF StaleInv
<1> QED
  BY <1>1, <1>2

\* After any number of redraws, however the processors are delayed, a
\* finished frame has fewer wrong pixels than the balancer has processors.
THEOREM StaleIsBounded == Spec => []StaleBound
<1>1. Init => StaleInv
  BY DEF Init, CGInit, ProcInit, ArbInit, StaleInv, BusySeen, PortInv, Busy
<1>2. TypeOK /\ GeneratorInv /\ StaleInv => StaleBound
  <2> SUFFICES ASSUME TypeOK, GeneratorInv, StaleInv, FrameFinished, Settled
               PROVE  Cardinality(WrongPixels) < NumSeen
    BY DEF StaleBound
  <2>1. cgState = "s_complete" /\ Steady /\ ~BusPending /\ InFlight = {}
    BY DEF FrameFinished, Settled, Steady, draw, InFlight
  <2>2. vgaY = Height /\ vgaX = 0
    BY <2>1 DEF GeneratorInv, GenShape
  <2>3. \A x \in 0 .. Width, y \in 0 .. Height : InFrame(x, y) => Passed(x, y)
    BY <2>1, <2>2, SizeAssumption DEF Passed, InFrame
  <2>4. Spoiled = WrongPixels
    BY <2>1, <2>3 DEF Spoiled, ToCome
  <2>5. Handed
    <3>1. 1 \in 0 .. Width /\ 0 \in 0 .. Height /\ InFrame(1, 0)
      BY SizeAssumption DEF InFrame
    <3>2. PixelAt(view, 1, 0) \in accepted
      BY <2>1, <2>3, <3>1 DEF GeneratorInv, GenTaken
    <3> QED
      BY <2>1, <3>2 DEF Handed
  <2>6. Cardinality(Spoiled) + Cardinality(StaleProcs) < NumSeen
    BY <2>1, <2>5 DEF StaleInv, SpoilBound
  <2>7. Cardinality(Spoiled) \in Nat /\ Cardinality(StaleProcs) \in Nat
    <3>1. Spoiled \in SUBSET (1 .. Width * Height - 1) /\ StaleProcs \in SUBSET Seen
      BY DEF Spoiled, WrongPixels, StaleProcs
    <3> QED
      BY <3>1, Counted
  <2> HIDE DEF Spoiled, StaleProcs
  <2> QED
    BY <2>4, <2>6, <2>7, SizeAssumption
<1>3. Spec => []OffersInFrame
  BY FirstFrameHolds, PTL
<1> QED
  BY <1>1, <1>2, <1>3, StaleStep, TypeCorrect, HandshakeHolds, GeneratorInvHolds, PTL DEF Spec
=============================================================================
