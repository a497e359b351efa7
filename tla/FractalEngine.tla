----------------------------- MODULE FractalEngine -----------------------------
(***************************************************************************)
(* The lab 4 part of DE2_115_Basic_Computer.v: generator, balancer,        *)
(* processors, arbiter and framebuffer on CLOCK_50, the view registers on  *)
(* cursor_update_clk, and the two push buttons. Every always block that    *)
(* runs on CLOCK_50 takes the same edge, so one edge is one action, Tick,  *)
(* in which each component reads the wires as they were before the edge.   *)
(***************************************************************************)
EXTENDS CoordGenerator, LoadBalancer, MandelbrotProcessor, Proc2MemArb, FiniteSets

CONSTANT MaxEvents   \* bound on view changes and button presses

ASSUME EventAssumption == MaxEvents \in Nat

VARIABLES
    view,         \* zoom, upperLeftX, upperLeftY
    oldView,      \* oldZoom
    drawTrigger,
    key0, key3,   \* KEY[0] (reset) and KEY[3] (draw) are held down
    sampled,      \* CLOCK_50 has had an edge since the last view update
    events,       \* view changes and button presses so far
    accepted,     \* history: points of this frame the balancer has taken
    stored        \* history: points written to memory since the frame began

topVars == <<view, oldView, drawTrigger, key0, key3, events>>
historyVars == <<accepted, stored>>

vars == <<cgVars, lbVars, proc, arbVars, topVars, sampled, historyVars>>

\* A pixel of a frame: its address and the coordinate it stands for.
Pixel == [at : Addresses, color : Color]
PixelOf(pt) == [at |-> VGACoord(pt.x, pt.y),
                color |-> [cx |-> pt.cx, cy |-> pt.cy]]
PixelIn(p) == [at |-> proc[p].oVGACoord, color |-> proc[p].coord]
PixelWritten == [at |-> addr, color |-> data]

TypeOK ==
    /\ CGTypeOK /\ LBTypeOK /\ ProcTypeOK /\ ArbTypeOK
    /\ view \in Views /\ oldView \in Views
    /\ drawTrigger \in BOOLEAN
    /\ key0 \in BOOLEAN /\ key3 \in BOOLEAN
    /\ sampled \in BOOLEAN
    /\ events \in 0 .. MaxEvents
    /\ accepted \in SUBSET Pixel
    /\ stored \in SUBSET Pixel

Init ==
    /\ CGInit /\ LBInit /\ ProcInit /\ ArbInit
    /\ view = View0 /\ oldView = View0
    /\ drawTrigger = FALSE
    /\ key0 = FALSE /\ key3 = FALSE
    /\ sampled = FALSE
    /\ events = 0
    /\ accepted = {} /\ stored = {}
-----------------------------------------------------------------------------
reset == key0
draw == drawTrigger \/ key3

\* The edge begins a frame, or belongs to a reset.
NewFrame == reset \/ (cgState = "s_init" /\ ~draw)

\* The balancer takes the point on offer at this edge.
Takes == ~reset /\ ~full /\ oLoadDistVal /\ oCoordRdy

\* The history of a frame starts empty.
Record ==
    /\ accepted' = IF NewFrame THEN {}
                   ELSE accepted \cup {px \in {PixelOf(Offered)} : Takes}
    /\ stored' = IF NewFrame THEN {}
                 ELSE stored \cup {px \in {PixelWritten} : w_en}

\* A rising edge of CLOCK_50. The balancer's iProcReady port is NumSeen
\* bits wide, whatever the number of processors.
Tick ==
    /\ CGEdge(reset \/ draw, view, oCoordRdy)
    /\ LBEdge(reset, oLoadDistVal, Offered, ProcReady \cap Seen)
    /\ \E escaped \in SUBSET Computing :
          ProcEdge(oDataVal, bus, oProcRdy, escaped)
    /\ ArbEdge(ProcVal,
               [p \in Procs |-> proc[p].oVGACoord],
               [p \in Procs |-> proc[p].coord])
    /\ sampled' = TRUE
    /\ Record
    /\ UNCHANGED topVars

\* A slip in CursorUpdate: oldZoom takes the new zoom, the change is missed.
CursorUpdateMissed(v) ==
    /\ ~reset /\ sampled
    /\ v # view => events < MaxEvents
    /\ view' = v
    /\ oldView' = v
    /\ drawTrigger' = (view # oldView)
    /\ sampled' = FALSE
    /\ events' = IF v # view THEN events + 1 ELSE events
    /\ UNCHANGED <<cgVars, lbVars, proc, arbVars, key0, key3, historyVars>>

\* A rising edge of cursor_update_clk, with v on the Nios II ports. Its
\* software runs only while KEY[0] is up, so the block's reset branch is
\* never taken; and it needs many CLOCK_50 cycles from one update to the
\* next. zoom and the upper left corner change together, so comparing zoom
\* with oldZoom is comparing the view with the one before.
CursorUpdate(v) ==
    /\ ~reset /\ sampled
    /\ v # view => events < MaxEvents
    /\ view' = v
    /\ oldView' = view
    /\ drawTrigger' = (view # oldView)
    /\ sampled' = FALSE
    /\ events' = IF v # view THEN events + 1 ELSE events
    /\ UNCHANGED <<cgVars, lbVars, proc, arbVars, key0, key3, historyVars>>

\* The user presses or releases a button.
Press ==
    /\ events < MaxEvents
    /\ events' = events + 1
    /\ \/ ~key0 /\ key0' = TRUE /\ UNCHANGED key3
       \/ ~key3 /\ key3' = TRUE /\ UNCHANGED key0
    /\ UNCHANGED <<cgVars, lbVars, proc, arbVars, view, oldView, drawTrigger,
                   sampled, historyVars>>

Release ==
    /\ \/ key0 /\ key0' = FALSE /\ UNCHANGED key3
       \/ key3 /\ key3' = FALSE /\ UNCHANGED key0
    /\ UNCHANGED <<cgVars, lbVars, proc, arbVars, view, oldView, drawTrigger,
                   sampled, events, historyVars>>

Next ==
    \/ Tick
    \/ \E v \in Views : CursorUpdate(v)
    \/ Press
    \/ Release

Spec == Init /\ [][Next]_vars

\* Only the clock is fair: a button may be held down for ever.
ClockSpec == Spec /\ WF_vars(Tick)

\* The software keeps updating, and buttons are let go.
Served == WF_vars(CursorUpdate(view)) /\ WF_vars(Release)

-----------------------------------------------------------------------------
\* The point on the bus still has to be loaded by a processor.
BusPending == full \/ oDataVal # {}

Busy(p) == proc[p].state \in {"s_processing", "s_store"}

\* The pixels somewhere between the balancer's intake and the framebuffer.
InFlight ==
    {px \in {PixelOf(bus)} : BusPending}
      \cup {PixelIn(p) : p \in {q \in Procs : Busy(q)}}

\* No redraw is under way or due.
Settled == view = oldView /\ ~draw /\ ~reset

\* The frame is as good as it gets: nothing is left to offer, nothing is
\* on its way, nothing is on the write port.
FrameFinished ==
    /\ done /\ cgState = "s_complete"
    /\ ~BusPending
    /\ \A p \in Procs : ~Busy(p)
    /\ ~w_en

\* The pixel that belongs to column x of line y in view v.
ColorAt(v, x, y) == [cx |-> UpperLeftX[v] + x * XSize[v],
                     cy |-> UpperLeftY[v] + y * YSize[v]]
PixelAt(v, x, y) == [at |-> VGACoord(x, y), color |-> ColorAt(v, x, y)]

\* The positions the generator offers: it starts after (0, 0), offers column
\* Width of every line and ends with column 0 of the line below the screen.
InFrame(x, y) == (x > 0 \/ y > 0) /\ (y < Height \/ x = 0)

\* Addresses of the screen that show no pixel of the frame of the view. An
\* address in column 0 has two: column Width of the line above has the
\* same address.
WrongPixels ==
    {a \in 1 .. Width * Height - 1 :
        ~\E x \in 0 .. Width, y \in 0 .. Height :
            InFrame(x, y) /\ PixelAt(view, x, y) = [at |-> a, color |-> frameBuffer[a]]}
-----------------------------------------------------------------------------
RdyMeansEmpty == oCoordRdy => ~full

\* One processor at most is told to load; while the bus still has its point
\* it waits for it, and once the next point is on the bus it has loaded.
OneLoads ==
    /\ \A p, q \in oDataVal : p = q
    /\ \A p \in oDataVal :
          proc[p].state = IF full THEN "s_processing" ELSE "s_waiting"

ReadyMeansWaiting ==
    \A p \in Procs : proc[p].oProcReady => proc[p].state = "s_waiting"

ValMeansStore ==
    \A p \in Procs : proc[p].oVGAVal <=> proc[p].state = "s_store"

\* A processor told that its value is stored has that value on the write
\* port. The arbiter grants every result twice, since oVGAVal falls a cycle
\* late; the second grant must not be taken for a grant of the next result.
GrantMeansWrite ==
    /\ oProcRdy # {} <=> w_en
    /\ \A p \in oProcRdy :
          proc[p].state = "s_store" => PixelWritten = PixelIn(p)

\* The wires between the components agree with what the components do: a
\* point on the balancer's bus is not overwritten before it is loaded and
\* not loaded twice, and a processor gives up its result only when it is on
\* the write port.
Handshake ==
    /\ RdyMeansEmpty
    /\ OneLoads
    /\ ReadyMeansWaiting
    /\ ValMeansStore
    /\ GrantMeansWrite

\* Every point the balancer took in this frame is in the framebuffer or on
\* its way there, however often the user asks for a redraw.
NoPixelLost == accepted \subseteq stored \cup InFlight

\* The generator's coordinate belongs to the view on the registers, unless
\* a redraw is under way or due: changing the view in the middle of a frame
\* never leaves a frame that mixes two views.
ViewCoherent ==
    Settled /\ cgState # "s_init" =>
        [cx |-> coordX, cy |-> coordY] = ColorAt(view, vgaX, vgaY)

\* The generator has gone past position (x, y) and the offer was taken.
Passed(x, y) ==
    \/ y < vgaY
    \/ y = vgaY /\ x < vgaX
    \/ y = vgaY /\ x = vgaX /\ cgState # "s_waiting"

\* No redraw is due because of the view.
Steady == view = oldView /\ ~drawTrigger

\* An offer is up exactly while the generator waits; it stops below the
\* screen, in column 0.
GenShape ==
    cgState # "s_init" =>
        /\ oLoadDistVal <=> cgState = "s_waiting"
        /\ vgaY = Height => vgaX = 0
        /\ cgState = "s_complete" => vgaY = Height

GenCoord ==
    Steady /\ cgState # "s_init" =>
        /\ coordX = UpperLeftX[view] + vgaX * XSize[view]
        /\ coordY = UpperLeftY[view] + vgaY * YSize[view]

\* Everything the generator has gone past was taken by the balancer.
GenTaken ==
    Steady /\ cgState # "s_init" =>
        \A x \in 0 .. Width, y \in 0 .. Height :
            InFrame(x, y) /\ Passed(x, y) => PixelAt(view, x, y) \in accepted

\* What makes ViewCoherent and FrameComplete inductive: besides the above,
\* the next update of the view comes after an edge that saw drawTrigger.
GeneratorInv ==
    /\ drawTrigger /\ sampled => cgState = "s_init"
    /\ GenShape
    /\ GenCoord
    /\ GenTaken

\* A finished frame is complete: every position the generator walks over
\* has been written with the colour of the current view.
FrameComplete ==
    FrameFinished /\ Settled =>
        \A x \in 0 .. Width, y \in 0 .. Height :
            InFrame(x, y) => PixelAt(view, x, y) \in stored

\* A redraw does not recall the points the processors are working on, and
\* an old point may be stored after its new one. The damage is bounded: a
\* finished frame has fewer wrong pixels than the balancer has processors.
StaleBound ==
    FrameFinished /\ Settled => Cardinality(WrongPixels) < NumSeen

\* The first frame after power-up has no wrong pixel.
FrameExact ==
    FrameFinished /\ events = 0 => WrongPixels = {}

\* In the first frame no pixel is computed by two processors at a time, nor
\* waits on the bus while a processor has it.
NoDoubleWork ==
    events = 0 =>
        /\ \A p, q \in Procs :
              p # q /\ Busy(p) /\ Busy(q) => PixelIn(p) # PixelIn(q)
        /\ \A p \in Procs : full /\ Busy(p) => PixelIn(p) # PixelOf(bus)

\* Once the user leaves the engine alone, and as long as updates come, the
\* engine finishes a frame.
Finishes == Served => <>[](FrameFinished /\ Settled)

\* The processors no stream of results can keep from the write port. A
\* result takes it for two cycles, since it is granted twice, and here a
\* processor comes back with the next one after six cycles at the soonest
\* (eight in the code, whose orbits need two edges before they can escape),
\* so two processors of higher priority leave it free in between.
Favoured == {p \in Procs : p >= NumSeen - 3}

\* A result is stored in the end although the arbiter prefers high processor
\* numbers, with one exception: while draw is up in mid-frame the offer
\* stays up too, the balancer hands out the same point every second cycle,
\* and if that point escapes fast its results take every slot of the write
\* port. A processor that is not favoured may then wait for as long as draw
\* stays up, as with KEY[3] held down, and no longer.
EveryResultStored ==
    \A p \in Procs :
        Busy(p) ~> \/ proc[p].state = "s_waiting"
                   \/ p \notin Favoured /\ []draw

\* loadBalancer.v says it hands out its point when a processor wants data.
DispatchesWhenWanted ==
    [][Tick /\ full /\ ~reset /\ ProcReady # {} => ~full' /\ oDataVal' # {}]_vars

\* loadBalancer_testbench.v dumps the whole buffer, from address 0, as the
\* picture once the last address has come up.
ScreenFilled ==
    FrameFinished =>
        \A a \in 0 .. Width * Height - 1 : frameBuffer[a] # NoColor
=============================================================================
