------------------------------- MODULE FractalUI -------------------------------
(***************************************************************************)
(* mandlebrot.c, the Nios II program of lab 4: one loop that polls the     *)
(* PS/2 mouse, turns clicks into zoom steps, and every Period iterations   *)
(* puts cursor, view and zoom on the ports of the fractal engine and gives *)
(* them a rising cursor_update_clk.                                        *)
(*                                                                         *)
(* The upper left corner of a view is abstracted to the cursor positions   *)
(* that lead to it from the first view: the code computes it from the      *)
(* corner at oldZoom and the cursor, so the path determines it.            *)
(***************************************************************************)
EXTENDS Integers, Sequences

CONSTANTS
    Columns, Rows,  \* the cursor stays on the screen: 640, 480
    StartX, StartY, \* where the cursor starts: 200, 200
    Deltas,         \* the movements a mouse packet can report
    MoveLimit,      \* larger movements are ignored: 20
    Debounce,       \* iterations between two zoom steps: 200
    Saturation,     \* where zoom_count stops counting: 1000
    Period,         \* iterations between two updates: 20
    ZoomLimit,      \* the guard zoom <= 31
    TableSize,      \* entries of upperLeftX and upperLeftY: 16
    Unset           \* what an entry holds before it is assigned

Cursor == (0 .. Columns - 1) \X (0 .. Rows - 1)
Path == Seq(Cursor)

ASSUME UIAssumption ==
    /\ Columns \in Nat \ {0} /\ Rows \in Nat \ {0}
    /\ StartX \in 0 .. Columns - 1 /\ StartY \in 0 .. Rows - 1
    /\ Deltas \subseteq Int /\ MoveLimit \in Nat
    /\ Debounce \in Nat /\ Saturation \in Nat /\ Period \in Nat
    /\ 0 < Period /\ Period < Debounce /\ Debounce <= Saturation
    /\ ZoomLimit \in Nat
    /\ TableSize \in Nat \ {0}

ASSUME UnsetAssumption == Unset \notin Path

VARIABLES
    pc,             \* which half of the loop body comes next
    zoom, oldZoom,
    zoom_count,     \* iterations since the last zoom step
    count,          \* iterations since the last update
    left_pressed, right_pressed,
    xCursor, yCursor,
    upperLeft,      \* upperLeftX and upperLeftY
    nios_zoom,      \* the zoom port, as of the last rising cursor_update_clk
    nios_view,      \* the upper left ports, likewise
    undefined       \* upperLeft was used outside its bounds

mouseVars == <<left_pressed, right_pressed>>
viewVars == <<oldZoom, upperLeft, nios_zoom, nios_view>>
uiVars == <<pc, zoom, zoom_count, count, mouseVars, xCursor, yCursor, viewVars, undefined>>

Indices == 0 .. TableSize - 1

UITypeOK ==
    /\ pc \in {"poll", "service"}
    /\ zoom \in 0 .. ZoomLimit + 1
    /\ oldZoom \in Indices
    /\ zoom_count \in 0 .. Saturation + 1
    /\ count \in 0 .. Period
    /\ left_pressed \in BOOLEAN /\ right_pressed \in BOOLEAN
    /\ xCursor \in 0 .. Columns - 1
    /\ yCursor \in 0 .. Rows - 1
    /\ upperLeft \in [Indices -> Path \cup {Unset}]
    /\ nios_zoom \in Indices
    /\ nios_view \in Path
    /\ undefined \in BOOLEAN

\* Before the first update the engine shows the view of zoom 0 by itself.
UIInit ==
    /\ pc = "poll"
    /\ zoom = 0 /\ oldZoom = 0
    /\ zoom_count = 0 /\ count = 0
    /\ left_pressed = FALSE /\ right_pressed = FALSE
    /\ xCursor = StartX /\ yCursor = StartY
    /\ upperLeft = [i \in Indices |-> IF i = 0 THEN <<>> ELSE Unset]
    /\ nios_zoom = 0 /\ nios_view = <<>>
    /\ undefined = FALSE
-----------------------------------------------------------------------------
\* A slip in Counted: no saturation.
CountedForever == zoom_count + 1

\* zoom_count after the first lines of the loop.
Counted == IF zoom_count > Saturation THEN Saturation ELSE zoom_count + 1

\* No byte is available, or fewer than a packet: the bytes read are lost.
PollNothing ==
    /\ pc = "poll" /\ ~undefined
    /\ zoom_count' = Counted
    /\ pc' = "service"
    /\ UNCHANGED <<zoom, count, mouseVars, xCursor, yCursor, viewVars, undefined>>

\* The cursor moves unless it would jump or leave the screen.
Moved(pos, delta, size) ==
    IF -MoveLimit < delta /\ delta < MoveLimit /\ pos + delta \in 0 .. size - 1
    THEN pos + delta
    ELSE pos

\* A slip in MayStep: no debouncing.
MayStepAtOnce(dx, dy) == dx = 0 /\ dy = 0

\* What the two guards on a zoom step have in common.
MayStep(dx, dy) == dx = 0 /\ dy = 0 /\ Counted >= Debounce

StepsIn(left, dx, dy) ==
    MayStep(dx, dy) /\ zoom <= ZoomLimit /\ left_pressed # left

\* Checked after a step in, which restarts zoom_count.
StepsOut(left, right, dx, dy) ==
    MayStep(dx, dy) /\ ~StepsIn(left, dx, dy) /\ zoom # 0 /\ right_pressed # right

\* A packet with the buttons left and right and a movement.
PollPacket(left, right, dx, dy) ==
    /\ pc = "poll" /\ ~undefined
    /\ xCursor' = Moved(xCursor, dx, Columns)
    /\ yCursor' = Moved(yCursor, dy, Rows)
    /\ \/ /\ StepsIn(left, dx, dy)
          /\ zoom' = zoom + 1
          /\ zoom_count' = 0
       \/ /\ StepsOut(left, right, dx, dy)
          /\ zoom' = zoom - 1
          /\ zoom_count' = 0
       \/ /\ ~StepsIn(left, dx, dy) /\ ~StepsOut(left, right, dx, dy)
          /\ zoom' = zoom
          /\ zoom_count' = Counted
    /\ left_pressed' = left
    /\ right_pressed' = right
    /\ pc' = "service"
    /\ UNCHANGED <<count, viewVars, undefined>>

\* A slip in Skip: count is cleared in every iteration.
SkipClears ==
    /\ pc = "service" /\ ~undefined
    /\ count < Period
    /\ count' = 1
    /\ pc' = "poll"
    /\ UNCHANGED <<zoom, zoom_count, mouseVars, xCursor, yCursor, viewVars, undefined>>

\* The second half of the loop, before it is time for an update.
Skip ==
    /\ pc = "service" /\ ~undefined
    /\ count < Period
    /\ count' = count + 1
    /\ pc' = "poll"
    /\ UNCHANGED <<zoom, zoom_count, mouseVars, xCursor, yCursor, viewVars, undefined>>

\* Slips in Corners: a step out assigns its view again; the corner is
\* computed from the first view.
CornersAnyStep ==
    IF oldZoom # zoom
    THEN [upperLeft EXCEPT ![zoom] = Append(upperLeft[oldZoom], <<xCursor, yCursor>>)]
    ELSE upperLeft

CornersOfFirst ==
    IF oldZoom < zoom
    THEN [upperLeft EXCEPT ![zoom] = Append(upperLeft[0], <<xCursor, yCursor>>)]
    ELSE upperLeft

\* The view of a new zoom level starts at the cursor.
Corners ==
    IF oldZoom < zoom
    THEN [upperLeft EXCEPT ![zoom] = Append(upperLeft[oldZoom], <<xCursor, yCursor>>)]
    ELSE upperLeft

Update ==
    /\ pc = "service" /\ ~undefined
    /\ count >= Period
    /\ zoom \in Indices
    /\ upperLeft' = Corners
    /\ xCursor' = IF oldZoom # zoom THEN 0 ELSE xCursor
    /\ yCursor' = IF oldZoom # zoom THEN 0 ELSE yCursor
    /\ oldZoom' = zoom
    /\ nios_zoom' = zoom
    /\ nios_view' = Corners[zoom]
    /\ count' = 1
    /\ pc' = "poll"
    /\ UNCHANGED <<zoom, zoom_count, mouseVars, undefined>>

\* The zoom level has no entry: the program writes and reads past the end
\* of its tables, and nothing is said of it from there on.
UpdateOutside ==
    /\ pc = "service" /\ ~undefined
    /\ count >= Period
    /\ zoom \notin Indices
    /\ undefined' = TRUE
    /\ UNCHANGED <<pc, zoom, zoom_count, count, mouseVars, xCursor, yCursor, viewVars>>

Poll ==
    \/ PollNothing
    \/ \E left, right \in BOOLEAN, dx, dy \in Deltas : PollPacket(left, right, dx, dy)

Service == Skip \/ Update \/ UpdateOutside

Adrift == undefined /\ UNCHANGED uiVars

UINext == Poll \/ Service \/ Adrift

UISpec == UIInit /\ [][UINext]_uiVars

\* The loop never stops.
UIFairSpec == UISpec /\ WF_uiVars(UINext)
-----------------------------------------------------------------------------
\* Between two updates there is at most one zoom step, because a step needs
\* Debounce iterations since the last one and an update comes after Period.
OneStepPerUpdate ==
    zoom # oldZoom =>
        /\ zoom = oldZoom + 1 \/ zoom = oldZoom - 1
        /\ zoom_count <= count
        /\ pc = "poll" => zoom_count < count

\* Every entry up to the level on display is assigned, and each one is the
\* view that was entered from the one below it.
ViewsAreStacked ==
    /\ \A i \in 0 .. oldZoom : upperLeft[i] \in Path
    /\ \A i \in 1 .. oldZoom : \E c \in Cursor : upperLeft[i] = Append(upperLeft[i - 1], c)
    /\ nios_zoom = oldZoom
    /\ nios_view = upperLeft[oldZoom]

\* The ports show the user a stack of views: a step in starts at the
\* cursor, a step out returns to exactly the view it was entered from, and
\* level and view always change together (the engine redraws when the
\* level changes, and only then).
Stack == INSTANCE ViewStack WITH Positions <- Cursor, level <- nios_zoom, path <- nios_view
ShowsStack == Stack!StackSpec

\* Every level the user steps to comes on display.
EveryStepShown ==
    \A z \in Indices : zoom = z ~> (nios_zoom = z \/ undefined)

\* The comment on the guard of a step in: left button posedge.
StepsInOnPosedge ==
    [][zoom' > zoom => ~left_pressed /\ left_pressed']_uiVars
=============================================================================
