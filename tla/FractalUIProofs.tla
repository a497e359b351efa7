---------------------------- MODULE FractalUIProofs ----------------------------
(***************************************************************************)
(* Proofs about the Nios II program, for every screen, period and table    *)
(* size. The three invariants are inductive together: an update extends    *)
(* the view at oldZoom, which is a path only because the views are         *)
(* stacked, and it lands on a neighbouring level only because the          *)
(* debouncing leaves room for one step between two updates.                *)
(***************************************************************************)
EXTENDS FractalUI, SequenceTheorems, TLAPS

UIInv == UITypeOK /\ OneStepPerUpdate /\ ViewsAreStacked
-----------------------------------------------------------------------------
\* The program starts with an empty path at level 0.
LEMMA UIInitInv == UIInit => UIInv
<1> SUFFICES ASSUME UIInit PROVE UIInv
  OBVIOUS
<1> USE UIAssumption
<1>1. <<>> \in Path
  BY DEF Path
<1>2. upperLeft \in [Indices -> Path \cup {Unset}]
  BY <1>1 DEF UIInit
<1>3. UITypeOK
  <2>1. left_pressed \in BOOLEAN /\ right_pressed \in BOOLEAN /\ undefined \in BOOLEAN
    BY DEF UIInit
  <2>2. zoom \in 0 .. ZoomLimit + 1 /\ oldZoom \in Indices /\ nios_zoom \in Indices
    BY DEF UIInit, Indices
  <2>3. zoom_count \in 0 .. Saturation + 1 /\ count \in 0 .. Period
    BY DEF UIInit
  <2> QED
    BY <1>1, <1>2, <2>1, <2>2, <2>3 DEF UIInit, UITypeOK
<1>4. OneStepPerUpdate
  BY DEF UIInit, OneStepPerUpdate
<1>5. ViewsAreStacked
  BY <1>1 DEF UIInit, ViewsAreStacked, Indices
<1> QED
  BY <1>3, <1>4, <1>5 DEF UIInv

\* zoom_count saturates one above its limit.
LEMMA CountedBounds ==
  ASSUME zoom_count \in 0 .. Saturation + 1
  PROVE  Counted \in 0 .. Saturation + 1 /\ Counted <= zoom_count + 1
BY UIAssumption DEF Counted

\* A mouse packet leaves the cursor on the screen.
LEMMA MovedOnScreen ==
  ASSUME NEW size \in Nat, NEW pos \in 0 .. size - 1, NEW delta
  PROVE  Moved(pos, delta, size) \in 0 .. size - 1
BY DEF Moved

\* The cursor is a position of the screen.
LEMMA CursorIsPosition == UITypeOK => <<xCursor, yCursor>> \in Cursor
BY DEF UITypeOK, Cursor

\* After a step the count of the debouncing is behind the count of the
\* period, so no step is due until the update.
LEMMA NoSecondStep ==
  ASSUME UITypeOK, OneStepPerUpdate, pc = "poll", NEW dx, NEW dy, MayStep(dx, dy)
  PROVE  zoom = oldZoom
BY CountedBounds, UIAssumption DEF UITypeOK, OneStepPerUpdate, MayStep

\* What a poll leaves alone is all that the stack of views is about.
LEMMA StackedUnchanged ==
  ASSUME ViewsAreStacked, UNCHANGED viewVars
  PROVE  ViewsAreStacked'
BY DEF ViewsAreStacked, viewVars

\* The first half of the loop preserves the invariant.
LEMMA PollInv ==
  ASSUME UIInv, Poll
  PROVE  UIInv'
<1> USE UIAssumption
<1>0. UITypeOK /\ OneStepPerUpdate /\ ViewsAreStacked
  BY DEF UIInv
<1>c. Counted \in 0 .. Saturation + 1 /\ Counted <= zoom_count + 1
  BY <1>0, CountedBounds DEF UITypeOK
<1>1. CASE PollNothing
  <2>1. UITypeOK'
    BY <1>0, <1>c, <1>1 DEF UITypeOK, PollNothing, mouseVars, viewVars
  <2>2. OneStepPerUpdate'
    BY <1>0, <1>c, <1>1 DEF UITypeOK, OneStepPerUpdate, PollNothing, viewVars
  <2>3. ViewsAreStacked'
    BY <1>0, <1>1, StackedUnchanged DEF PollNothing
  <2> QED
    BY <2>1, <2>2, <2>3 DEF UIInv
<1>2. ASSUME NEW left \in BOOLEAN, NEW right \in BOOLEAN,
             NEW dx \in Deltas, NEW dy \in Deltas,
             PollPacket(left, right, dx, dy)
      PROVE  UIInv'
  <2>1. xCursor' \in 0 .. Columns - 1 /\ yCursor' \in 0 .. Rows - 1
    BY <1>0, <1>2, MovedOnScreen DEF UITypeOK, PollPacket
  <2>2. left_pressed' \in BOOLEAN /\ right_pressed' \in BOOLEAN
    BY <1>2 DEF PollPacket
  <2>3. pc = "poll" /\ pc' = "service" /\ UNCHANGED <<count, viewVars, undefined>>
    BY <1>2 DEF PollPacket
  <2>4. \/ /\ MayStep(dx, dy) /\ zoom <= ZoomLimit
           /\ zoom' = zoom + 1 /\ zoom_count' = 0
        \/ /\ MayStep(dx, dy) /\ zoom # 0
           /\ zoom' = zoom - 1 /\ zoom_count' = 0
        \/ zoom' = zoom /\ zoom_count' = Counted
    BY <1>2 DEF PollPacket, StepsIn, StepsOut
  <2>5. zoom' \in 0 .. ZoomLimit + 1 /\ zoom_count' \in 0 .. Saturation + 1
    BY <1>0, <1>c, <2>4 DEF UITypeOK
  <2>6. UITypeOK'
    BY <1>0, <2>1, <2>2, <2>3, <2>5 DEF UITypeOK, viewVars
  <2>7. MayStep(dx, dy) => zoom = oldZoom
    BY <1>0, <2>3, NoSecondStep
  <2>8. OneStepPerUpdate'
    BY <1>0, <1>c, <2>3, <2>4, <2>7 DEF UITypeOK, OneStepPerUpdate, viewVars
  <2>9. ViewsAreStacked'
    BY <1>0, <2>3, StackedUnchanged
  <2> QED
    BY <2>6, <2>8, <2>9 DEF UIInv
<1> QED
  BY <1>1, <1>2 DEF Poll

\* The level of an update is the one on display or next to it.
LEMMA UpdateLevel ==
  ASSUME UIInv, Update
  PROVE  \/ zoom = oldZoom
         \/ zoom = oldZoom + 1 /\ oldZoom < zoom
         \/ zoom = oldZoom - 1 /\ ~(oldZoom < zoom) /\ oldZoom > 0
BY UIAssumption DEF UIInv, UITypeOK, OneStepPerUpdate, Indices

\* The tables after an update: a step in enters a new view, anything else
\* leaves them alone.
LEMMA CornersOfUpdate ==
  ASSUME UIInv, Update
  PROVE  /\ Corners \in [Indices -> Path \cup {Unset}]
         /\ zoom = oldZoom + 1 =>
              Corners[zoom] = Append(upperLeft[oldZoom], <<xCursor, yCursor>>)
         /\ \A i \in 0 .. oldZoom : Corners[i] = upperLeft[i]
         /\ Corners[zoom] \in Path
<1> USE UIAssumption
<1>1. /\ upperLeft \in [Indices -> Path \cup {Unset}]
      /\ oldZoom \in Indices /\ zoom \in Indices
      /\ <<xCursor, yCursor>> \in Cursor
  BY CursorIsPosition DEF UIInv, UITypeOK, Update
<1>2. \A i \in 0 .. oldZoom : upperLeft[i] \in Path
  BY DEF UIInv, ViewsAreStacked
<1>3. upperLeft[oldZoom] \in Path
  BY <1>1, <1>2 DEF Indices
<1>4. Append(upperLeft[oldZoom], <<xCursor, yCursor>>) \in Path
  BY <1>1, <1>3, AppendProperties DEF Path
<1>5. CASE zoom = oldZoom + 1
  <2>1. Corners = [upperLeft EXCEPT ![zoom] =
                      Append(upperLeft[oldZoom], <<xCursor, yCursor>>)]
    BY <1>1, <1>5 DEF Corners, Indices
  <2>2. \A i \in 0 .. oldZoom : i \in Indices /\ i # zoom
    BY <1>1, <1>5 DEF Indices
  <2> QED
    BY <1>1, <1>4, <2>1, <2>2
<1>6. CASE zoom # oldZoom + 1
  <2>1. ~(oldZoom < zoom) /\ zoom \in 0 .. oldZoom
    BY <1>1, <1>6, UpdateLevel DEF Indices
  <2>2. Corners = upperLeft
    BY <2>1 DEF Corners
  <2> QED
    BY <1>1, <1>2, <1>6, <2>1, <2>2
<1> QED
  BY <1>5, <1>6

\* An update preserves the invariant.
LEMMA UpdateInv ==
  ASSUME UIInv, Update
  PROVE  UIInv'
<1> USE UIAssumption
<1>1. UITypeOK /\ ViewsAreStacked
  BY DEF UIInv
<1>2. /\ upperLeft' = Corners /\ oldZoom' = zoom /\ zoom' = zoom
      /\ nios_zoom' = zoom /\ nios_view' = Corners[zoom] /\ zoom \in Indices
      /\ count' = 1 /\ pc' = "poll"
      /\ UNCHANGED <<zoom_count, left_pressed, right_pressed, undefined>>
  BY DEF Update, mouseVars
<1>3. xCursor' \in 0 .. Columns - 1 /\ yCursor' \in 0 .. Rows - 1
  BY <1>1 DEF UITypeOK, Update
<1>4. UITypeOK'
  BY <1>1, <1>2, <1>3, CornersOfUpdate DEF UITypeOK
<1>5. OneStepPerUpdate'
  BY <1>2 DEF OneStepPerUpdate
<1>6. /\ \A i \in 0 .. oldZoom : upperLeft[i] \in Path
      /\ \A i \in 1 .. oldZoom : \E c \in Cursor : upperLeft[i] = Append(upperLeft[i - 1], c)
  BY <1>1 DEF ViewsAreStacked
<1>7. /\ \A i \in 0 .. zoom : Corners[i] \in Path
      /\ \A i \in 1 .. zoom : \E c \in Cursor : Corners[i] = Append(Corners[i - 1], c)
  <2>1. CASE zoom = oldZoom + 1
    <3>1. \A i \in 0 .. zoom : i \in 0 .. oldZoom \/ i = zoom
      BY <1>1, <2>1 DEF UITypeOK, Indices
    <3>2. \A i \in 0 .. zoom : Corners[i] \in Path
      BY <1>6, <3>1, CornersOfUpdate
    <3>3. \E c \in Cursor : Corners[zoom] = Append(Corners[zoom - 1], c)
      <4>1. zoom - 1 = oldZoom /\ oldZoom \in 0 .. oldZoom
        BY <1>1, <2>1 DEF UITypeOK, Indices
      <4>2. Corners[zoom] = Append(Corners[zoom - 1], <<xCursor, yCursor>>)
        BY <2>1, <4>1, CornersOfUpdate
      <4> QED
        BY <1>1, <4>2, CursorIsPosition
    <3>4. ASSUME NEW i \in 1 .. oldZoom
          PROVE  \E c \in Cursor : Corners[i] = Append(Corners[i - 1], c)
      <4>1. i \in 0 .. oldZoom /\ i - 1 \in 0 .. oldZoom
        BY <1>1 DEF UITypeOK, Indices
      <4> QED
        BY <1>6, <4>1, CornersOfUpdate
    <3>5. \A i \in 1 .. zoom : i \in 1 .. oldZoom \/ i = zoom
      BY <1>1, <2>1 DEF UITypeOK, Indices
    <3> QED
      BY <3>2, <3>3, <3>4, <3>5
  <2>2. CASE zoom # oldZoom + 1
    <3>1. /\ \A i \in 0 .. zoom : i \in 0 .. oldZoom
          /\ \A i \in 1 .. zoom : i \in 1 .. oldZoom /\ i \in 0 .. oldZoom /\ i - 1 \in 0 .. oldZoom
      BY <1>1, <2>2, UpdateLevel DEF UITypeOK, Indices
    <3> QED
      BY <1>6, <3>1, CornersOfUpdate
  <2> QED
    BY <2>1, <2>2
<1>8. ViewsAreStacked'
  BY <1>2, <1>7 DEF ViewsAreStacked
<1> QED
  BY <1>4, <1>5, <1>8 DEF UIInv

\* Every step preserves the invariant.
LEMMA UIStep == UIInv /\ [UINext]_uiVars => UIInv'
<1> SUFFICES ASSUME UIInv, [UINext]_uiVars PROVE UIInv'
  OBVIOUS
<1>1. CASE Poll
  BY <1>1, PollInv
<1>2. CASE Skip
  <2>1. UITypeOK'
    BY <1>2, UIAssumption DEF UIInv, UITypeOK, Skip, mouseVars, viewVars
  <2>2. OneStepPerUpdate'
    BY <1>2, UIAssumption DEF UIInv, UITypeOK, OneStepPerUpdate, Skip, viewVars
  <2>3. ViewsAreStacked'
    BY <1>2, StackedUnchanged DEF UIInv, Skip
  <2> QED
    BY <2>1, <2>2, <2>3 DEF UIInv
<1>3. CASE Update
  BY <1>3, UpdateInv
<1>4. CASE UpdateOutside
  <2>1. UITypeOK'
    BY <1>4 DEF UIInv, UITypeOK, UpdateOutside, mouseVars, viewVars
  <2>2. OneStepPerUpdate' /\ ViewsAreStacked'
    BY <1>4, StackedUnchanged DEF UIInv, OneStepPerUpdate, UpdateOutside, viewVars
  <2> QED
    BY <2>1, <2>2 DEF UIInv
<1>5. CASE UNCHANGED uiVars
  <2>1. UITypeOK'
    BY <1>5 DEF UIInv, UITypeOK, uiVars, mouseVars, viewVars
  <2>2. OneStepPerUpdate' /\ ViewsAreStacked'
    BY <1>5, StackedUnchanged DEF UIInv, OneStepPerUpdate, uiVars, viewVars
  <2> QED
    BY <2>1, <2>2 DEF UIInv
<1> QED
  BY <1>1, <1>2, <1>3, <1>4, <1>5 DEF UINext, Service, Adrift

\* The three invariants are inductive together.
THEOREM UIInvHolds == UISpec => []UIInv
BY UIInitInv, UIStep, PTL DEF UISpec

\* The program's variables keep their ranges; in particular the ports only
\* ever show views that were assigned, never an unset table entry.
THEOREM UITypeCorrect == UISpec => []UITypeOK
<1>1. UIInv => UITypeOK
  BY DEF UIInv
<1> QED
  BY <1>1, UIInvHolds, PTL

\* At most one zoom step between two updates.
THEOREM StepsAreDebounced == UISpec => []OneStepPerUpdate
<1>1. UIInv => OneStepPerUpdate
  BY DEF UIInv
<1> QED
  BY <1>1, UIInvHolds, PTL

\* Each view up to the level on display was entered from the one below it.
THEOREM StackIsKept == UISpec => []ViewsAreStacked
<1>1. UIInv => ViewsAreStacked
  BY DEF UIInv
<1> QED
  BY <1>1, UIInvHolds, PTL
-----------------------------------------------------------------------------
\* An update is a step of the stack of views, or none.
LEMMA UpdateShows ==
  ASSUME UIInv, Update
  PROVE  [Stack!StackNext]_(Stack!stackVars)
<1> USE UIAssumption
<1>1. /\ nios_zoom' = zoom /\ nios_view' = Corners[zoom]
      /\ nios_zoom = oldZoom /\ nios_view = upperLeft[oldZoom]
      /\ oldZoom \in Indices /\ zoom \in Indices
  BY DEF UIInv, UITypeOK, Update, ViewsAreStacked
<1>2. CASE zoom = oldZoom
  <2>1. Corners[zoom] = upperLeft[oldZoom]
    BY <1>1, <1>2, CornersOfUpdate DEF Indices
  <2> QED
    BY <1>1, <1>2, <2>1 DEF Stack!stackVars
<1>3. CASE zoom = oldZoom + 1
  <2>1. nios_view' = Append(nios_view, <<xCursor, yCursor>>)
    BY <1>1, <1>3, CornersOfUpdate
  <2>2. <<xCursor, yCursor>> \in Cursor
    BY CursorIsPosition DEF UIInv
  <2> QED
    BY <1>1, <1>3, <2>1, <2>2 DEF Stack!StackNext, Stack!ZoomIn
<1>4. CASE zoom = oldZoom - 1 /\ oldZoom > 0
  <2>1. oldZoom \in 1 .. oldZoom /\ oldZoom - 1 \in 0 .. oldZoom
    BY <1>1, <1>4 DEF Indices
  <2>2. \E c \in Cursor : upperLeft[oldZoom] = Append(upperLeft[oldZoom - 1], c)
    BY <2>1 DEF UIInv, ViewsAreStacked
  <2>3. nios_view' = upperLeft[oldZoom - 1]
    BY <1>1, <1>4, <2>1, CornersOfUpdate
  <2> QED
    BY <1>1, <1>4, <2>2, <2>3 DEF Stack!StackNext, Stack!ZoomOut
<1> QED
  BY <1>2, <1>3, <1>4, UpdateLevel

\* The program implements the stack of views: what its ports show changes
\* by entering a view at the cursor or by going back to the view it was
\* entered from, and level and view change together.
THEOREM ImplementsStack == UISpec => ShowsStack
<1>1. UIInit => Stack!StackInit
  BY DEF UIInit, Stack!StackInit
<1>2. UIInv /\ [UINext]_uiVars => [Stack!StackNext]_(Stack!stackVars)
  <2> SUFFICES ASSUME UIInv, [UINext]_uiVars
               PROVE  [Stack!StackNext]_(Stack!stackVars)
    OBVIOUS
  <2>1. CASE Update
    BY <2>1, UpdateShows
  <2>2. CASE ~Update
    <3>1. UNCHANGED viewVars
      BY <2>2 DEF UINext, Poll, Service, Adrift, PollNothing, PollPacket, Skip,
                  UpdateOutside, uiVars
    <3> QED
      BY <3>1 DEF viewVars, Stack!stackVars
  <2> QED
    BY <2>1, <2>2
<1> QED
  BY <1>1, <1>2, UIInvHolds, PTL DEF UISpec, ShowsStack, Stack!StackSpec
=============================================================================
