# Verification of ECE5760_Epiphyte

The repository holds six laboratory projects for an Altera DE2-115 board, in
Verilog and C. This directory models

- lab 4, the Mandelbrot explorer (`src/lab4_fract`), from the mouse clicks that
  the Nios II program reads to the last write to the framebuffer;
- lab 5, the synchronous interface of libbladeRF (`bladerf_sync_rx`,
  `bladerf_sync_tx`) that the video receiver gets its samples through: two threads,
  a ring of buffers and USB transfers;
- lab 1, the state machine of the cellular automaton.

TLC checks small instances of the models. TLAPS proves the safety properties of all
three: for every screen size, number of processors, period and table size in lab 4,
every size of the ring and number of transfers, faults and time-outs in lab 5, and
every screen, rule and size of the video memory in lab 1.

## The system

### Lab 4

    mouse -> mandlebrot.c --ports, cursor_update_clk--> view registers
                                                             |
    KEY[0] reset, KEY[3] draw ----> coordGenerator <---------+
                                        | offer / oCoordRdy
                                    loadBalancer      (a queue of one point)
                                        | oDataVal, shared bus / oProcReady
                                16 mandlebrotProcessors
                                        | oVGAVal / oProcRdy
                                    proc2memArb --> hotter_buffer (framebuffer)

| Part | State | Operations | What makes it correct |
|---|---|---|---|
| `coordGenerator.v` | state, offer, position, coordinate, `done` | restart, start a frame, offer, next column, next line, end | walks over every position; coordinate and position stay in step; an offer is withdrawn only when taken |
| `loadBalancer.v` | one point, `full`, `oCoordRdy`, `oDataVal` | take a point, hand it out, idle, wait, reset | every point goes to exactly one processor |
| `mandlebrotProcessor.v` (16) | state, point, iteration count, ready and valid | load, iterate, finish, hold, release | gives up a result only when it is being written |
| `proc2memArb.v`, `hotter_buffer.v` | grant, write port, memory | grant the highest processor with a result; write | no result is lost; none waits for ever once a redraw is no longer asked for |
| `DE2_115_Basic_Computer.v` | view registers, `oldZoom`, `drawTrigger` | edge of `CLOCK_50`, edge of `cursor_update_clk`, keys | a change of view always leads to a redraw |
| `mandlebrot.c` | zoom, debouncing counter, cursor, table of corners | poll the mouse, step in or out, update the ports | level and corner of a view always change together |

The hard parts are the pipelining of the handshakes (every wire is seen one
edge after it was set), the restart of the generator while old points are in
the pipe, the second clock, and counters that only by their sizes keep two
zoom steps out of one update. `PROJECT.json` lists these hazards by line.

### Lab 5, the synchronous interface of libbladeRF

    program -> sync_rx / sync_tx --requests--> worker thread
                    |    ^                        | async_run_stream
          status, prod_i, cons_i (buffer lock)    | event loop of lusb_stream
                    |    | buf_ready              |
                    +----+---- rx_callback / tx_callback <-- lusb_stream_cb
                    |                                             |
                    +-- async_submit_stream_buffer (TX) --> USB transfers

| Part | State | Operations | What makes it correct |
|---|---|---|---|
| `sync.c`, `sync_rx` and `sync_tx` | state of the call, partial buffer | check and start the worker, wait for a buffer, copy, advance | a call returns; blocks in order; errors reach the caller |
| `sync.c`, ring of buffers | status per buffer, `prod_i`, `cons_i`, `resubmit_count`, `submitter` | fill, empty, defer, resubmit | each buffer has one owner |
| `sync_worker.c` | state, requests, error code | START, STOP, run the stream, report | reaches STOPPED from anywhere |
| `async.c`, `backend/usb/libusb.c` | stream state, transfers, error code | submit, complete, fail, cancel, shut down | the stream ends when its last transfer does |

The hard parts are single operations spread over several locks, waits
with time-outs whose requests stay behind, two submitters for TX, a stream lock that
is dropped in the middle of a submission, and errors of single transfers at the
start, in the middle and at the end.

### Lab 1, cellular automaton

One state machine (`lab1_top.v:379`): `s_init`, `s_generate`, `s_write` (one column
per edge), `s_debounce`. `state` is assigned from `nextState` by the same edge that
assigns `nextState`, so each state is executed once more after it has chosen its
successor; `hCounter` is assigned with a blocking assignment among non-blocking
ones. It is correct if a picture still shows one generation per line. The address
is the column with the line in its low nine bits, so a column takes 512 words, of
which `vga_buffer.v` has 310000: the picture ends in the middle of column 605.

### The other projects

| Part | State and operations | Hard behaviour |
|---|---|---|
| Lab 2, DDA (`JTAG_UART.c`, `dda_param_driver.v`, `eulersillator.v`) | command string, 22-bit command port, parameter registers, trace | port sampled on another clock, commands that are sent again |
| Lab 3, drum (`compMesh.v`, `compNode.v`) | a mesh of nodes, each with a state machine | lockstep of the nodes |
| Lab 6, dancers (`motionManager.v`, `tempoFinder.v`) | beat, direction, position | three clocks, wrap-around of positions |

Generated Qsys systems, board support packages, PLLs, memory images, MATLAB
scripts and web pages are left out. Audio filters, multipliers and the escape
orbit are arithmetic on data and carry no control.

Nearly all C in the repository is not the authors': of about 410 000 lines more
than half are the output of Xilinx's simulator compiler (`lab5_cypressAN`, `isim`
directories), and most of the rest are Cypress's examples, Nuand's tools and
firmware and Altera's board support packages. The labs themselves are Verilog. The
models cover a small share of those lines and cannot cover a large one.

## Modules

- `FractalParams`: screen, processors, views, addresses, `msbOneHot`. A vector of
  wires is the set of its high bits. A coordinate is an integer: the coordinates of
  the explorer stay within -8..8, the range of the 36-bit word, so it never wraps.
  A view has a corner and step widths as constants. Colours are identified with the
  coordinate they are computed for, which tells apart more than the 3 stored bits do.
- `CoordGenerator`, `LoadBalancer`, `MandelbrotProcessor`, `Proc2MemArb`: one per
  Verilog file, one definition per branch of its always block, joined in an `...Edge`
  operator whose parameters are the input wires. `state` is assigned from `nextState`
  with a blocking assignment before it is used, so only `nextState` is state. The
  processors ignore `reset`, because the case statement assigns `nextState` after the
  reset branch did. An orbit may escape in any cycle; in the code not before the
  third, so the model has every real behaviour and some faster ones.
- `FractalEngine`: all blocks on `CLOCK_50` take one edge together (`Tick`), each
  reading the wires as they were before it. `CursorUpdate` is an edge of
  `cursor_update_clk`, `Press` and `Release` are the keys. `sampled` says that
  `CLOCK_50` had an edge since the last update: the program writes five ports,
  formats two lines of text and drives the LCD between two updates. Its reset input
  is `KEY[0]` as well, so no update comes while the engine is in reset. `accepted` and
  `stored` are history variables of the current frame.
- `FractalUI`: `mandlebrot.c`. An iteration of its loop is two steps, the mouse
  (`PollNothing`, `PollPacket`) and the update (`Skip`, `Update`). The corner of a
  view is the path of cursor positions that leads to it, because the code computes it
  from the corner it was entered from and the cursor. `UpdateOutside` is an update at
  a level beyond the tables; nothing is said of the program after it.
- `ViewStack`: what the user is promised, a stack of views.
- `SyncWorker`: what both directions of libbladeRF's synchronous interface share. The
  caller's thread is at `apc`, the worker at `wpc`; a step is what a thread does under
  one lock, so that whatever may happen between two locks does. `inflight` is the
  sequence of buffers out on USB, which completes them in order; `cancelled` are the
  ones libusb was asked to cancel, which may still complete. A failure, of a
  submission or of a transfer, uses up one of `MaxFaults`. A wait for a worker that
  would answer, only later, may time out: that uses up one of `MaxLate`.
- `SyncRX`: `rx_callback` and `sync_rx`; `data` and `put` are history variables that
  number the blocks. `SampleFifo`: what it promises, a bounded queue.
- `SyncTX`: `tx_callback`, `sync_tx`, `advance_tx_buffer` and the submission by the
  caller, in five steps because two locks are dropped in it. `unsent` is history:
  the blocks written and not given to USB.
- `CellularAutomaton`: lab 1. The address of the black pixel that `s_init` writes and
  the random bit are free choices, as are the keys in every cycle. `Words` are the
  addresses the memory has a word for; a write elsewhere is lost. `first` is history.
- `MCFractalEngine`, `MCFractalUI`, `MCSyncRX`, `MCSyncTX`, `MCCellularAutomaton`: the
  instances for TLC.
- `FractalEngineProofs`, `FractalFrameProofs`, `FractalUIProofs`, `SyncWorkerProofs`,
  `SyncRXProofs`, `SyncFifoProofs`, `SyncTXProofs`, `CellularAutomatonProofs`: theorems
  and proofs.

Definitions whose comment begins with "A slip in" are deliberately wrong
variants; replacing the definition after them by one shows that the properties
notice.

## Runs

| Run | Instance | Checks |
|---|---|---|
| `redraw` | 2 x 2 pixels, 3 processors of which 2 are seen, 6 iterations, 1 event | `TypeOK`, `Handshake`, `NoPixelLost`, `ViewCoherent`, `GeneratorInv`, `FrameComplete`, `StaleBound`, `FrameExact`, `NoDoubleWork` |
| `frame` | 2 x 1 pixels, 4 processors, 2 iterations, 1 event; the clock is fair | `Finishes`, `EveryResultStored` |
| `unseen` | as the top level wires it | violates `DispatchesWhenWanted` |
| `screen` | a first frame | violates `ScreenFilled` |
| `ui` | 2 x 2 screen, period 3, debouncing 4, 3 table entries; the loop goes on | `UITypeOK`, `OneStepPerUpdate`, `ViewsAreStacked`, `ShowsStack`, `EveryStepShown` |
| `ui_posedge` | 2 x 1 screen | violates `StepsInOnPosedge` |
| `rx` | 4 buffers, 2 transfers, calls for 1 or 3 samples with 2 per buffer, 1 fault, 1 late time-out; both threads are fair | `RXTypeOK`, `RXOwnership`, `RXIsFifo`, `RXCallReturns`, `RXCloses` |
| `tx` | the same | `TXTypeOK`, `TXOwnership`, `TXInOrder`, `TXCloses` |
| `tx_deferred` | no fault, no time-out | violates `InFlightIsTransferred` |
| `tx_error` | one fault, no time-out | violates `TXErrorReported` |
| `rx_start` | two faults, so that no first transfer can be submitted | violates `FailedStartEnds` |
| `automaton` | 3 x 3 pixels, 10 words at 4 per column, rules 30 and 110; the clock is fair | `CATypeOK`, `CAShape`, `PictureShown`, `ContinuesPicture`, `PictureEnds` |

Bounds, lab 4: `MaxEvents` bounds changes of view and key presses, not edges of the
clock. `redraw` has two lines for the aliased address at a line's end; one line, as in
`frame`, has all the cases of the generator, since it also offers the position after
the last line. More processors seen than one let results overtake each other, and one
more than seen stands for the half that the top level fails to wire. The iterations of
`redraw` are enough for an old result to be stored after the new one of the same
pixel. `frame` has as many processors as it takes to starve one: three that escape at
once fill the write port, and the two iterations make the balancer reach for the
fourth. In the user interface, period < debouncing is what the code's 20 < 200 amounts
to.

Bounds, lab 5: two transfers and four buffers leave two buffers for the caller, so
that one can be full while another is being read; an overrun has a transfer to
resubmit besides its own. Requests of 1 and 3 samples end inside, at the end and
beyond a buffer. The number of calls, overruns, restarts and transfers is not bounded.

Bounds, lab 1: three columns have a left end, a right end and one in between. With ten
words the last column has two of its four, as column 605 has 240 of its 512.

Fairness: in lab 4 and lab 1 the clock runs. `Finishes` says what follows if the
program keeps sending updates, as its endless loop does, and the user lets go of the
key (`Served`), without which the engine is held in its first state. In the user
interface the loop goes on. In lab 5 both threads get to run, a transfer ends one way
or another (libusb has a time-out for each) and a timed wait expires. No late
time-out has to happen (`WF(... /\ UNCHANGED late)`), nobody has to call or close.

Six runs show where the code differs from what it says of itself:

- `unseen`: `loadBalancer #(16)` sets the parameter `screenWidth`; `numProcs` stays 8
  and processors 8 to 15 never get a point, against the comment at
  `loadBalancer.v:64`.
- `screen`: the generator skips position (0, 0), so address 0 is never written;
  `loadBalancer_testbench.v:240` dumps the picture from address 0.
- `ui_posedge`: the guard marked "Left button posedge" (`mandlebrot.c:190`) also
  accepts a release.
- `tx_deferred`: `advance_tx_buffer` marks a buffer as in flight also when it leaves it
  to the callback, and the callback takes full ones only. The block is lost and its
  buffer is not free again before a restart of the stream.
- `tx_error`: `exec_running_state` wakes the caller to report a stream error; `sync_tx`
  waits again without looking at it.
- `rx_start`: `lusb_stream` leaves the ending of a stream that could not be started to
  the callbacks of cancelled transfers; if none was submitted there are none.
  `sync_deinit` then cancels the thread, and waits for the stream.

`EveryResultStored` cannot be sharpened to every result. While `KEY[3]` is held in
mid-frame the offer stays up and the balancer hands out the same point every second
cycle. A result takes two slots of the write port, because it is granted twice, and a
processor whose point escapes at once is back after six cycles, so three of them take
every slot, and TLC finds processor 0 of four waiting for as long as the key is held.
In the code an orbit cannot escape before its third edge: a processor is back after
eight cycles, four of the eight that are served (7 to 4) fill the port, and results of
3 to 0 wait. The three processors of the property (`Favoured`) are on the safe side.
Releasing the key lets all results through; nothing is lost (`NoPixelLost`), and the
repository says nothing to the contrary.

`StaleBound` cannot be sharpened to no wrong pixel: with two processors one pixel of
the view before can be left in a finished frame. The new frame is computed by a
processor that has stored its old result, so at least one of the processors leaves
nothing behind.

Premises of the lab 5 properties that TLC shows to be needed: after a START that was
answered late the stream may be restarted under a buffer in use (`late = 0` in
`RXOwnership` and `TXOwnership`); a SHUTDOWN submitted before `async_run_stream` is
overwritten (`wpc # "run"` in `TXCloses`); with as many faults as transfers a
stream is left without one and does not end (`WorkerStuck` in `RXCloses`). `RXIsFifo` ends with the first fault, because a
restart drops what was in flight and begins at buffer 0 again. `TXInOrder` says
nothing of blocks that are never sent, see `tx_deferred`.

## Theorems

Assumptions: positive screen size; at least one processor seen and no more than
exist; any views with integer corners and steps, zoom 0 with a step in x other than 0; any
number of events; in the program 0 < period < debouncing <= saturation; fewer transfers than buffers, as `sync_init`
demands, and any number of faults and late time-outs. All are named `ASSUME`s that TLC
evaluates in the runs.

`FractalEngineProofs`:

- `TypeCorrect`, then `HandshakeHolds`. `Handshake` is inductive with the types. Its
  key part is `OneLoads`: a processor told to load is waiting while the bus has its
  point and has loaded once the bus has the next one. `GrantMeansWrite` shows that
  the second grant every result gets is harmless: the processor cannot be back in
  `s_store` by then.
- `NoPixelIsLost` follows with the handshakes.
- `GeneratorInvHolds`: `GeneratorInv` ties the coordinate to the position, says that
  every position gone past was taken, and that an edge which saw `drawTrigger` left
  the generator in `s_init`. Without the last part the next update could lower
  `drawTrigger` before anyone saw it.
- `ViewIsCoherent` and `FrameIsComplete` are consequences. The second needs
  `NoPixelLost`: what was taken and is not in flight is stored.

`FractalFrameProofs`, what is on the screen at the end of a frame:

- `FirstFrameIsExact` and `NoWorkIsDoubled`. The invariant `FirstFrame` speaks of the
  time before the first event: the view is still the one of power-up, what was
  accepted is exactly what the generator has gone past, everything in flight or stored
  was accepted, and a pixel is in one place only. The last part needs that two
  positions of the frame never have the same coordinate (`OnePosition`), hence the
  assumption on the step of zoom 0: 2 and 1 over 640 columns, not 0.
- `StaleIsBounded`. A pixel is spoiled when it holds an old value and no point of the
  frame is still to come for it; only processors busy with an old point can spoil one.
  When the first point of the frame is given to a processor at most the others are
  such, and `SpoilBound` says that from then on the pixels spoiled and the processors
  that may still spoil one are together fewer than the processors seen: a store moves
  one from the second group to the first, and by `PortInv` the second write of a
  result hits the pixel of the first.

`FractalUIProofs`:

- `UIInvHolds`: `UITypeOK`, `OneStepPerUpdate` and `ViewsAreStacked` are inductive only
  together. After a step the debouncing count is at most the update count, which is at
  most the period, so the next step waits for the update; hence the update moves by
  one level and extends or shortens the stack by one view.
- `UITypeCorrect`, `StepsAreDebounced`, `StackIsKept` are its parts.
- `ImplementsStack`: the program implements `ViewStack`. This is what `FractalEngine`
  relies on when it takes a change of zoom for a change of view.

`CellularAutomatonProofs`:

- `CATypeCorrect` and `CAShapeHolds`: the ranges are inductive only with `CAShape`,
  which says for every pair (`state`, `nextState`) that occurs where the counters are.
  The second execution of `s_generate` finds column 0 and a line left, the second one
  of `s_write` the column after the last; so the line counter moves once per line.

- `PictureIsShown`: `GenerationsHeld` gives the generation that `currentGen` holds in
  every state, `LinesShown` the lines already on the screen. A write takes one edge to
  reach the memory, so the second speaks of `Port`, the memory after the pending write.
  `Generation` is a recursive function: that it exists and satisfies its equation is
  shown by the smallest counterexample (`CourseExists`, `GenerationIsCourse`), and
  `NextGenIsSuccessor` shows that the shifts at the ends of the row make it a ring.
  The theorem is about the pixels with a word (`Shows`): with the code's 310000 words
  columns 0 to 604 and the upper half of column 605.
- `PictureContinues`: the action property follows from `GenerationsHeld` alone.

`SyncWorkerProofs` holds what both directions of lab 5 need: the types of the shared
steps, what the head and the tail of the transfers in flight are, and `StartAnswered`,
the handshake of caller and worker. As long as no START was answered late, a START is
in `requests` or being acted on only while the caller waits for it.

`SyncRXProofs`:

- `RXTypeCorrect`.
- `RXOwnershipHolds`. The ownership of buffers is inductive only with `StartAnswered`:
  the restart in `exec_idle_state` makes the first buffers IN_FLIGHT whatever they were,
  which takes a buffer from the caller unless the caller is the one who waits for the
  start. After a late answer it may be reading already; that is the premise `late = 0`.

`SyncFifoProofs`:

- `RXImplementsFifo`: `sync_rx` and `rx_callback` together implement `SampleFifo`. The
  invariant `RingInv` describes the ring from `cons_i` on: u buffers for the caller, of
  which the first may be begun, then the ones in flight, then the empty ones, with
  `prod_i` at their start. The transfers come back in the order of the ring, turned
  by `resubmit_count` during an overrun: an overrun that ended one transfer early or
  late would leave them turned, and the next block accepted would not be the one
  behind the last. `RunsOnce` says that without a fault the worker prepares the stream
  only on the ring as `sync_init` left it, so the restart, which does not look at the
  caller's buffers, disturbs none. `Store` is then a Put, `BufferReady` a Get, and
  every other step a stutter.

`SyncTXProofs`:

- `TXTypeCorrect`. The types need `Slots`: a submission between its two locks holds a
  transfer that is free, so the number in flight stays within bounds.
- `TXInOrderHolds`: the blocks given to USB leave in the order they were written. The
  invariant `Order` says who will take a FULL buffer, the next callback or the next call,
  and that its block still waits; it holds without the premise `late = 0`.
- `TXOwnershipHolds`: as for RX, with the transfer that `submit_transfer` has reserved
  and not yet submitted counted as in flight.

Every invariant, every action property and both refinements of the passing runs are
proved. Only model-checked are the liveness properties (`Finishes`,
`EveryResultStored`, `EveryStepShown`, `RXCallReturns`, `RXCloses`, `TXCloses`,
`PictureEnds`): they rest on fairness, which the prover does not treat.

## Not modelled

Lab 4: the timer on the 7-segment displays, the cursor overlay and the colour table of
the display; the initialisation of mouse and LCD; the byte stream under the
mouse packets; the arithmetic of the orbit, including its wrap-around; `quickLog2`
and `msbOneHot` at the level of bits. Position (0, 480), the last one offered,
has the address after the last word of the framebuffer; the model keeps a word for
it, outside of the screen. At power-up the view registers hold the complements of
2 and 1 plus one unit, two units of the last place away from what the program
sends for zoom 0; the model takes them for the same view.

Lab 5: the format with metadata (timestamps and bursts); `sync_deinit` while a call is
in progress, which `bladerf_enable_module` does not exclude; a stream time-out of 0
for submissions; callbacks in another thread than the worker (they run in its event
loop only, and the set-up of the transfers is one step, while a second thread that
handles events of the same libusb context, such as the worker of the other direction,
could run one in between); errors of libusb's event handling; failures of pthread functions and
allocations; the other backends; everything else under `lab5_bladeRF_code` and
`lab5_cypressAN`, which is vendored.

Lab 1: the display side and the pin assignments. What the display reads at addresses
beyond the last word, columns 606 to 639 and the lower half of 605, is left open by
`vga_buffer.v`; the model has no word there.

Labs 2, 3 and 6: see the plan.

## Plan

1. Lab 2: command interpreter, command port, parameter registers, trace buffer.
2. Lab 6: motion across clock domains; lab 3: node and mesh.
3. The PS/2 byte stream with partial packets, and `FractalUI` composed with
   `FractalEngine` over the update port.
4. Lab 5: the metadata format of `sync_rx` and `sync_tx`.
5. Proofs: an abstract framebuffer store that the engine implements.
