------------------------------ MODULE SyncWorker ------------------------------
(***************************************************************************)
(* What bladerf_sync_rx and bladerf_sync_tx of libbladeRF (lab 5) have in  *)
(* common: the worker thread (sync_worker.c), the stream it runs (async.c, *)
(* backend/usb/libusb.c) and the part of the calling thread's state        *)
(* machine that sync_rx and sync_tx share (sync.c). SyncRX and SyncTX add  *)
(* the two directions.                                                     *)
(*                                                                         *)
(* Two threads take turns: the caller's, at apc, and the worker, at wpc.   *)
(* A step is what a thread does under one lock. Callbacks run in the       *)
(* worker's event loop, one at a time, and hold the stream lock.           *)
(***************************************************************************)
EXTENDS Integers, Sequences, FiniteSets

CONSTANTS
    NumBuffers,         \* num_buffers
    NumXfers,           \* num_xfers, the transfers that can be in flight
    SamplesPerBuffer,   \* samples_per_buffer
    Requests,           \* the values of num_samples a caller uses
    Timeouts,           \* TRUE: a call with a time-out, FALSE: timeout_ms = 0
    MaxFaults,          \* bound: transfers that fail
    MaxLate             \* bound: time-outs that fire on a worker that is only slow

\* sync_init refuses num_transfers >= num_buffers.
ASSUME SyncAssumption ==
    /\ NumBuffers \in Nat /\ NumXfers \in Nat /\ 0 < NumXfers /\ NumXfers < NumBuffers
    /\ SamplesPerBuffer \in Nat \ {0}
    /\ Requests \subseteq Nat \ {0} /\ Timeouts \subseteq BOOLEAN
    /\ MaxFaults \in Nat /\ MaxLate \in Nat

VARIABLES
    status, prod_i, cons_i, partial_off,    \* struct buffer_mgmt
    state, apc, left, timed,                \* s->state; the call in progress
    wpc, wstate, err_code, requests,        \* struct sync_worker
    streamState, error_code, inflight, cancelled,   \* struct bladerf_stream
    faults, late                            \* the bounds used up

bufVars == <<status, prod_i, cons_i, partial_off>>
apiVars == <<state, apc, left, timed>>
workerVars == <<wpc, wstate, err_code, requests>>
streamVars == <<streamState, error_code, inflight, cancelled>>

Buffers == 0 .. NumBuffers - 1
NextBuffer(i) == (i + 1) % NumBuffers
InFlight == {inflight[k] : k \in DOMAIN inflight}

Status == {"EMPTY", "PARTIAL", "FULL", "IN_FLIGHT"}
States == {"CHECK_WORKER", "RESET_BUF_MGMT", "START_WORKER", "WAIT_FOR_BUFFER",
           "BUFFER_READY", "USING_BUFFER"}

\* Where the caller's thread is. "none": outside libbladeRF. "run": in the
\* loop of sync_rx or sync_tx. "starting", "waiting": blocked on state_changed
\* or buf_ready. "woken": signalled, not yet running. "submit" to "failed":
\* in advance_tx_buffer. The last four are in sync_deinit.
InCall == {"run", "starting", "waiting", "woken",
           "submit", "submitting", "submitted", "defer", "failed"}
InDeinit == {"shutdown", "stopping", "freeing"}
ApiPoints == {"none", "closed"} \cup InCall \cup InDeinit

\* Where the worker is. "idle" to "shutdown": exec_idle_state and the states
\* that follow it. "run", "setup", "events": async_run_stream. "ended",
\* "wake", "stopped": after the stream.
WorkerPoints == {"idle", "prepare", "run", "setup", "events", "ended", "wake",
                 "return", "stop", "shutdown", "stopped", "cancelled"}

SharedTypeOK ==
    /\ status \in [Buffers -> Status] /\ prod_i \in Buffers
    /\ partial_off \in 0 .. SamplesPerBuffer
    /\ state \in States /\ apc \in ApiPoints /\ left \in Nat /\ timed \in BOOLEAN
    /\ wpc \in WorkerPoints
    /\ wstate \in {"IDLE", "RUNNING", "SHUTTING_DOWN", "STOPPED"}
    /\ err_code \in {"OK", "ERR"} /\ error_code \in {"OK", "ERR"}
    /\ requests \subseteq {"START", "STOP"}
    /\ streamState \in {"IDLE", "RUNNING", "SHUTTING_DOWN", "DONE"}
    /\ inflight \in Seq(Buffers) /\ Len(inflight) <= NumXfers
    /\ cancelled \subseteq Buffers
    /\ faults \in 0 .. MaxFaults /\ late \in 0 .. MaxLate

\* sync_init, sync_worker_init, async_init_stream and lusb_init_stream, once
\* the worker has reported IDLE.
SharedInit ==
    /\ partial_off = 0
    /\ state = "CHECK_WORKER" /\ apc = "none" /\ left = 0 /\ timed = FALSE
    /\ wpc = "idle" /\ wstate = "IDLE" /\ err_code = "OK" /\ requests = {}
    /\ streamState = "IDLE" /\ error_code = "OK" /\ inflight = <<>> /\ cancelled = {}
    /\ faults = 0 /\ late = 0

\* The call returns to the program.
Return == apc' = "none" /\ left' = 0 /\ timed' = FALSE

\* pthread_cond_signal(&b->buf_ready)
SignalBufReady == apc' = IF apc = "waiting" THEN "woken" ELSE apc

-----------------------------------------------------------------------------
(* The worker thread.                                                      *)

\* The requests are taken and cleared together; STOP wins over START.
ExecIdle ==
    /\ wpc = "idle" /\ requests # {}
    /\ requests' = {}
    /\ wpc' = IF "STOP" \in requests THEN "stop" ELSE "prepare"
    /\ UNCHANGED <<bufVars, apiVars, wstate, err_code, streamVars, faults, late>>

\* SHUTTING_DOWN, and then STOPPED and the end of the thread.
ExecShutdown ==
    /\ \/ wpc = "stop" /\ wstate' = "SHUTTING_DOWN" /\ wpc' = "shutdown"
       \/ wpc = "shutdown" /\ wstate' = "STOPPED" /\ wpc' = "stopped"
    /\ UNCHANGED <<bufVars, apiVars, err_code, requests, streamVars, faults, late>>

\* async_run_stream up to the backend's stream().
RunStream ==
    /\ wpc = "run"
    /\ streamState' = "RUNNING" /\ wpc' = "setup"
    /\ UNCHANGED <<bufVars, apiVars, wstate, err_code, requests,
                   error_code, inflight, cancelled, faults, late>>

\* The event loop of lusb_stream ends when the stream is DONE.
StreamEnds ==
    /\ wpc = "events" /\ streamState = "DONE"
    /\ wpc' = "ended"
    /\ UNCHANGED <<bufVars, apiVars, wstate, err_code, requests, streamVars, faults, late>>

\* exec_running_state keeps the stream's result for the caller ...
SaveResult ==
    /\ wpc = "ended"
    /\ err_code' = error_code
    /\ wpc' = IF error_code = "OK" THEN "return" ELSE "wake"
    /\ UNCHANGED <<bufVars, apiVars, wstate, requests, streamVars, faults, late>>

\* ... and wakes it, under another lock, if that is an error.
WakeCaller ==
    /\ wpc = "wake"
    /\ SignalBufReady
    /\ wpc' = "return"
    /\ UNCHANGED <<bufVars, state, left, timed, wstate, err_code, requests,
                   streamVars, faults, late>>

\* Only then does the worker report IDLE.
ReturnToIdle ==
    /\ wpc = "return"
    /\ wstate' = "IDLE" /\ wpc' = "idle"
    /\ UNCHANGED <<bufVars, apiVars, err_code, requests, streamVars, faults, late>>

WorkerControl ==
    \/ ExecIdle \/ ExecShutdown \/ RunStream \/ StreamEnds
    \/ SaveResult \/ WakeCaller \/ ReturnToIdle

-----------------------------------------------------------------------------
(* Transfers. USB completes the transfers of an endpoint in their order.   *)

\* The end of lusb_stream_cb in a stream that shuts down: all is done when no
\* transfer is out, otherwise what is out is cancelled. held: a transfer is
\* reserved by submit_transfer and not yet with libusb.
ShutDown(rest, held) ==
    /\ inflight' = rest
    /\ streamState' = IF rest = <<>> /\ ~held THEN "DONE" ELSE "SHUTTING_DOWN"
    /\ cancelled' = {rest[k] : k \in DOMAIN rest}

\* A transfer comes back cancelled or with an error, or the stream is already
\* shutting down: the sync callback is not called.
TransferEnds(held) ==
    /\ wpc = "events" /\ inflight # <<>>
    /\ \/ /\ Head(inflight) \in cancelled \/ streamState = "SHUTTING_DOWN"
          /\ UNCHANGED <<error_code, faults>>
       \/ /\ faults < MaxFaults
          /\ faults' = faults + 1 /\ error_code' = "ERR"
    /\ ShutDown(Tail(inflight), held)
    /\ UNCHANGED <<bufVars, apiVars, workerVars, late>>

\* A transfer completes, and the sync callback sees the STOP request.
CallbackStops(held) ==
    /\ wpc = "events" /\ inflight # <<>> /\ streamState = "RUNNING"
    /\ "STOP" \in requests
    /\ ShutDown(Tail(inflight), held)
    /\ UNCHANGED <<bufVars, apiVars, workerVars, error_code, faults, late>>

\* A slip in the callbacks: the STOP request is not looked at.
CompletesBlind == wpc = "events" /\ inflight # <<>> /\ streamState = "RUNNING"

\* A transfer completes and the sync callback goes on.
Completes ==
    /\ wpc = "events" /\ inflight # <<>> /\ streamState = "RUNNING"
    /\ "STOP" \notin requests

\* The callback returned next: submit_transfer. A failure shuts the stream
\* down and leaves error_code alone.
Resubmit(next, held) ==
    \/ /\ inflight' = Append(Tail(inflight), next)
       /\ cancelled' = cancelled \ {Head(inflight)}
       /\ UNCHANGED <<streamState, error_code, faults>>
    \/ /\ faults < MaxFaults
       /\ faults' = faults + 1
       /\ ShutDown(Tail(inflight), held)
       /\ UNCHANGED error_code

-----------------------------------------------------------------------------
(* The caller.                                                             *)

\* A call begins. There is one call at a time, under dev->sync_lock.
BeginCall ==
    /\ apc = "none"
    /\ left' \in Requests /\ timed' \in Timeouts /\ apc' = "run"
    /\ UNCHANGED <<bufVars, state, workerVars, streamVars, faults, late>>

\* CHECK_WORKER: a stream error is taken, cleared and returned.
CheckWorker(whenIdle) ==
    /\ apc = "run" /\ state = "CHECK_WORKER"
    /\ err_code' = "OK"
    /\ \/ err_code = "ERR" /\ Return /\ UNCHANGED state
       \/ /\ err_code = "OK"
          /\ state' = IF wstate = "IDLE" THEN whenIdle ELSE "WAIT_FOR_BUFFER"
          /\ UNCHANGED <<apc, left, timed>>
    /\ UNCHANGED <<bufVars, wpc, wstate, requests, streamVars, faults, late>>

\* START_WORKER: the request, and then the wait for RUNNING.
StartWorker ==
    /\ apc = "run" /\ state = "START_WORKER"
    /\ requests' = requests \cup {"START"} /\ apc' = "starting"
    /\ UNCHANGED <<bufVars, state, left, timed, wpc, wstate, err_code,
                   streamVars, faults, late>>

WorkerStarted ==
    /\ apc = "starting" /\ wstate = "RUNNING"
    /\ state' = "WAIT_FOR_BUFFER" /\ apc' = "run"
    /\ UNCHANGED <<bufVars, left, timed, workerVars, streamVars, faults, late>>

\* The wait ends without RUNNING: the worker was too slow, or it has been
\* through RUNNING and back before the caller looked.
StartTimeout ==
    /\ apc = "starting" /\ wstate # "RUNNING"
    /\ \/ wpc = "idle" /\ requests = {} /\ UNCHANGED late
       \/ late < MaxLate /\ late' = late + 1
    /\ Return
    /\ UNCHANGED <<bufVars, state, workerVars, streamVars, faults>>

\* wait_for_buffer ends by a time-out; s->state stays WAIT_FOR_BUFFER.
WaitTimeout ==
    /\ apc = "waiting" /\ timed
    /\ Return
    /\ UNCHANGED <<bufVars, state, workerVars, streamVars, faults, late>>

\* A wait for a condition variable may also end without a signal.
SpuriousWake ==
    /\ apc = "waiting"
    /\ apc' = "woken"
    /\ UNCHANGED <<bufVars, state, left, timed, workerVars, streamVars, faults, late>>

-----------------------------------------------------------------------------
(* sync_deinit, between two calls.                                         *)

\* sync_worker_deinit: the STOP request.
RequestStop(from) ==
    /\ apc = from
    /\ requests' = requests \cup {"STOP"} /\ apc' = "stopping"
    /\ UNCHANGED <<bufVars, state, left, timed, wpc, wstate, err_code,
                   streamVars, faults, late>>

WorkerJoined ==
    /\ apc = "stopping" /\ wstate = "STOPPED"
    /\ apc' = "freeing"
    /\ UNCHANGED <<bufVars, state, left, timed, workerVars, streamVars, faults, late>>

\* No transfer will ever call back, and the stream is not done.
WorkerStuck == wpc = "events" /\ inflight = <<>> /\ streamState # "DONE"

\* After three seconds the thread is cancelled.
CancelWorker ==
    /\ apc = "stopping" /\ wstate # "STOPPED"
    /\ \/ WorkerStuck /\ UNCHANGED late
       \/ late < MaxLate /\ late' = late + 1
    /\ wpc' = "cancelled" /\ apc' = "freeing"
    /\ UNCHANGED <<bufVars, state, left, timed, wstate, err_code, requests,
                   streamVars, faults>>

\* async_deinit_stream sleeps until the stream is IDLE or DONE, then frees.
FreeStream ==
    /\ apc = "freeing"
    /\ apc' = IF streamState \in {"IDLE", "DONE"} THEN "closed" ELSE "freeing"
    /\ UNCHANGED <<bufVars, state, left, timed, workerVars, streamVars, faults, late>>

Deinit == WorkerJoined \/ CancelWorker \/ FreeStream
===============================================================================
