-------------------------------- MODULE SyncRX --------------------------------
(***************************************************************************)
(* bladerf_sync_rx with the format SC16_Q11 (lab 5): sync_rx of sync.c and *)
(* rx_callback of sync_worker.c around the ring of buffers. The worker     *)
(* fills buffers over USB at prod_i, the caller empties them at cons_i.    *)
(***************************************************************************)
EXTENDS SyncWorker

VARIABLES
    resubmit_count,     \* of buffer_mgmt: transfers left to resubmit in an overrun
    data,               \* data[b]: the block in buffer b, history
    put                 \* the number of the next accepted block, history

rxVars == <<resubmit_count, data, put>>
vars == <<bufVars, apiVars, workerVars, streamVars, faults, late, rxVars>>

\* Blocks are numbered modulo Modulus; no more are ever in the ring at once.
Modulus == NumBuffers + 1
NoBlock == NumBuffers + 1

RXTypeOK ==
    /\ SharedTypeOK
    /\ cons_i \in Buffers
    /\ resubmit_count \in 0 .. NumXfers - 1
    /\ data \in [Buffers -> 0 .. NoBlock] /\ put \in 0 .. Modulus - 1

\* The first NumXfers buffers are the ones the stream will submit.
InFirstTransfers(b) == b < NumXfers

RXInit ==
    /\ SharedInit
    /\ status = [b \in Buffers |-> IF InFirstTransfers(b) THEN "IN_FLIGHT" ELSE "EMPTY"]
    /\ prod_i = NumXfers /\ cons_i = 0
    /\ resubmit_count = 0
    /\ data = [b \in Buffers |-> NoBlock] /\ put = 0

-----------------------------------------------------------------------------
(* The worker.                                                             *)

\* A slip in exec_idle_state: the producer starts on a buffer of the stream.
PrepareStatusOffByOne == [b \in Buffers |->
    IF b < NumXfers - 1 THEN "IN_FLIGHT"
    ELSE IF status[b] = "IN_FLIGHT" THEN "EMPTY" ELSE status[b]]

\* exec_idle_state on START: only the buffers that were in flight are made
\* empty. FULL and PARTIAL ones stay, and so does resubmit_count.
PrepareStatus == [b \in Buffers |->
    IF InFirstTransfers(b) THEN "IN_FLIGHT"
    ELSE IF status[b] = "IN_FLIGHT" THEN "EMPTY" ELSE status[b]]

Prepare ==
    /\ wpc = "prepare"
    /\ prod_i' = NumXfers
    /\ status' = PrepareStatus
    /\ wstate' = "RUNNING" /\ wpc' = "run"
    /\ UNCHANGED <<cons_i, partial_off, apiVars, err_code, requests, streamVars,
                   faults, late, rxVars>>

\* The buffers of a set, lowest first.
InOrder(S) == {seq \in [1 .. Cardinality(S) -> S] :
                  \A j, k \in DOMAIN seq : j < k => seq[j] < seq[k]}

\* lusb_stream submits the first buffers. When a submission fails, the ones
\* before it are cancelled, the ones after it are submitted all the same.
\* One step: no callback comes before it is over, as callbacks run in the
\* worker's own event loop.
SetupTransfers ==
    /\ wpc = "setup"
    /\ \E failed \in SUBSET (0 .. NumXfers - 1) :
          /\ faults + Cardinality(failed) <= MaxFaults
          /\ faults' = faults + Cardinality(failed)
          /\ error_code' = IF failed = {} THEN error_code ELSE "ERR"
          /\ inflight' \in InOrder((0 .. NumXfers - 1) \ failed)
          /\ cancelled' = {b \in 0 .. NumXfers - 1 :
                              b \notin failed /\ \E f \in failed : b < f}
    /\ wpc' = "events"
    /\ UNCHANGED <<bufVars, apiVars, wstate, err_code, requests, streamState,
                   late, rxVars>>

\* A slip in rx_callback: the buffer becomes FULL without a signal.
StoreMute ==
    /\ Completes /\ resubmit_count = 0 /\ status[prod_i] = "EMPTY"
    /\ status' = [status EXCEPT ![Head(inflight)] = "FULL", ![prod_i] = "IN_FLIGHT"]
    /\ prod_i' = NextBuffer(prod_i)
    /\ Resubmit(prod_i, FALSE)
    /\ data' = [data EXCEPT ![Head(inflight)] = put]
    /\ put' = (put + 1) % Modulus
    /\ UNCHANGED <<cons_i, partial_off, apiVars, workerVars, late, resubmit_count>>

\* rx_callback: there is an empty buffer to submit next, so the filled one
\* goes to the caller.
Store ==
    /\ Completes /\ resubmit_count = 0 /\ status[prod_i] = "EMPTY"
    /\ status' = [status EXCEPT ![Head(inflight)] = "FULL", ![prod_i] = "IN_FLIGHT"]
    /\ SignalBufReady
    /\ prod_i' = NextBuffer(prod_i)
    /\ Resubmit(prod_i, FALSE)
    /\ data' = [data EXCEPT ![Head(inflight)] = put]
    /\ put' = (put + 1) % Modulus
    /\ UNCHANGED <<cons_i, partial_off, state, left, timed, workerVars, late,
                   resubmit_count>>

\* A slip in rx_callback: one transfer too few is resubmitted.
OverrunShort == IF NumXfers > 1 THEN NumXfers - 2 ELSE 0

\* A slip in rx_callback: this transfer is counted with the others.
OverrunLong == NumXfers

\* How many transfers are still to be resubmitted when an overrun begins.
OverrunCount == NumXfers - 1

\* rx_callback, overrun: no empty buffer. This transfer and the others in
\* flight are resubmitted as they are, and what they held is dropped.
Overrun ==
    /\ Completes /\ resubmit_count = 0 /\ status[prod_i] # "EMPTY"
    /\ resubmit_count' = OverrunCount
    /\ Resubmit(Head(inflight), FALSE)
    /\ UNCHANGED <<bufVars, apiVars, workerVars, late, data, put>>

OverrunGoesOn ==
    /\ Completes /\ resubmit_count > 0
    /\ resubmit_count' = resubmit_count - 1
    /\ Resubmit(Head(inflight), FALSE)
    /\ UNCHANGED <<bufVars, apiVars, workerVars, late, data, put>>

RXWorker ==
    \/ /\ WorkerControl \/ TransferEnds(FALSE) \/ CallbackStops(FALSE)
       /\ UNCHANGED rxVars
    \/ Prepare \/ SetupTransfers \/ Store \/ Overrun \/ OverrunGoesOn

-----------------------------------------------------------------------------
(* The caller: the states of sync_rx.                                      *)

ResetBufMgmt ==
    /\ apc = "run" /\ state = "RESET_BUF_MGMT"
    /\ cons_i' = 0 /\ state' = "START_WORKER"
    /\ UNCHANGED <<status, prod_i, partial_off, apc, left, timed, workerVars,
                   streamVars, faults, late, rxVars>>

\* WAIT_FOR_BUFFER before the wait.
WaitForBuffer ==
    /\ apc = "run" /\ state = "WAIT_FOR_BUFFER"
    /\ \/ status[cons_i] = "FULL" /\ state' = "BUFFER_READY" /\ UNCHANGED apc
       \/ status[cons_i] # "FULL" /\ apc' = "waiting" /\ UNCHANGED state
    /\ UNCHANGED <<bufVars, left, timed, workerVars, streamVars, faults, late, rxVars>>

\* WAIT_FOR_BUFFER after the wait: without a full buffer something is wrong
\* with the stream.
Woken ==
    /\ apc = "woken"
    /\ state' = IF status[cons_i] = "FULL" THEN "BUFFER_READY" ELSE "CHECK_WORKER"
    /\ apc' = "run"
    /\ UNCHANGED <<bufVars, left, timed, workerVars, streamVars, faults, late, rxVars>>

BufferReady ==
    /\ apc = "run" /\ state = "BUFFER_READY"
    /\ status' = [status EXCEPT ![cons_i] = "PARTIAL"]
    /\ partial_off' = 0 /\ state' = "USING_BUFFER"
    /\ UNCHANGED <<prod_i, cons_i, apc, left, timed, workerVars, streamVars,
                   faults, late, rxVars>>

\* advance_rx_buffer
AdvanceRX ==
    /\ status' = [status EXCEPT ![cons_i] = "EMPTY"]
    /\ data' = [data EXCEPT ![cons_i] = NoBlock]
    /\ cons_i' = NextBuffer(cons_i)

\* USING_BUFFER: copy what the call still wants and the buffer still has.
UsingBuffer ==
    /\ apc = "run" /\ state = "USING_BUFFER"
    /\ \E n \in {left, SamplesPerBuffer - partial_off} :
          /\ n <= left /\ n <= SamplesPerBuffer - partial_off
          /\ partial_off' = partial_off + n
          /\ IF left = n THEN Return ELSE left' = left - n /\ UNCHANGED <<apc, timed>>
    /\ \/ /\ partial_off' = SamplesPerBuffer
          /\ AdvanceRX /\ state' = "WAIT_FOR_BUFFER"
       \/ /\ partial_off' < SamplesPerBuffer
          /\ UNCHANGED <<status, cons_i, data, state>>
    /\ UNCHANGED <<prod_i, workerVars, streamVars, faults, late, resubmit_count, put>>

RXCaller ==
    \/ /\ \/ CheckWorker("RESET_BUF_MGMT") \/ StartWorker \/ WorkerStarted
          \/ StartTimeout \/ WaitTimeout \/ Deinit
       /\ UNCHANGED rxVars
    \/ ResetBufMgmt \/ WaitForBuffer \/ Woken \/ BufferReady \/ UsingBuffer

\* What the program that uses libbladeRF decides to do, and what nobody does.
RXEnv ==
    \/ BeginCall /\ UNCHANGED rxVars
    \/ RequestStop("none") /\ UNCHANGED rxVars
    \/ SpuriousWake /\ UNCHANGED rxVars

Closed == apc = "closed" /\ UNCHANGED vars

RXNext == RXWorker \/ RXCaller \/ RXEnv \/ Closed

RXSpec == RXInit /\ [][RXNext]_vars

\* Both threads run, transfers complete or time out, and a time-out ends a
\* timed wait. Nobody has to call, close or wake spuriously, and no
\* time-out has to fire on a worker that is only slow.
RXFairSpec == RXSpec /\ WF_vars(RXWorker) /\ WF_vars(RXCaller /\ UNCHANGED late)

-----------------------------------------------------------------------------
(* Properties.                                                             *)

\* The two threads never use a buffer at the same time: what USB may write is
\* IN_FLIGHT and submitted once, and the buffer sync_rx copies from is PARTIAL.
BuffersOwned ==
    /\ \A b \in InFlight : status[b] = "IN_FLIGHT"
    /\ \A j, k \in DOMAIN inflight : inflight[j] = inflight[k] => j = k
    /\ state = "USING_BUFFER" => status[cons_i] = "PARTIAL"

\* As long as START is answered in time, the ownership of the buffers
\* survives overruns, stream errors and restarts; and as long as no transfer
\* fails no transfer goes missing.
RXOwnership ==
    /\ late = 0 => BuffersOwned
    /\ faults = 0 /\ wpc = "events" /\ streamState = "RUNNING" =>
          Len(inflight) = NumXfers

\* The blocks the caller has not begun to read, from cons_i on.
FirstUnread == IF status[cons_i] = "PARTIAL" THEN NextBuffer(cons_i) ELSE cons_i
Unread ==
    LET at(k) == (FirstUnread + k) % NumBuffers
        n == CHOOSE k \in 0 .. NumBuffers :
                /\ \A j \in 0 .. k - 1 : status[at(j)] = "FULL"
                /\ k = NumBuffers \/ status[at(k)] # "FULL"
    IN  [k \in 1 .. n |-> data[at(k - 1)]]

\* rx_callback and sync_rx together are a FIFO: accepted blocks are read in
\* the order they were received, each once, overruns and their resubmissions
\* included.
Fifo == INSTANCE SampleFifo WITH
    Capacity <- NumBuffers - NumXfers, queue <- Unread,
    broken <- (faults > 0 \/ late > 0)
RXIsFifo == Fifo!FifoSpec

\* While the stream works, every sync_rx call returns, with or without a
\* time-out: no wake-up is lost and an overrun ends.
RXCallReturns ==
    (apc \in InCall /\ faults = 0) ~> (apc \notin InCall \/ faults > 0 \/ late > 0)

\* sync_deinit comes back, wherever the worker is when STOP is requested,
\* unless the stream was left without a transfer.
RXCloses ==
    (apc = "stopping" /\ late = 0) ~> (apc = "closed" \/ late > 0 \/ WorkerStuck)

\* A stream none of whose first transfers could be submitted ends:
\* lusb_stream leaves it in the running state for callbacks to end it.
FailedStartEnds ==
    (wpc = "events" /\ inflight = <<>> /\ error_code = "ERR") ~> (wpc # "events")
===============================================================================
