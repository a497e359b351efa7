-------------------------------- MODULE SyncTX --------------------------------
(***************************************************************************)
(* bladerf_sync_tx with the format SC16_Q11 (lab 5): sync_tx and           *)
(* advance_tx_buffer of sync.c, tx_callback of sync_worker.c and           *)
(* lusb_submit_stream_buffer of backend/usb/libusb.c. The caller fills the *)
(* ring at prod_i. It hands a full buffer to USB itself (submitter FN), or *)
(* leaves it at cons_i for the next callback when no transfer is free      *)
(* (submitter CALLBACK).                                                   *)
(***************************************************************************)
EXTENDS SyncWorker

VARIABLES
    submitter,      \* of buffer_mgmt: "FN" or "CALLBACK"
    unsent          \* buffers filled and not yet given to USB, oldest first, history

txVars == <<submitter, unsent>>
vars == <<bufVars, apiVars, workerVars, streamVars, faults, late, txVars>>

Invalid == NumBuffers       \* BUFFER_MGMT_INVALID_INDEX
SetOf(seq) == {seq[k] : k \in DOMAIN seq}

TXTypeOK ==
    /\ SharedTypeOK
    /\ cons_i \in Buffers \cup {Invalid}
    /\ submitter \in {"FN", "CALLBACK"}
    /\ unsent \in Seq(Buffers) /\ Len(unsent) <= NumBuffers

TXInit ==
    /\ SharedInit
    /\ status = [b \in Buffers |-> "EMPTY"]
    /\ prod_i = 0 /\ cons_i = Invalid
    /\ submitter = "FN" /\ unsent = <<>>

\* Where a block waits.
Position(b) == CHOOSE k \in DOMAIN unsent : unsent[k] = b

\* The block in b is complete, and the block b held before is forgotten.
Filled(b) ==
    IF b \in SetOf(unsent)
    THEN SubSeq(unsent, 1, Position(b) - 1)
           \o SubSeq(unsent, Position(b) + 1, Len(unsent)) \o <<b>>
    ELSE Append(unsent, b)

\* USB takes the block in b; the blocks before it have missed their turn.
Handed(b) ==
    IF b \in SetOf(unsent) THEN SubSeq(unsent, Position(b) + 1, Len(unsent)) ELSE unsent

\* submit_transfer of the caller has taken a transfer and dropped the lock.
Held == apc = "submitting"

-----------------------------------------------------------------------------
(* The worker.                                                             *)

\* exec_idle_state on START: what was in flight when the last stream ended is
\* empty again. submitter and cons_i stay as they were.
Prepare ==
    /\ wpc = "prepare"
    /\ status' = [b \in Buffers |-> IF status[b] = "IN_FLIGHT" THEN "EMPTY" ELSE status[b]]
    /\ SignalBufReady
    /\ wstate' = "RUNNING" /\ wpc' = "run"
    /\ UNCHANGED <<prod_i, cons_i, partial_off, state, left, timed, err_code,
                   requests, streamVars, faults, late, txVars>>

\* lusb_stream asks tx_callback for its first buffers and gets none, or the
\* word to stop.
SetupTransfers ==
    /\ wpc = "setup"
    /\ streamState' = IF "STOP" \notin requests THEN streamState
                      ELSE IF inflight = <<>> THEN "DONE" ELSE "SHUTTING_DOWN"
    /\ wpc' = "events"
    /\ UNCHANGED <<bufVars, apiVars, wstate, err_code, requests, error_code,
                   inflight, cancelled, faults, late, txVars>>

\* tx_callback returns no buffer: the transfer stays free.
NoData ==
    /\ inflight' = Tail(inflight)
    /\ UNCHANGED <<streamState, error_code, cancelled, faults>>

\* tx_callback when sync_tx submits its buffers itself.
Sent ==
    /\ Completes /\ submitter = "FN"
    /\ status' = [status EXCEPT ![Head(inflight)] = "EMPTY"]
    /\ SignalBufReady
    /\ NoData
    /\ UNCHANGED <<prod_i, cons_i, partial_off, state, left, timed, workerVars,
                   late, txVars>>

\* A slip in tx_callback: the deferred buffer is submitted and stays FULL.
SentDeferredFull ==
    /\ Completes /\ submitter = "CALLBACK"
    /\ status[cons_i] = "FULL"
    /\ status' = [status EXCEPT ![Head(inflight)] = "EMPTY"]
    /\ SignalBufReady
    /\ Resubmit(cons_i, Held)
    /\ unsent' = Handed(cons_i)
    /\ cons_i' = NextBuffer(cons_i)
    /\ UNCHANGED <<prod_i, partial_off, state, left, timed, workerVars, late, submitter>>

\* tx_callback with a deferred buffer: it is submitted.
SentDeferred ==
    /\ Completes /\ submitter = "CALLBACK"
    /\ status[cons_i] = "FULL"
    /\ status' = [status EXCEPT ![Head(inflight)] = "EMPTY", ![cons_i] = "IN_FLIGHT"]
    /\ SignalBufReady
    /\ Resubmit(cons_i, Held)
    /\ unsent' = Handed(cons_i)
    /\ cons_i' = NextBuffer(cons_i)
    /\ UNCHANGED <<prod_i, partial_off, state, left, timed, workerVars, late, submitter>>

\* tx_callback without one: sync_tx is to submit again.
SentLast ==
    /\ Completes /\ submitter = "CALLBACK"
    /\ status' = [status EXCEPT ![Head(inflight)] = "EMPTY"]
    /\ status'[cons_i] # "FULL"
    /\ SignalBufReady
    /\ submitter' = "FN" /\ cons_i' = Invalid
    /\ NoData
    /\ UNCHANGED <<prod_i, partial_off, state, left, timed, workerVars, late, unsent>>

TXWorker ==
    \/ /\ WorkerControl \/ TransferEnds(Held) \/ CallbackStops(Held)
       /\ UNCHANGED txVars
    \/ Prepare \/ SetupTransfers \/ Sent \/ SentDeferred \/ SentLast

-----------------------------------------------------------------------------
(* The caller: the states of sync_tx.                                      *)

WaitForBuffer ==
    /\ apc = "run" /\ state = "WAIT_FOR_BUFFER"
    /\ \/ status[prod_i] = "EMPTY" /\ state' = "BUFFER_READY" /\ UNCHANGED apc
       \/ status[prod_i] # "EMPTY" /\ apc' = "waiting" /\ UNCHANGED state
    /\ UNCHANGED <<bufVars, left, timed, workerVars, streamVars, faults, late, txVars>>

\* Unlike sync_rx, sync_tx goes back to WAIT_FOR_BUFFER after a wait.
Woken ==
    /\ apc = "woken" /\ apc' = "run"
    /\ UNCHANGED <<bufVars, state, left, timed, workerVars, streamVars, faults, late, txVars>>

BufferReady ==
    /\ apc = "run" /\ state = "BUFFER_READY"
    /\ status' = [status EXCEPT ![prod_i] = "PARTIAL"]
    /\ partial_off' = 0 /\ state' = "USING_BUFFER"
    /\ UNCHANGED <<prod_i, cons_i, apc, left, timed, workerVars, streamVars,
                   faults, late, txVars>>

\* The end of advance_tx_buffer.
AdvanceTX ==
    /\ prod_i' = NextBuffer(prod_i)
    /\ state' = IF status'[NextBuffer(prod_i)] = "EMPTY" THEN "BUFFER_READY" ELSE "CHECK_WORKER"
    /\ IF left' = 0 THEN apc' = "none" /\ timed' = FALSE
                    ELSE apc' = "run" /\ UNCHANGED timed

\* USING_BUFFER: copy what the call still has and the buffer can still take.
Copy(n) ==
    /\ apc = "run" /\ state = "USING_BUFFER"
    /\ n <= left /\ n <= SamplesPerBuffer - partial_off
    /\ n \in {left, SamplesPerBuffer - partial_off}
    /\ partial_off' = partial_off + n /\ left' = left - n
    /\ UNCHANGED <<cons_i, workerVars, streamVars, faults, late, submitter>>

FillPartly ==
    \E n \in 0 .. SamplesPerBuffer :
        /\ Copy(n) /\ partial_off' < SamplesPerBuffer
        /\ apc' = "none" /\ timed' = FALSE
        /\ UNCHANGED <<status, prod_i, state, unsent>>

\* A slip in advance_tx_buffer: the caller submits whoever the submitter is.
FillUpAlways ==
    \E n \in 0 .. SamplesPerBuffer :
        /\ Copy(n) /\ partial_off' = SamplesPerBuffer
        /\ status' = [status EXCEPT ![prod_i] = "IN_FLIGHT"]
        /\ unsent' = IF n = 0 THEN unsent ELSE Filled(prod_i)
        /\ apc' = "submit"
        /\ UNCHANGED <<prod_i, state, timed>>

\* A full buffer, advance_tx_buffer: it is marked as in flight before anything
\* else. When the callback is the submitter that is all.
FillUp ==
    \E n \in 0 .. SamplesPerBuffer :
        /\ Copy(n) /\ partial_off' = SamplesPerBuffer
        /\ status' = [status EXCEPT ![prod_i] = "IN_FLIGHT"]
        /\ unsent' = IF n = 0 THEN unsent ELSE Filled(prod_i)    \* n = 0: a retry
        /\ \/ /\ submitter = "FN" /\ apc' = "submit"
              /\ UNCHANGED <<prod_i, state, timed>>
           \/ submitter = "CALLBACK" /\ AdvanceTX

\* A slip in lusb_submit_stream_buffer: one transfer too many is taken.
SubmitOneMore ==
    /\ apc = "submit" /\ streamState = "RUNNING"
    /\ apc' = IF Len(inflight) > NumXfers THEN "defer" ELSE "submitting"
    /\ UNCHANGED <<bufVars, state, left, timed, workerVars, streamVars, faults, late, txVars>>

\* async_submit_stream_buffer, non-blocking: a transfer is taken, or none is
\* free. The lock is dropped in both cases.
Submit ==
    /\ apc = "submit" /\ streamState = "RUNNING"
    /\ apc' = IF Len(inflight) = NumXfers THEN "defer" ELSE "submitting"
    /\ UNCHANGED <<bufVars, state, left, timed, workerVars, streamVars, faults, late, txVars>>

\* It waits for a stream that runs, but not for ever.
SubmitTimeout ==
    /\ apc = "submit" /\ streamState # "RUNNING"
    /\ apc' = "failed"
    /\ UNCHANGED <<bufVars, state, left, timed, workerVars, streamVars, faults, late, txVars>>

\* libusb_submit_transfer
HandOver ==
    /\ apc = "submitting"
    /\ \/ /\ inflight' = Append(inflight, prod_i) /\ apc' = "submitted"
          /\ unsent' = Handed(prod_i)
          /\ UNCHANGED faults
       \/ /\ faults < MaxFaults /\ faults' = faults + 1 /\ apc' = "failed"
          /\ UNCHANGED <<inflight, unsent>>
    /\ UNCHANGED <<bufVars, state, left, timed, workerVars, streamState, error_code,
                   cancelled, late, submitter>>

Submitted ==
    /\ apc = "submitted"
    /\ UNCHANGED <<status, left>> /\ AdvanceTX
    /\ UNCHANGED <<cons_i, partial_off, workerVars, streamVars, faults, late, txVars>>

\* WOULD_BLOCK: the buffer is left to the next callback.
Defer ==
    /\ apc = "defer"
    /\ status' = [status EXCEPT ![prod_i] = "FULL"]
    /\ submitter' = "CALLBACK" /\ cons_i' = prod_i
    /\ UNCHANGED left /\ AdvanceTX
    /\ UNCHANGED <<partial_off, workerVars, streamVars, faults, late, unsent>>

\* Another failure ends the call; the next one tries this buffer again.
SubmitFailed ==
    /\ apc = "failed"
    /\ status' = [status EXCEPT ![prod_i] = "FULL"]
    /\ Return
    /\ UNCHANGED <<prod_i, cons_i, partial_off, state, workerVars, streamVars,
                   faults, late, txVars>>

TXCaller ==
    \/ /\ \/ CheckWorker("START_WORKER") \/ StartWorker \/ WorkerStarted
          \/ StartTimeout \/ WaitTimeout
          \/ RequestStop("shutdown") \/ Deinit
       /\ UNCHANGED txVars
    \/ WaitForBuffer \/ Woken \/ BufferReady \/ FillPartly \/ FillUp
    \/ Submit \/ SubmitTimeout \/ HandOver \/ Submitted \/ Defer \/ SubmitFailed

-----------------------------------------------------------------------------
\* A slip in lusb_submit_stream_buffer: it always waits for transfers to end.
SubmitShutdownWaits ==
    /\ apc = "none" /\ apc' = "shutdown"
    /\ streamState' = "SHUTTING_DOWN"
    /\ UNCHANGED <<bufVars, state, left, timed, workerVars, error_code, inflight,
                   cancelled, faults, late, txVars>>

\* sync_deinit for TX begins with the submission of BLADERF_STREAM_SHUTDOWN.
SubmitShutdown ==
    /\ apc = "none" /\ apc' = "shutdown"
    /\ streamState' = IF inflight = <<>> THEN "DONE" ELSE "SHUTTING_DOWN"
    /\ UNCHANGED <<bufVars, state, left, timed, workerVars, error_code, inflight,
                   cancelled, faults, late, txVars>>

TXEnv ==
    \/ BeginCall /\ UNCHANGED txVars
    \/ SpuriousWake /\ UNCHANGED txVars
    \/ SubmitShutdown

Closed == apc = "closed" /\ UNCHANGED vars

TXNext == TXWorker \/ TXCaller \/ TXEnv \/ Closed

TXSpec == TXInit /\ [][TXNext]_vars

\* Both threads run, transfers end and time-outs expire. Nobody has to call or
\* to close, and no time-out has to fire on a worker that is only slow.
TXFairSpec == TXSpec /\ WF_vars(TXWorker) /\ WF_vars(TXCaller /\ UNCHANGED late)

-----------------------------------------------------------------------------
(* Properties.                                                             *)

\* What USB may still read is IN_FLIGHT (the assertion of tx_callback), is
\* submitted once and is not the buffer the caller fills; with the transfer
\* the caller has taken there are never more than NumXfers; and a submitting
\* callback knows where to start.
TXOwned ==
    /\ \A b \in InFlight : status[b] = "IN_FLIGHT"
    /\ \A j, k \in DOMAIN inflight : inflight[j] = inflight[k] => j = k
    /\ state = "USING_BUFFER" /\ apc # "submitted" => prod_i \notin InFlight
    /\ Len(inflight) + (IF Held THEN 1 ELSE 0) <= NumXfers
    /\ submitter = "CALLBACK" => cons_i # Invalid
TXOwnership == late = 0 => TXOwned

\* Whoever submits, the caller or the callback, through deferrals, retries and
\* restarts, USB gets the blocks in the order they were written and none twice.
TXInOrder == [][\A b \in {inflight'[k] : k \in DOMAIN inflight'} \ InFlight :
                    b \in SetOf(unsent)]_vars

\* sync_deinit comes back if the stream was past its start when SHUTDOWN was
\* submitted. Before that async_run_stream would mark it as running again.
TXCloses ==
    (apc = "shutdown" /\ streamState # "RUNNING" /\ wpc # "run" /\ late = 0)
        ~> (apc = "closed" \/ late > 0)

\* IN_FLIGHT says that the buffer is being transferred: while the stream runs
\* it is with USB, or the caller is about to give it to USB.
InFlightIsTransferred ==
    wpc = "events" /\ streamState = "RUNNING" =>
        \A b \in Buffers : status[b] = "IN_FLIGHT" =>
            b \in InFlight \/ (b = prod_i /\ apc \in {"submit", "submitting", "submitted", "defer", "failed"})

\* A caller that waits without a time-out is told of the error the stream
\* ended with: exec_running_state wakes it for that.
TXErrorReported ==
    (err_code = "ERR" /\ apc \in InCall) ~> (err_code = "OK" \/ apc = "none")
===============================================================================
