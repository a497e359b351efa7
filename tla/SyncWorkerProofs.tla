--------------------------- MODULE SyncWorkerProofs ---------------------------
(***************************************************************************)
(* Facts about the steps that sync_rx and sync_tx share, for every number  *)
(* of buffers and transfers, used by SyncRXProofs and SyncTXProofs.        *)
(***************************************************************************)
EXTENDS SyncWorker, SequenceTheorems, TLAPS

\* The ring closes: the buffer after a buffer is a buffer.
LEMMA NextBufferType ==
  ASSUME NEW i \in Buffers
  PROVE  NextBuffer(i) \in Buffers
BY SyncAssumption DEF NextBuffer, Buffers

\* A transfer that comes back leaves a shorter sequence of buffers.
LEMMA TailType ==
  ASSUME SharedTypeOK, inflight # <<>>
  PROVE  /\ Head(inflight) \in Buffers
         /\ Tail(inflight) \in Seq(Buffers)
         /\ Len(Tail(inflight)) < NumXfers /\ Len(Tail(inflight)) <= NumXfers
         /\ Len(inflight) \in Nat /\ Len(Tail(inflight)) = Len(inflight) - 1
BY HeadTailProperties, LenProperties, EmptySeq, SyncAssumption DEF SharedTypeOK

\* What a sequence of buffers holds are buffers.
LEMMA ElementsType ==
  ASSUME NEW seq \in Seq(Buffers)
  PROVE  {seq[k] : k \in DOMAIN seq} \subseteq Buffers
BY LenProperties, ElementOfSeq

\* Shutting down keeps the stream's types.
LEMMA ShutDownTypes ==
  ASSUME NEW rest \in Seq(Buffers), Len(rest) <= NumXfers, NEW held, ShutDown(rest, held)
  PROVE  /\ inflight' \in Seq(Buffers) /\ Len(inflight') <= NumXfers
         /\ cancelled' \subseteq Buffers
         /\ streamState' \in {"SHUTTING_DOWN", "DONE"}
BY ElementsType DEF ShutDown

\* Resubmission takes the transfer that came back.
LEMMA ResubmitTypes ==
  ASSUME SharedTypeOK, inflight # <<>>, NEW next \in Buffers, NEW held,
         Resubmit(next, held)
  PROVE  /\ inflight' \in Seq(Buffers) /\ Len(inflight') <= NumXfers
         /\ cancelled' \subseteq Buffers
         /\ streamState' \in {"IDLE", "RUNNING", "SHUTTING_DOWN", "DONE"}
         /\ error_code' \in {"OK", "ERR"}
         /\ faults' \in 0 .. MaxFaults
<1>1. CASE /\ inflight' = Append(Tail(inflight), next)
           /\ cancelled' = cancelled \ {Head(inflight)}
           /\ UNCHANGED <<streamState, error_code, faults>>
  BY <1>1, TailType, AppendProperties DEF SharedTypeOK
<1>2. CASE /\ faults < MaxFaults /\ faults' = faults + 1
           /\ ShutDown(Tail(inflight), held) /\ UNCHANGED error_code
  <2>1. /\ inflight' \in Seq(Buffers) /\ Len(inflight') <= NumXfers
        /\ cancelled' \subseteq Buffers
        /\ streamState' \in {"SHUTTING_DOWN", "DONE"}
    <3>1. Tail(inflight) \in Seq(Buffers) /\ Len(Tail(inflight)) <= NumXfers
      BY TailType
    <3> QED BY <3>1, <1>2, ShutDownTypes
  <2>2. error_code' \in {"OK", "ERR"} /\ faults' \in 0 .. MaxFaults
    BY <1>2, SyncAssumption DEF SharedTypeOK
  <2> QED BY <2>1, <2>2
<1> QED BY <1>1, <1>2 DEF Resubmit

\* The worker between two streams.
LEMMA WorkerControlTypes ==
  ASSUME SharedTypeOK, WorkerControl
  PROVE  SharedTypeOK'
<1>1. CASE ExecIdle
  BY <1>1 DEF ExecIdle, SharedTypeOK, bufVars, apiVars, streamVars, WorkerPoints
<1>2. CASE ExecShutdown
  BY <1>2 DEF ExecShutdown, SharedTypeOK, bufVars, apiVars, streamVars, WorkerPoints
<1>3. CASE RunStream
  BY <1>3 DEF RunStream, SharedTypeOK, bufVars, apiVars, WorkerPoints
<1>4. CASE StreamEnds
  BY <1>4 DEF StreamEnds, SharedTypeOK, bufVars, apiVars, streamVars, WorkerPoints
<1>5. CASE SaveResult
  BY <1>5 DEF SaveResult, SharedTypeOK, bufVars, apiVars, streamVars, WorkerPoints
<1>6. CASE WakeCaller
  BY <1>6 DEF WakeCaller, SignalBufReady, SharedTypeOK, bufVars, streamVars,
              WorkerPoints, ApiPoints, InCall
<1>7. CASE ReturnToIdle
  BY <1>7 DEF ReturnToIdle, SharedTypeOK, bufVars, apiVars, streamVars, WorkerPoints
<1> QED BY <1>1, <1>2, <1>3, <1>4, <1>5, <1>6, <1>7 DEF WorkerControl

\* A transfer that ends without a call of rx_callback or tx_callback, or with
\* one that stops the stream.
LEMMA TransferTypes ==
  ASSUME SharedTypeOK, NEW held, TransferEnds(held) \/ CallbackStops(held)
  PROVE  SharedTypeOK'
<1>1. inflight # <<>> /\ ShutDown(Tail(inflight), held)
  BY DEF TransferEnds, CallbackStops
<1>2. /\ inflight' \in Seq(Buffers) /\ Len(inflight') <= NumXfers
      /\ cancelled' \subseteq Buffers
      /\ streamState' \in {"SHUTTING_DOWN", "DONE"}
  <2>1. Tail(inflight) \in Seq(Buffers) /\ Len(Tail(inflight)) <= NumXfers
    BY <1>1, TailType
  <2> QED BY <2>1, <1>1, ShutDownTypes
<1>3. error_code' \in {"OK", "ERR"} /\ faults' \in 0 .. MaxFaults
  BY SyncAssumption DEF TransferEnds, CallbackStops, SharedTypeOK
<1>4. UNCHANGED <<bufVars, apiVars, workerVars, late>>
  BY DEF TransferEnds, CallbackStops
<1> QED BY <1>2, <1>3, <1>4 DEF SharedTypeOK, bufVars, apiVars, workerVars

\* The calling thread outside of the ring.
LEMMA CallerTypes ==
  ASSUME SharedTypeOK,
         \/ BeginCall \/ CheckWorker("RESET_BUF_MGMT") \/ CheckWorker("START_WORKER")
         \/ StartWorker \/ WorkerStarted \/ StartTimeout \/ WaitTimeout \/ SpuriousWake
         \/ RequestStop("none") \/ RequestStop("shutdown") \/ Deinit
  PROVE  SharedTypeOK'
<1> USE SyncAssumption
<1> USE DEF SharedTypeOK, bufVars, workerVars, streamVars, States, ApiPoints, InCall, InDeinit
<1>1. CASE BeginCall
  BY <1>1 DEF BeginCall
<1>2. ASSUME NEW whenIdle \in {"RESET_BUF_MGMT", "START_WORKER"}, CheckWorker(whenIdle)
      PROVE  SharedTypeOK'
  <2>1. CASE err_code = "ERR" /\ Return /\ UNCHANGED state
    BY <1>2, <2>1 DEF CheckWorker, Return
  <2>2. CASE UNCHANGED <<apc, left, timed>>
    BY <1>2, <2>2 DEF CheckWorker
  <2> QED BY <1>2, <2>1, <2>2 DEF CheckWorker
<1>3. CASE StartWorker
  BY <1>3 DEF StartWorker
<1>4. CASE WorkerStarted
  BY <1>4 DEF WorkerStarted
<1>5. CASE StartTimeout
  <2>1. late' \in 0 .. MaxLate
    BY <1>5 DEF StartTimeout
  <2>2. apc' \in ApiPoints /\ left' \in Nat /\ timed' \in BOOLEAN
    BY <1>5 DEF StartTimeout, Return
  <2>3. UNCHANGED <<bufVars, state, workerVars, streamVars, faults>>
    BY <1>5 DEF StartTimeout
  <2> QED BY <2>1, <2>2, <2>3
<1>6. CASE WaitTimeout
  BY <1>6 DEF WaitTimeout, Return
<1>7. CASE SpuriousWake
  BY <1>7 DEF SpuriousWake
<1>8. ASSUME NEW from, RequestStop(from)
      PROVE  SharedTypeOK'
  BY <1>8 DEF RequestStop
<1>9. CASE Deinit
  <2>1. CASE WorkerJoined
    BY <2>1 DEF WorkerJoined
  <2>2. CASE CancelWorker
    BY <2>2 DEF CancelWorker, WorkerPoints
  <2>3. CASE FreeStream
    BY <2>3 DEF FreeStream
  <2> QED BY <1>9, <2>1, <2>2, <2>3 DEF Deinit
<1> QED BY <1>1, <1>2, <1>3, <1>4, <1>5, <1>6, <1>7, <1>8, <1>9

\* sync_init and sync_worker_init set up well-typed state around the ring.
LEMMA SharedInitTypes ==
  ASSUME SharedInit, status \in [Buffers -> Status], prod_i \in Buffers
  PROVE  SharedTypeOK
<1> USE SyncAssumption
<1>1. inflight \in Seq(Buffers) /\ Len(inflight) <= NumXfers
  BY EmptySeq DEF SharedInit
<1>2. /\ partial_off \in 0 .. SamplesPerBuffer
      /\ faults \in 0 .. MaxFaults /\ late \in 0 .. MaxLate
  BY DEF SharedInit
<1>3. /\ state \in States /\ apc \in ApiPoints /\ left \in Nat /\ timed \in BOOLEAN
      /\ wpc \in WorkerPoints
      /\ wstate \in {"IDLE", "RUNNING", "SHUTTING_DOWN", "STOPPED"}
      /\ err_code \in {"OK", "ERR"} /\ error_code \in {"OK", "ERR"}
      /\ requests \subseteq {"START", "STOP"}
      /\ streamState \in {"IDLE", "RUNNING", "SHUTTING_DOWN", "DONE"}
      /\ cancelled \subseteq Buffers
  BY DEF SharedInit, States, ApiPoints, WorkerPoints
<1> QED BY <1>1, <1>2, <1>3 DEF SharedTypeOK

-----------------------------------------------------------------------------
(* A stream's transfers.                                                   *)

Members(seq) == {seq[k] : k \in DOMAIN seq}
Once(seq) == \A j, k \in DOMAIN seq : seq[j] = seq[k] => j = k

\* A transfer that comes back is out of the sequence, the others stay.
LEMMA TailMembers ==
  ASSUME NEW seq \in Seq(Buffers), seq # <<>>
  PROVE  /\ Members(Tail(seq)) \subseteq Members(seq)
         /\ Head(seq) \in Members(seq)
         /\ Once(seq) => Once(Tail(seq)) /\ Head(seq) \notin Members(Tail(seq))
<1>1. /\ Len(seq) \in Nat /\ Len(seq) > 0 /\ DOMAIN seq = 1 .. Len(seq)
      /\ Head(seq) = seq[1]
  BY LenProperties, EmptySeq, HeadTailProperties
<1>2. /\ DOMAIN Tail(seq) = 1 .. Len(seq) - 1
      /\ \A k \in 1 .. Len(seq) - 1 : Tail(seq)[k] = seq[k + 1]
  BY HeadTailProperties, LenProperties
<1>3. \A k \in DOMAIN Tail(seq) : k + 1 \in DOMAIN seq /\ Tail(seq)[k] = seq[k + 1]
  BY <1>1, <1>2
<1>4. Members(Tail(seq)) \subseteq Members(seq)
  BY <1>3 DEF Members
<1>5. Head(seq) \in Members(seq)
  BY <1>1 DEF Members
<1>6. ASSUME Once(seq) PROVE Once(Tail(seq))
  BY <1>6, <1>1, <1>2, <1>3 DEF Once
<1>7. ASSUME Once(seq) PROVE Head(seq) \notin Members(Tail(seq))
  BY <1>7, <1>1, <1>2, <1>3 DEF Once, Members
<1> QED BY <1>4, <1>5, <1>6, <1>7

\* A transfer that is submitted joins the others.
LEMMA AppendMembers ==
  ASSUME NEW seq \in Seq(Buffers), NEW b \in Buffers
  PROVE  /\ Members(Append(seq, b)) = Members(seq) \cup {b}
         /\ Once(seq) /\ b \notin Members(seq) => Once(Append(seq, b))
<1>1. Len(seq) \in Nat /\ DOMAIN seq = 1 .. Len(seq)
  BY LenProperties
<1>2. /\ DOMAIN Append(seq, b) = 1 .. Len(seq) + 1
      /\ Append(seq, b)[Len(seq) + 1] = b
      /\ \A k \in 1 .. Len(seq) : Append(seq, b)[k] = seq[k]
  BY <1>1, AppendProperties, LenProperties
<1>3. Members(Append(seq, b)) = Members(seq) \cup {b}
  <2>1. Members(Append(seq, b)) \subseteq Members(seq) \cup {b}
    BY <1>1, <1>2 DEF Members
  <2>2. Members(seq) \cup {b} \subseteq Members(Append(seq, b))
    BY <1>1, <1>2 DEF Members
  <2> QED BY <2>1, <2>2
<1>4. ASSUME Once(seq), b \notin Members(seq) PROVE Once(Append(seq, b))
  BY <1>4, <1>1, <1>2 DEF Once, Members
<1> QED BY <1>3, <1>4

-----------------------------------------------------------------------------
(* The handshake between the caller and the worker.                        *)

\* Where the worker is, by what it says of itself.
WorkerHonest ==
    /\ wstate = "IDLE" <=> wpc \in {"idle", "prepare", "stop"}
    /\ wstate = "RUNNING" <=>
          wpc \in {"run", "setup", "events", "ended", "wake", "return", "cancelled"}

\* As long as no time-out fires on a slow worker: the caller asks for START
\* only when the worker is idle, waits until the answer is there, and does
\* not touch the ring meanwhile; it asks for STOP only when no call will
\* follow.
StartAnswered ==
    /\ WorkerHonest
    /\ "STOP" \in requests \/ wpc \in {"stop", "shutdown", "stopped"} =>
          apc \in {"stopping", "freeing", "closed"}
    /\ "START" \in requests => wpc = "idle" /\ apc = "starting"
    /\ wpc = "prepare" => apc = "starting"
    /\ apc = "starting" => state = "START_WORKER"
    /\ state \in {"RESET_BUF_MGMT", "START_WORKER"} /\ apc # "starting" =>
          wpc \in {"idle", "stop", "shutdown", "stopped"}

\* The worker's own steps keep the handshake.
LEMMA WorkerHandshake ==
  ASSUME SharedTypeOK, StartAnswered, NEW held,
         WorkerControl \/ TransferEnds(held) \/ CallbackStops(held)
  PROVE  StartAnswered'
<1> USE DEF StartAnswered, WorkerHonest
<1>1. CASE ExecIdle
  <2>1. "STOP" \in requests \/ "START" \in requests
    BY <1>1 DEF ExecIdle, SharedTypeOK
  <2> QED BY <1>1, <2>1 DEF ExecIdle, apiVars
<1>2. CASE ExecShutdown
  BY <1>2 DEF ExecShutdown, apiVars
<1>3. CASE RunStream
  BY <1>3 DEF RunStream, apiVars
<1>4. CASE StreamEnds
  BY <1>4 DEF StreamEnds, apiVars
<1>5. CASE SaveResult
  BY <1>5 DEF SaveResult, apiVars
<1>6. CASE WakeCaller
  BY <1>6 DEF WakeCaller, SignalBufReady
<1>7. CASE ReturnToIdle
  BY <1>7 DEF ReturnToIdle, apiVars
<1>8. CASE TransferEnds(held) \/ CallbackStops(held)
  BY <1>8 DEF TransferEnds, CallbackStops, apiVars, workerVars
<1> QED BY <1>1, <1>2, <1>3, <1>4, <1>5, <1>6, <1>7, <1>8 DEF WorkerControl

\* So do the caller's, unless a time-out fires on a slow worker.
LEMMA CallerHandshake ==
  ASSUME SharedTypeOK, StartAnswered, late' = late,
         \/ BeginCall \/ CheckWorker("RESET_BUF_MGMT") \/ CheckWorker("START_WORKER")
         \/ StartWorker \/ WorkerStarted \/ StartTimeout \/ WaitTimeout \/ SpuriousWake
         \/ RequestStop("none") \/ RequestStop("shutdown") \/ Deinit
  PROVE  StartAnswered'
<1> USE DEF StartAnswered, WorkerHonest, workerVars
<1>0. late + 1 # late
  BY DEF SharedTypeOK
<1>1. CASE BeginCall
  BY <1>1 DEF BeginCall
<1>2. ASSUME NEW whenIdle \in {"RESET_BUF_MGMT", "START_WORKER"}, CheckWorker(whenIdle)
      PROVE  StartAnswered'
  BY <1>2 DEF CheckWorker, Return
<1>3. CASE StartWorker
  BY <1>3 DEF StartWorker
<1>4. CASE WorkerStarted
  BY <1>4 DEF WorkerStarted
<1>5. CASE StartTimeout
  BY <1>0, <1>5 DEF StartTimeout, Return
<1>6. CASE WaitTimeout
  BY <1>6 DEF WaitTimeout, Return
<1>7. CASE SpuriousWake
  BY <1>7 DEF SpuriousWake
<1>8. ASSUME NEW from \in {"none", "shutdown"}, RequestStop(from)
      PROVE  StartAnswered'
  BY <1>8 DEF RequestStop
<1>9. CASE Deinit
  <2>1. CASE WorkerJoined
    BY <2>1 DEF WorkerJoined
  <2>2. CASE CancelWorker
    BY <1>0, <2>2 DEF CancelWorker, WorkerStuck
  <2>3. CASE FreeStream
    BY <2>3 DEF FreeStream
  <2> QED BY <1>9, <2>1, <2>2, <2>3 DEF Deinit
<1> QED BY <1>1, <1>2, <1>3, <1>4, <1>5, <1>6, <1>7, <1>8, <1>9
===============================================================================
