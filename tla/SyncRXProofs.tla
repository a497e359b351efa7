----------------------------- MODULE SyncRXProofs -----------------------------
(***************************************************************************)
(* Proofs about bladerf_sync_rx, for every size of the ring, every number  *)
(* of transfers below it, and any number of faults and overruns.           *)
(***************************************************************************)
EXTENDS SyncRX, SyncWorkerProofs, FiniteSetTheorems

-----------------------------------------------------------------------------
(* Types.                                                                  *)

\* lusb_stream submits at most NumXfers different buffers, all of them if no
\* submission fails.
LEMMA SetupStream ==
  ASSUME RXTypeOK, SetupTransfers
  PROVE  /\ inflight' \in Seq(Buffers) /\ Len(inflight') <= NumXfers
         /\ Once(inflight')
         /\ \A b \in Members(inflight') : b \in Buffers /\ InFirstTransfers(b)
         /\ cancelled' \subseteq Buffers
         /\ error_code' \in {"OK", "ERR"}
         /\ faults \in Nat /\ faults' \in 0 .. MaxFaults /\ faults <= faults'
         /\ faults' = 0 => Len(inflight') = NumXfers
<1> DEFINE First == 0 .. NumXfers - 1
<1> USE SyncAssumption
<1>1. PICK failed \in SUBSET First :
          /\ faults + Cardinality(failed) <= MaxFaults
          /\ faults' = faults + Cardinality(failed)
          /\ error_code' = IF failed = {} THEN error_code ELSE "ERR"
          /\ inflight' \in InOrder(First \ failed)
          /\ cancelled' = {b \in First : b \notin failed /\ \E f \in failed : b < f}
  BY DEF SetupTransfers
<1>2. IsFiniteSet(First) /\ Cardinality(First) = NumXfers
  BY FS_Interval
<1>3. /\ IsFiniteSet(failed) /\ Cardinality(failed) \in Nat
      /\ Cardinality(failed) = 0 => failed = {}
  BY <1>2, FS_Subset, FS_CardinalityType, FS_EmptySet
<1> DEFINE S == First \ failed
<1>4. S \subseteq Buffers /\ \A b \in S : InFirstTransfers(b)
  BY DEF Buffers, InFirstTransfers
<1>5. Cardinality(S) \in Nat /\ Cardinality(S) <= NumXfers
  <2>1. S \in SUBSET First
    OBVIOUS
  <2> HIDE DEF S, First
  <2>2. IsFiniteSet(S) /\ Cardinality(S) <= Cardinality(First)
    BY <1>2, <2>1, FS_Subset
  <2> QED BY <1>2, <2>2, FS_CardinalityType
<1>6. /\ inflight' \in [1 .. Cardinality(S) -> S]
      /\ \A j, k \in 1 .. Cardinality(S) : j < k => inflight'[j] < inflight'[k]
  BY <1>1 DEF InOrder
<1>7. inflight' \in Seq(Buffers) /\ Len(inflight') = Cardinality(S)
  <2> HIDE DEF S
  <2> QED BY <1>4, <1>5, <1>6
<1>8. Once(inflight')
  <2>1. \A k \in 1 .. Cardinality(S) : inflight'[k] \in Int
    <3>1. S \subseteq Int
      OBVIOUS
    <3> HIDE DEF S
    <3> QED BY <1>6, <3>1
  <2>2. DOMAIN inflight' = 1 .. Cardinality(S)
    BY <1>6
  <2> HIDE DEF S
  <2> QED BY <1>5, <1>6, <2>1, <2>2 DEF Once
<1>9. \A b \in Members(inflight') : b \in Buffers /\ InFirstTransfers(b)
  <2> HIDE DEF S
  <2> QED BY <1>4, <1>6 DEF Members
<1>10. faults' = 0 => Len(inflight') = NumXfers
  <2> SUFFICES ASSUME faults' = 0 PROVE Len(inflight') = NumXfers
    OBVIOUS
  <2>1. failed = {}
    BY <1>1, <1>3 DEF RXTypeOK, SharedTypeOK
  <2>2. S = First
    BY <2>1
  <2> QED BY <1>2, <1>7, <2>2
<1>11. /\ cancelled' \subseteq Buffers /\ error_code' \in {"OK", "ERR"}
       /\ faults \in Nat /\ faults' \in 0 .. MaxFaults /\ faults <= faults'
  BY <1>1, <1>3 DEF RXTypeOK, SharedTypeOK, Buffers
<1> QED BY <1>5, <1>7, <1>8, <1>9, <1>10, <1>11

\* The steps of the worker that sync_rx does not share with sync_tx.
LEMMA RXWorkerTypes ==
  ASSUME RXTypeOK, Prepare \/ SetupTransfers \/ Store \/ Overrun \/ OverrunGoesOn
  PROVE  RXTypeOK'
<1> USE SyncAssumption
<1>0. SharedTypeOK /\ NumXfers \in Buffers
  BY DEF RXTypeOK, Buffers
<1>1. CASE Prepare
  <2>1. status' \in [Buffers -> Status]
    BY <1>1 DEF Prepare, PrepareStatus, RXTypeOK, SharedTypeOK, Status
  <2> QED BY <1>0, <1>1, <2>1 DEF Prepare, RXTypeOK, SharedTypeOK, apiVars, streamVars,
             rxVars, WorkerPoints
<1>2. CASE SetupTransfers
  BY <1>2, SetupStream DEF SetupTransfers, RXTypeOK, SharedTypeOK, bufVars, apiVars,
     rxVars, WorkerPoints
<1>3. ASSUME Completes, NEW next \in Buffers, Resubmit(next, FALSE)
      PROVE  /\ inflight' \in Seq(Buffers) /\ Len(inflight') <= NumXfers
             /\ cancelled' \subseteq Buffers
             /\ streamState' \in {"IDLE", "RUNNING", "SHUTTING_DOWN", "DONE"}
             /\ error_code' \in {"OK", "ERR"}
             /\ faults' \in 0 .. MaxFaults
             /\ Head(inflight) \in Buffers
  BY <1>0, <1>3, ResubmitTypes, TailType DEF Completes
<1>4. CASE Store
  <2>1. prod_i \in Buffers /\ NextBuffer(prod_i) \in Buffers
    BY NextBufferType DEF RXTypeOK, SharedTypeOK
  <2>2. /\ inflight' \in Seq(Buffers) /\ Len(inflight') <= NumXfers
        /\ cancelled' \subseteq Buffers
        /\ streamState' \in {"IDLE", "RUNNING", "SHUTTING_DOWN", "DONE"}
        /\ error_code' \in {"OK", "ERR"}
        /\ faults' \in 0 .. MaxFaults
        /\ Head(inflight) \in Buffers
    BY <1>3, <1>4, <2>1 DEF Store
  <2>3. status' \in [Buffers -> Status] /\ data' \in [Buffers -> 0 .. NoBlock]
    BY <1>4, <2>1, <2>2 DEF Store, RXTypeOK, SharedTypeOK, Status, NoBlock, Modulus
  <2>4. put' \in 0 .. Modulus - 1
    BY <1>4 DEF Store, RXTypeOK, Modulus
  <2>5. apc' \in ApiPoints
    BY <1>4 DEF Store, SignalBufReady, RXTypeOK, SharedTypeOK, ApiPoints, InCall
  <2> QED BY <1>4, <2>1, <2>2, <2>3, <2>4, <2>5 DEF Store, RXTypeOK, SharedTypeOK, workerVars
<1>5. CASE Overrun \/ OverrunGoesOn
  <2>1. Completes /\ Head(inflight) \in Buffers /\ Resubmit(Head(inflight), FALSE)
    BY <1>0, <1>5, TailType DEF Overrun, OverrunGoesOn, Completes
  <2>2. /\ inflight' \in Seq(Buffers) /\ Len(inflight') <= NumXfers
        /\ cancelled' \subseteq Buffers
        /\ streamState' \in {"IDLE", "RUNNING", "SHUTTING_DOWN", "DONE"}
        /\ error_code' \in {"OK", "ERR"}
        /\ faults' \in 0 .. MaxFaults
    BY <1>3, <2>1
  <2>3. resubmit_count' \in 0 .. NumXfers - 1
    <3>1. CASE Overrun
      BY <3>1 DEF Overrun, OverrunCount
    <3>2. CASE OverrunGoesOn
      BY <3>2 DEF OverrunGoesOn, RXTypeOK
    <3> QED BY <1>5, <3>1, <3>2
  <2>4. UNCHANGED <<bufVars, apiVars, workerVars, late, data, put>>
    BY <1>5 DEF Overrun, OverrunGoesOn
  <2> QED BY <2>2, <2>3, <2>4 DEF RXTypeOK, SharedTypeOK, bufVars, apiVars, workerVars
<1> QED BY <1>1, <1>2, <1>4, <1>5

\* The states of sync_rx.
LEMMA RXCallerTypes ==
  ASSUME RXTypeOK, ResetBufMgmt \/ WaitForBuffer \/ Woken \/ BufferReady \/ UsingBuffer
  PROVE  RXTypeOK'
<1> USE SyncAssumption DEF RXTypeOK, SharedTypeOK
<1>1. CASE ResetBufMgmt
  BY <1>1 DEF ResetBufMgmt, workerVars, streamVars, rxVars, States, Buffers
<1>2. CASE WaitForBuffer
  BY <1>2 DEF WaitForBuffer, bufVars, workerVars, streamVars, rxVars, States, ApiPoints, InCall
<1>3. CASE Woken
  BY <1>3 DEF Woken, bufVars, workerVars, streamVars, rxVars, States, ApiPoints, InCall
<1>4. CASE BufferReady
  BY <1>4 DEF BufferReady, workerVars, streamVars, rxVars, States, Status
<1>5. CASE UsingBuffer
  <2>1. PICK n \in {left, SamplesPerBuffer - partial_off} :
          /\ n <= left /\ n <= SamplesPerBuffer - partial_off
          /\ partial_off' = partial_off + n
          /\ IF left = n THEN Return ELSE left' = left - n /\ UNCHANGED <<apc, timed>>
    BY <1>5 DEF UsingBuffer
  <2>2. n \in Nat /\ partial_off' \in 0 .. SamplesPerBuffer
    BY <2>1
  <2>3. apc' \in ApiPoints /\ left' \in Nat /\ timed' \in BOOLEAN
    <3>1. CASE left = n
      <4>1. Return
        BY <2>1, <3>1
      <4> QED BY <4>1 DEF Return, ApiPoints
    <3>2. CASE left # n
      BY <2>1, <2>2, <3>2
    <3> QED BY <3>1, <3>2
  <2>4. /\ status' \in [Buffers -> Status] /\ data' \in [Buffers -> 0 .. NoBlock]
        /\ cons_i' \in Buffers /\ state' \in States
    BY <1>5, NextBufferType DEF UsingBuffer, AdvanceRX, Status, States, NoBlock
  <2> QED BY <1>5, <2>2, <2>3, <2>4 DEF UsingBuffer, workerVars, streamVars
<1> QED BY <1>1, <1>2, <1>3, <1>4, <1>5

\* Every step keeps the types.
LEMMA RXTypesPreserved ==
  ASSUME RXTypeOK, [RXNext]_vars
  PROVE  RXTypeOK'
<1>0. SharedTypeOK
  BY DEF RXTypeOK
<1>1. ASSUME SharedTypeOK', UNCHANGED <<cons_i, rxVars>>
      PROVE  RXTypeOK'
  BY <1>1 DEF RXTypeOK, rxVars
<1>2. CASE RXWorker
  <2>1. CASE /\ WorkerControl \/ TransferEnds(FALSE) \/ CallbackStops(FALSE)
             /\ UNCHANGED rxVars
    <3>1. SharedTypeOK'
      BY <1>0, <2>1, WorkerControlTypes, TransferTypes
    <3>2. cons_i' = cons_i
      BY <2>1 DEF WorkerControl, ExecIdle, ExecShutdown, RunStream, StreamEnds, SaveResult,
         WakeCaller, ReturnToIdle, TransferEnds, CallbackStops, bufVars
    <3> QED BY <1>1, <2>1, <3>1, <3>2
  <2> QED BY <1>2, <2>1, RXWorkerTypes DEF RXWorker
<1>3. CASE RXCaller \/ RXEnv
  <2>1. CASE /\ \/ CheckWorker("RESET_BUF_MGMT") \/ StartWorker \/ WorkerStarted
                \/ StartTimeout \/ WaitTimeout \/ Deinit \/ BeginCall
                \/ RequestStop("none") \/ SpuriousWake
             /\ UNCHANGED rxVars
    <3>1. SharedTypeOK'
      BY <1>0, <2>1, CallerTypes
    <3>2. cons_i' = cons_i
      BY <2>1 DEF CheckWorker, StartWorker, WorkerStarted, StartTimeout, WaitTimeout, Deinit,
         WorkerJoined, CancelWorker, FreeStream, BeginCall, RequestStop, SpuriousWake, bufVars
    <3> QED BY <1>1, <2>1, <3>1, <3>2
  <2> QED BY <1>3, <2>1, RXCallerTypes DEF RXCaller, RXEnv
<1>4. CASE Closed \/ UNCHANGED vars
  BY <1>4 DEF Closed, vars, bufVars, apiVars, workerVars, streamVars, rxVars, RXTypeOK,
     SharedTypeOK
<1> QED BY <1>2, <1>3, <1>4 DEF RXNext

\* sync_init sets up a well-typed ring.
LEMMA RXTypesInit ==
  ASSUME RXInit
  PROVE  RXTypeOK
<1> USE SyncAssumption
<1>1. /\ status \in [Buffers -> Status] /\ prod_i \in Buffers /\ cons_i \in Buffers
      /\ resubmit_count \in 0 .. NumXfers - 1
      /\ data \in [Buffers -> 0 .. NoBlock] /\ put \in 0 .. Modulus - 1
  BY DEF RXInit, Buffers, Status, NoBlock, Modulus
<1>2. SharedInit
  BY DEF RXInit
<1> QED BY <1>1, <1>2, SharedInitTypes DEF RXTypeOK

\* Type correctness of bladerf_sync_rx: in particular no more than NumXfers
\* transfers are ever out, partial_off stays within a buffer and
\* resubmit_count below NumXfers, through overruns, faults and restarts.
THEOREM RXTypeCorrect == RXSpec => []RXTypeOK
<1>1. RXInit => RXTypeOK
  BY RXTypesInit
<1>2. RXTypeOK /\ [RXNext]_vars => RXTypeOK'
  BY RXTypesPreserved
<1> QED BY <1>1, <1>2, PTL DEF RXSpec

-----------------------------------------------------------------------------
(* Ownership.                                                              *)

\* A transfer is out only while the worker is in the event loop, and a stream
\* is done only when none is.
StreamShape ==
    /\ streamState = "DONE" => inflight = <<>>
    /\ inflight # <<>> => wpc = "events"
    /\ wpc = "setup" => streamState = "RUNNING"

\* From exec_idle_state until lusb_stream submits them, nobody takes one of
\* the first buffers.
FirstInFlight ==
    wpc \in {"run", "setup"} =>
        \A b \in Buffers : InFirstTransfers(b) => status[b] = "IN_FLIGHT"

\* Between WAIT_FOR_BUFFER and BUFFER_READY the lock is dropped; the buffer
\* stays full.
ReadyIsFull == state = "BUFFER_READY" => status[cons_i] = "FULL"

Safe == StartAnswered /\ StreamShape /\ FirstInFlight /\ ReadyIsFull /\ BuffersOwned

\* The second part of RXOwnership.
NoneMissing ==
    faults = 0 /\ wpc = "events" /\ streamState = "RUNNING" => Len(inflight) = NumXfers

RXInv ==
    /\ RXTypeOK
    /\ late = 0 => Safe
    /\ NoneMissing

\* The counter of late answers never goes back.
LEMMA LateGrows ==
  ASSUME RXTypeOK, [RXNext]_vars, late' = 0
  PROVE  late = 0
<1>1. late \in Nat
  BY SyncAssumption DEF RXTypeOK, SharedTypeOK
<1>2. late' = late \/ late' = late + 1
  <2>1. CASE RXWorker
    BY <2>1 DEF RXWorker, WorkerControl, ExecIdle, ExecShutdown, RunStream, StreamEnds,
       SaveResult, WakeCaller, ReturnToIdle, TransferEnds, CallbackStops, Prepare,
       SetupTransfers, Store, Overrun, OverrunGoesOn
  <2>2. CASE RXCaller
    BY <2>2 DEF RXCaller, CheckWorker, StartWorker, WorkerStarted, StartTimeout, WaitTimeout,
       Deinit, WorkerJoined, CancelWorker, FreeStream, ResetBufMgmt, WaitForBuffer, Woken,
       BufferReady, UsingBuffer
  <2>3. CASE RXEnv \/ Closed \/ UNCHANGED vars
    BY <2>3 DEF RXEnv, BeginCall, RequestStop, SpuriousWake, Closed, vars
  <2> QED BY <2>1, <2>2, <2>3 DEF RXNext
<1> QED BY <1>1, <1>2

\* A step that leaves the ring and the transfers alone keeps them safe.
LEMMA SafeFrame ==
  ASSUME Safe, StartAnswered', UNCHANGED <<status, cons_i, inflight>>,
         state' \in {state, "CHECK_WORKER", "WAIT_FOR_BUFFER", "RESET_BUF_MGMT", "START_WORKER"},
         streamState' \in {streamState, "RUNNING"},
         \/ wpc' = wpc
         \/ wpc' = "cancelled" /\ inflight = <<>>
         \/ wpc' \notin {"run", "setup"} /\ (wpc = "events" => streamState = "DONE")
         \/ wpc' = "setup" /\ wpc = "run" /\ streamState' = "RUNNING"
  PROVE  Safe'
<1>1. StreamShape'
  BY DEF Safe, StreamShape
<1>2. FirstInFlight'
  BY DEF Safe, FirstInFlight
<1>3. ReadyIsFull'
  BY DEF Safe, ReadyIsFull
<1>4. BuffersOwned'
  BY DEF Safe, BuffersOwned, InFlight
<1> QED BY <1>1, <1>2, <1>3, <1>4 DEF Safe

\* The worker between its streams, and a transfer that ends one.
LEMMA SafeWorkerControl ==
  ASSUME RXTypeOK, Safe, WorkerControl
  PROVE  Safe'
<1>1. StartAnswered'
  BY WorkerHandshake DEF Safe, RXTypeOK
<1>2. UNCHANGED <<status, cons_i, inflight, state>>
  BY DEF WorkerControl, ExecIdle, ExecShutdown, RunStream, StreamEnds, SaveResult,
     WakeCaller, ReturnToIdle, bufVars, apiVars, streamVars
<1>3. streamState' \in {streamState, "RUNNING"}
  BY DEF WorkerControl, ExecIdle, ExecShutdown, RunStream, StreamEnds, SaveResult,
     WakeCaller, ReturnToIdle, streamVars
<1>4. \/ wpc' \notin {"run", "setup"} /\ (wpc = "events" => streamState = "DONE")
      \/ wpc' = "setup" /\ wpc = "run" /\ streamState' = "RUNNING"
  BY DEF WorkerControl, ExecIdle, ExecShutdown, RunStream, StreamEnds, SaveResult,
     WakeCaller, ReturnToIdle
<1> QED BY <1>1, <1>2, <1>3, <1>4, SafeFrame

\* A stream that shuts down only gives transfers back.
LEMMA SafeTransferEnds ==
  ASSUME RXTypeOK, Safe, TransferEnds(FALSE) \/ CallbackStops(FALSE)
  PROVE  Safe'
<1>0. SharedTypeOK /\ inflight \in Seq(Buffers)
  BY DEF RXTypeOK, SharedTypeOK
<1>1. StartAnswered'
  BY <1>0, WorkerHandshake DEF Safe
<1>2. /\ inflight # <<>> /\ inflight' = Tail(inflight) /\ wpc' = "events"
      /\ streamState' = "DONE" => inflight' = <<>>
      /\ UNCHANGED <<status, cons_i, state>>
  BY DEF TransferEnds, CallbackStops, ShutDown, bufVars, apiVars, workerVars
<1>3. Members(inflight') \subseteq Members(inflight) /\ (Once(inflight) => Once(inflight'))
  BY <1>0, <1>2, TailMembers
<1>4. BuffersOwned'
  BY <1>2, <1>3 DEF Safe, BuffersOwned, InFlight, Members, Once
<1> QED BY <1>1, <1>2, <1>4 DEF Safe, StreamShape, FirstInFlight, ReadyIsFull

\* exec_idle_state prepares the ring while the caller waits for its answer.
LEMMA SafePrepare ==
  ASSUME RXTypeOK, Safe, Prepare
  PROVE  Safe'
<1>1. StartAnswered'
  BY DEF Safe, StartAnswered, WorkerHonest, Prepare, apiVars
<1>2. inflight' = <<>> /\ streamState' = streamState /\ wpc' = "run"
  BY DEF Safe, StreamShape, Prepare, streamVars
<1>3. state' = "START_WORKER"
  BY DEF Safe, StartAnswered, Prepare, apiVars
<1>4. StreamShape'
  BY <1>2 DEF StreamShape
<1>5. FirstInFlight'
  BY DEF Prepare, PrepareStatus, FirstInFlight, InFirstTransfers
<1>6. BuffersOwned'
  BY <1>2, <1>3 DEF BuffersOwned, InFlight
<1>7. ReadyIsFull'
  BY <1>3 DEF ReadyIsFull
<1> QED BY <1>1, <1>4, <1>5, <1>6, <1>7 DEF Safe

\* lusb_stream submits the first buffers.
LEMMA SafeSetup ==
  ASSUME RXTypeOK, Safe, SetupTransfers
  PROVE  Safe'
<1>1. StartAnswered'
  BY DEF Safe, StartAnswered, WorkerHonest, SetupTransfers, apiVars
<1>2. /\ wpc = "setup" /\ wpc' = "events"
      /\ UNCHANGED <<status, cons_i, state, streamState>>
  BY DEF SetupTransfers, bufVars, apiVars
<1>3. /\ Once(inflight')
      /\ \A b \in Members(inflight') : b \in Buffers /\ InFirstTransfers(b)
  BY SetupStream
<1>4. BuffersOwned'
  BY <1>2, <1>3 DEF Safe, FirstInFlight, BuffersOwned, InFlight, Members, Once
<1>5. streamState # "DONE"
  BY <1>2 DEF Safe, StreamShape
<1> QED BY <1>1, <1>2, <1>4, <1>5 DEF Safe, StreamShape, FirstInFlight, ReadyIsFull

\* What rx_callback's resubmission does to the transfers: next joins those
\* that stay out, or the stream shuts down.
LEMMA ResubmitMembers ==
  ASSUME RXTypeOK, Completes, NEW next \in Buffers, Resubmit(next, FALSE)
  PROVE  /\ inflight # <<>> /\ Head(inflight) \in Members(inflight)
         /\ Members(inflight') \subseteq Members(Tail(inflight)) \cup {next}
         /\ Members(Tail(inflight)) \subseteq Members(inflight)
         /\ Once(inflight) => Head(inflight) \notin Members(Tail(inflight))
         /\ Once(inflight) /\ next \notin Members(Tail(inflight)) => Once(inflight')
         /\ streamState' = "DONE" => inflight' = <<>>
<1>1. /\ inflight # <<>> /\ inflight \in Seq(Buffers) /\ Tail(inflight) \in Seq(Buffers)
      /\ streamState = "RUNNING"
  BY TailType DEF RXTypeOK, SharedTypeOK, Completes
<1>2. /\ Members(Tail(inflight)) \subseteq Members(inflight)
      /\ Head(inflight) \in Members(inflight)
      /\ Once(inflight) =>
            Once(Tail(inflight)) /\ Head(inflight) \notin Members(Tail(inflight))
  BY <1>1, TailMembers
<1>3. CASE inflight' = Append(Tail(inflight), next) /\ UNCHANGED streamState
  <2>1. /\ Members(inflight') = Members(Tail(inflight)) \cup {next}
        /\ Once(Tail(inflight)) /\ next \notin Members(Tail(inflight)) => Once(inflight')
    BY <1>1, <1>3, AppendMembers
  <2> QED BY <1>1, <1>2, <1>3, <2>1
<1>4. CASE ShutDown(Tail(inflight), FALSE)
  <2>1. inflight' = Tail(inflight) /\ (streamState' = "DONE" => inflight' = <<>>)
    BY <1>4 DEF ShutDown
  <2> QED BY <1>1, <1>2, <2>1
<1> QED BY <1>3, <1>4 DEF Resubmit

\* rx_callback hands a buffer to the caller and submits an empty one.
LEMMA SafeStore ==
  ASSUME RXTypeOK, Safe, Store
  PROVE  Safe'
<1>0. /\ prod_i \in Buffers /\ cons_i \in Buffers /\ status \in [Buffers -> Status]
      /\ inflight \in Seq(Buffers)
  BY DEF RXTypeOK, SharedTypeOK
<1>1. StartAnswered'
  BY DEF Safe, StartAnswered, WorkerHonest, Store, SignalBufReady, workerVars
<1>2. /\ Completes /\ status[prod_i] = "EMPTY" /\ Resubmit(prod_i, FALSE)
      /\ status' = [status EXCEPT ![Head(inflight)] = "FULL", ![prod_i] = "IN_FLIGHT"]
      /\ UNCHANGED <<cons_i, state, wpc>> /\ wpc = "events"
  BY DEF Store, Completes, workerVars
<1>3. /\ \A b \in Members(inflight) : status[b] = "IN_FLIGHT" /\ b \in Buffers
      /\ Once(inflight)
  BY <1>0, ElementsType DEF Safe, BuffersOwned, InFlight, Members, Once
<1>4. /\ Head(inflight) \in Members(inflight)
      /\ Members(inflight') \subseteq Members(Tail(inflight)) \cup {prod_i}
      /\ Members(Tail(inflight)) \subseteq Members(inflight)
      /\ Head(inflight) \notin Members(Tail(inflight))
      /\ prod_i \notin Members(inflight)
      /\ Once(inflight')
      /\ streamState' = "DONE" => inflight' = <<>>
  BY <1>0, <1>2, <1>3, ResubmitMembers
<1>5. \A b \in Members(inflight') : status'[b] = "IN_FLIGHT"
  BY <1>0, <1>2, <1>3, <1>4
<1>6. status'[cons_i] = status[cons_i] \/ status[cons_i] \in {"EMPTY", "IN_FLIGHT"}
  BY <1>0, <1>2, <1>3, <1>4
<1>7. BuffersOwned'
  BY <1>2, <1>4, <1>5, <1>6 DEF Safe, BuffersOwned, InFlight, Members, Once
<1> QED BY <1>1, <1>2, <1>4, <1>6, <1>7 DEF Safe, StreamShape, FirstInFlight, ReadyIsFull

\* In an overrun the transfer goes out again with its own buffer.
LEMMA SafeOverrun ==
  ASSUME RXTypeOK, Safe, Overrun \/ OverrunGoesOn
  PROVE  Safe'
<1>0. inflight \in Seq(Buffers)
  BY DEF RXTypeOK, SharedTypeOK
<1>1. StartAnswered'
  BY DEF Safe, StartAnswered, WorkerHonest, Overrun, OverrunGoesOn, apiVars, workerVars
<1>2. /\ Completes /\ Resubmit(Head(inflight), FALSE)
      /\ UNCHANGED <<status, cons_i, state, wpc>> /\ wpc = "events"
  BY DEF Overrun, OverrunGoesOn, Completes, bufVars, apiVars, workerVars
<1>3. /\ \A b \in Members(inflight) : status[b] = "IN_FLIGHT" /\ b \in Buffers
      /\ Once(inflight)
  BY <1>0, ElementsType DEF Safe, BuffersOwned, InFlight, Members, Once
<1>4. Head(inflight) \in Members(inflight)
  BY <1>0, <1>2, TailMembers DEF Completes
<1>5. /\ Members(inflight') \subseteq Members(inflight)
      /\ Once(inflight')
      /\ streamState' = "DONE" => inflight' = <<>>
  BY <1>2, <1>3, <1>4, ResubmitMembers
<1>6. BuffersOwned'
  BY <1>2, <1>3, <1>5 DEF Safe, BuffersOwned, InFlight, Members, Once
<1> QED BY <1>1, <1>2, <1>5, <1>6 DEF Safe, StreamShape, FirstInFlight, ReadyIsFull

\* The caller outside of the ring.
LEMMA SafeCaller ==
  ASSUME RXTypeOK, Safe, late' = late,
         \/ CheckWorker("RESET_BUF_MGMT") \/ StartWorker \/ WorkerStarted
         \/ StartTimeout \/ WaitTimeout \/ Deinit \/ BeginCall
         \/ RequestStop("none") \/ SpuriousWake
  PROVE  Safe'
<1>0. SharedTypeOK /\ late + 1 # late
  BY SyncAssumption DEF RXTypeOK, SharedTypeOK
<1>1. StartAnswered'
  BY <1>0, CallerHandshake DEF Safe
<1>2. UNCHANGED <<status, cons_i, inflight, streamState>>
  BY DEF CheckWorker, StartWorker, WorkerStarted, StartTimeout, WaitTimeout, Deinit,
     WorkerJoined, CancelWorker, FreeStream, BeginCall, RequestStop, SpuriousWake,
     bufVars, streamVars
<1>3. state' \in {state, "CHECK_WORKER", "WAIT_FOR_BUFFER", "RESET_BUF_MGMT", "START_WORKER"}
  BY DEF CheckWorker, StartWorker, WorkerStarted, StartTimeout, WaitTimeout, Deinit,
     WorkerJoined, CancelWorker, FreeStream, BeginCall, RequestStop, SpuriousWake
<1>4. wpc' = wpc \/ (wpc' = "cancelled" /\ inflight = <<>>)
  <2>1. CASE CancelWorker
    BY <1>0, <2>1 DEF CancelWorker, WorkerStuck
  <2>2. CASE \/ CheckWorker("RESET_BUF_MGMT") \/ StartWorker \/ WorkerStarted
             \/ StartTimeout \/ WaitTimeout \/ WorkerJoined \/ FreeStream \/ BeginCall
             \/ RequestStop("none") \/ SpuriousWake
    BY <2>2 DEF CheckWorker, StartWorker, WorkerStarted, StartTimeout, WaitTimeout,
       WorkerJoined, FreeStream, BeginCall, RequestStop, SpuriousWake, workerVars
  <2> QED BY <2>1, <2>2 DEF Deinit
<1> QED BY <1>1, <1>2, <1>3, <1>4, SafeFrame

\* The states of sync_rx.
LEMMA SafeReader ==
  ASSUME RXTypeOK, Safe,
         ResetBufMgmt \/ WaitForBuffer \/ Woken \/ BufferReady \/ UsingBuffer
  PROVE  Safe'
<1>0. /\ cons_i \in Buffers /\ status \in [Buffers -> Status]
      /\ \A b \in InFlight : b \in Buffers /\ status[b] = "IN_FLIGHT"
  BY ElementsType DEF RXTypeOK, SharedTypeOK, Safe, BuffersOwned, InFlight
<1>1. CASE ResetBufMgmt
  BY <1>1 DEF ResetBufMgmt, Safe, StartAnswered, WorkerHonest, StreamShape, FirstInFlight,
     ReadyIsFull, BuffersOwned, InFlight, workerVars, streamVars
<1>2. CASE WaitForBuffer
  BY <1>2 DEF WaitForBuffer, Safe, StartAnswered, WorkerHonest, StreamShape, FirstInFlight,
     ReadyIsFull, BuffersOwned, InFlight, bufVars, workerVars, streamVars
<1>3. CASE Woken
  BY <1>3 DEF Woken, Safe, StartAnswered, WorkerHonest, StreamShape, FirstInFlight,
     ReadyIsFull, BuffersOwned, InFlight, bufVars, workerVars, streamVars
<1>4. CASE BufferReady
  <2>1. status[cons_i] = "FULL" /\ cons_i \notin InFlight
    BY <1>0, <1>4 DEF BufferReady, Safe, ReadyIsFull
  <2>2. /\ \A b \in Buffers : b # cons_i => status'[b] = status[b]
        /\ status'[cons_i] = "PARTIAL"
    BY <1>0, <1>4 DEF BufferReady
  <2>3. StartAnswered' /\ StreamShape'
    BY <1>4 DEF BufferReady, Safe, StartAnswered, WorkerHonest, StreamShape,
       workerVars, streamVars
  <2>4. FirstInFlight'
    BY <1>0, <1>4, <2>1, <2>2 DEF BufferReady, Safe, FirstInFlight, InFirstTransfers, workerVars
  <2>5. BuffersOwned'
    BY <1>0, <1>4, <2>1, <2>2 DEF BufferReady, Safe, BuffersOwned, InFlight, streamVars
  <2> QED BY <1>4, <2>3, <2>4, <2>5 DEF BufferReady, Safe, ReadyIsFull
<1>5. CASE UsingBuffer
  <2>1. status[cons_i] = "PARTIAL" /\ cons_i \notin InFlight
    BY <1>0, <1>5 DEF UsingBuffer, Safe, BuffersOwned
  <2>2. /\ \A b \in Buffers : b # cons_i => status'[b] = status[b]
        /\ \/ state' = "WAIT_FOR_BUFFER"
           \/ state' = "USING_BUFFER" /\ UNCHANGED <<status, cons_i>>
    BY <1>0, <1>5 DEF UsingBuffer, AdvanceRX
  <2>3. apc = "run" /\ apc' \in {"run", "none"} /\ UNCHANGED <<workerVars, streamVars>>
    BY <1>5 DEF UsingBuffer, Return
  <2>4. StartAnswered' /\ StreamShape'
    BY <2>2, <2>3 DEF Safe, StartAnswered, WorkerHonest, StreamShape, workerVars, streamVars
  <2>5. FirstInFlight'
    BY <1>0, <2>1, <2>2, <2>3 DEF Safe, FirstInFlight, InFirstTransfers, workerVars
  <2>6. BuffersOwned'
    BY <1>0, <2>1, <2>2, <2>3 DEF Safe, BuffersOwned, InFlight, streamVars
  <2> QED BY <2>2, <2>4, <2>5, <2>6 DEF Safe, ReadyIsFull
<1> QED BY <1>1, <1>2, <1>3, <1>4, <1>5

-----------------------------------------------------------------------------
(* No transfer goes missing.                                               *)

\* A stream that runs in the event loop has all its transfers out, whatever
\* its callbacks do, unless one of them could not be submitted.
LEMMA NoneMissingPreserved ==
  ASSUME RXTypeOK, NoneMissing, [RXNext]_vars
  PROVE  NoneMissing'
<1>0. SharedTypeOK /\ faults \in Nat
  BY SyncAssumption DEF RXTypeOK, SharedTypeOK
<1>1. ASSUME UNCHANGED <<inflight, streamState, faults>>, wpc' = wpc \/ wpc' # "events"
      PROVE  NoneMissing'
  BY <1>1 DEF NoneMissing
<1>2. CASE WorkerControl
  <2>1. CASE RunStream
    BY <2>1 DEF RunStream, NoneMissing
  <2> QED BY <1>1, <1>2, <2>1 DEF WorkerControl, ExecIdle, ExecShutdown, StreamEnds,
             SaveResult, WakeCaller, ReturnToIdle, streamVars
<1>3. CASE TransferEnds(FALSE) \/ CallbackStops(FALSE)
  BY <1>3 DEF TransferEnds, CallbackStops, ShutDown, NoneMissing
<1>4. CASE SetupTransfers
  BY <1>4, SetupStream DEF NoneMissing
<1>5. CASE Store \/ Overrun \/ OverrunGoesOn
  <2>1. PICK next \in Buffers : Completes /\ Resubmit(next, FALSE) /\ wpc' = wpc
    BY <1>0, <1>5, TailType DEF Store, Overrun, OverrunGoesOn, Completes, SharedTypeOK,
       workerVars
  <2>2. CASE faults' = faults + 1
    BY <1>0, <2>2 DEF NoneMissing
  <2>3. CASE inflight' = Append(Tail(inflight), next) /\ UNCHANGED <<streamState, faults>>
    <3>1. Len(inflight') = Len(inflight)
      BY <1>0, <2>1, <2>3, TailType, AppendProperties DEF Completes
    <3> QED BY <2>1, <2>3, <3>1 DEF NoneMissing
  <2> QED BY <2>1, <2>2, <2>3 DEF Resubmit
<1>6. CASE Prepare
  BY <1>1, <1>6 DEF Prepare, streamVars
<1>7. CASE RXCaller
  <2>1. UNCHANGED <<inflight, streamState, faults>>
    BY <1>7 DEF RXCaller, CheckWorker, StartWorker, WorkerStarted, StartTimeout, WaitTimeout,
       Deinit, WorkerJoined, CancelWorker, FreeStream, ResetBufMgmt, WaitForBuffer, Woken,
       BufferReady, UsingBuffer, streamVars
  <2>2. wpc' = wpc \/ wpc' # "events"
    BY <1>7 DEF RXCaller, CheckWorker, StartWorker, WorkerStarted, StartTimeout, WaitTimeout,
       Deinit, WorkerJoined, CancelWorker, FreeStream, ResetBufMgmt, WaitForBuffer, Woken,
       BufferReady, UsingBuffer, workerVars
  <2> QED BY <1>1, <2>1, <2>2
<1>8. CASE RXEnv \/ Closed \/ UNCHANGED vars
  BY <1>1, <1>8 DEF RXEnv, BeginCall, RequestStop, SpuriousWake, Closed, vars, workerVars,
     streamVars
<1> QED BY <1>2, <1>3, <1>4, <1>5, <1>6, <1>7, <1>8 DEF RXNext, RXWorker

-----------------------------------------------------------------------------

\* sync_init sets up a safe ring.
LEMMA RXInvInit ==
  ASSUME RXInit
  PROVE  RXInv
<1>1. RXTypeOK
  BY RXTypesInit
<1>2. Safe
  BY DEF RXInit, SharedInit, Safe, StartAnswered, WorkerHonest, StreamShape, FirstInFlight,
     ReadyIsFull, BuffersOwned, InFlight
<1>3. NoneMissing
  BY DEF RXInit, SharedInit, NoneMissing
<1> QED BY <1>1, <1>2, <1>3 DEF RXInv

\* Every step keeps the invariant.
LEMMA RXInvPreserved ==
  ASSUME RXInv, [RXNext]_vars
  PROVE  RXInv'
<1>0. RXTypeOK
  BY DEF RXInv
<1>1. RXTypeOK' /\ NoneMissing'
  BY <1>0, RXTypesPreserved, NoneMissingPreserved DEF RXInv
<1>2. ASSUME late' = 0 PROVE Safe'
  <2>1. Safe /\ late' = late
    BY <1>0, <1>2, LateGrows DEF RXInv
  <2>2. CASE RXWorker
    BY <1>0, <2>1, <2>2, SafeWorkerControl, SafeTransferEnds, SafePrepare, SafeSetup,
       SafeStore, SafeOverrun DEF RXWorker
  <2>3. CASE RXCaller \/ RXEnv
    BY <1>0, <2>1, <2>3, SafeCaller, SafeReader DEF RXCaller, RXEnv
  <2>4. CASE Closed \/ UNCHANGED vars
    <3>1. UNCHANGED <<bufVars, apiVars, workerVars, streamVars>>
      BY <2>4 DEF Closed, vars
    <3> QED BY <2>1, <3>1 DEF bufVars, apiVars, workerVars, streamVars, Safe, StartAnswered,
               WorkerHonest, StreamShape, FirstInFlight, ReadyIsFull, BuffersOwned, InFlight
  <2> QED BY <2>2, <2>3, <2>4 DEF RXNext
<1> QED BY <1>1, <1>2 DEF RXInv

\* bladerf_sync_rx never lets USB and the caller use the same buffer, and never
\* submits a buffer twice, for every size of the ring, through overruns,
\* failing transfers and restarts, as long as the worker answers START in
\* time; and no transfer goes missing while none fails.
THEOREM RXOwnershipHolds == RXSpec => []RXOwnership
<1>1. RXInit => RXInv
  BY RXInvInit
<1>2. RXInv /\ [RXNext]_vars => RXInv'
  BY RXInvPreserved
<1>3. RXInv => RXOwnership
  BY DEF RXInv, Safe, NoneMissing, RXOwnership
<1> QED BY <1>1, <1>2, <1>3, PTL DEF RXSpec
===============================================================================
