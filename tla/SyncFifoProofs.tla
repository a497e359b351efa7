---------------------------- MODULE SyncFifoProofs ----------------------------
(***************************************************************************)
(* bladerf_sync_rx implements the queue of SampleFifo, for every size of   *)
(* the ring and every number of transfers below it.                        *)
(***************************************************************************)
EXTENDS SyncRXProofs, WellFoundedInduction

-----------------------------------------------------------------------------
(* The ring.                                                               *)

\* The buffer j places after buffer i.
At(i, j) == IF i + j < NumBuffers THEN i + j ELSE i + j - NumBuffers

\* Places are buffers, two places are different buffers, and the ring
\* closes after NumBuffers places.
LEMMA Places ==
  ASSUME NEW i \in Buffers
  PROVE  /\ \A j \in 0 .. NumBuffers : At(i, j) \in Buffers
         /\ \A j, k \in 0 .. NumBuffers - 1 : At(i, j) = At(i, k) => j = k
         /\ At(i, 0) = i /\ At(i, NumBuffers) = i
BY SyncAssumption DEF At, Buffers

\* Steps along the ring.
LEMMA Places2 ==
  ASSUME NEW i \in Buffers, NEW j \in 0 .. NumBuffers - 1
  PROVE  /\ NextBuffer(At(i, j)) = At(i, j + 1)
         /\ NextBuffer(i) = At(i, 1)
         /\ At(NextBuffer(i), j) = At(i, j + 1)
         /\ (i + j) % NumBuffers = At(i, j)
<1> USE SyncAssumption DEF Buffers
<1>1. (i + j) % NumBuffers = At(i, j)
  BY DEF At
<1>2. NextBuffer(At(i, j)) = At(i, j + 1)
  <2>1. CASE i + j < NumBuffers
    <3>1. At(i, j) = i + j /\ (i + j) + 1 <= NumBuffers
      BY <2>1 DEF At
    <3> QED BY <2>1, <3>1 DEF NextBuffer, At
  <2>2. CASE ~(i + j < NumBuffers)
    <3>1. At(i, j) = i + j - NumBuffers /\ (i + j - NumBuffers) + 1 < NumBuffers
      BY <2>2 DEF At
    <3>2. At(i, j + 1) = i + j + 1 - NumBuffers
      BY <2>2 DEF At
    <3> QED BY <2>2, <3>1, <3>2 DEF NextBuffer
  <2> QED BY <2>1, <2>2
<1>3. NextBuffer(i) = At(i, 1)
  BY DEF NextBuffer, At
<1>4. At(At(i, 1), j) = At(i, j + 1)
  BY DEF At
<1> QED BY <1>1, <1>2, <1>3, <1>4

-----------------------------------------------------------------------------
(* The invariant.                                                          *)

\* From cons_i on: u buffers for the caller, the first of them perhaps begun,
\* then the ones in flight, then the empty ones, where prod_i is.
RingAt(u) ==
    /\ prod_i = At(cons_i, u + NumXfers)
    /\ \A j \in 0 .. NumBuffers - 1 :
          IF j < u
          THEN \/ status[At(cons_i, j)] = "FULL"
               \/ j = 0 /\ status[At(cons_i, j)] = "PARTIAL"
          ELSE status[At(cons_i, j)] =
                  IF j < u + NumXfers THEN "IN_FLIGHT" ELSE "EMPTY"

\* Which of the buffers in flight transfer k has: an overrun turns the
\* transfers once around.
Turn(k) == IF k <= resubmit_count THEN k - 1 + NumXfers - resubmit_count
           ELSE k - 1 - resubmit_count

\* The transfers come back in the order of the ring.
TransfersAt(u) ==
    wpc = "events" /\ streamState = "RUNNING" =>
        \A k \in 1 .. NumXfers : inflight[k] = At(cons_i, u + Turn(k))

\* The ring as sync_init leaves it.
Fresh ==
    /\ status = [b \in Buffers |-> IF InFirstTransfers(b) THEN "IN_FLIGHT" ELSE "EMPTY"]
    /\ prod_i = NumXfers /\ cons_i = 0 /\ resubmit_count = 0

\* A stream nobody disturbs is started once, on the fresh ring, and ends only
\* when it is told to stop.
RunsOnce ==
    /\ wpc \in {"prepare", "run", "setup"} => Fresh
    /\ wpc = "idle" => Fresh \/ "STOP" \in requests
    /\ wpc = "events" /\ streamState = "RUNNING" => cancelled = {}
    /\ (\/ wpc = "events" /\ streamState # "RUNNING"
        \/ wpc \in {"ended", "wake", "return"})
       => "STOP" \in requests

Room == 0 .. NumBuffers - NumXfers

RingInv ==
    faults = 0 /\ late = 0 => RunsOnce /\ \E u \in Room : RingAt(u) /\ TransfersAt(u)

\* sync_init leaves no block for the caller.
LEMMA FreshRing ==
  ASSUME Fresh
  PROVE  RingAt(0)
BY SyncAssumption DEF Fresh, RingAt, At, Buffers, InFirstTransfers

\* NumXfers different buffers below NumXfers, lowest first, are all of them in
\* their order.
LEMMA AllInOrder ==
  ASSUME NEW f \in [1 .. NumXfers -> 0 .. NumXfers - 1],
         \A j, k \in 1 .. NumXfers : j < k => f[j] < f[k]
  PROVE  \A k \in 1 .. NumXfers : f[k] = k - 1
<1> USE SyncAssumption
<1> DEFINE Low == {k \in Nat : k \in 1 .. NumXfers /\ f[k] < k - 1}
           High == {m \in Nat : m \in 0 .. NumXfers - 1 /\ f[NumXfers - m] > NumXfers - m - 1}
<1>0. ASSUME NEW T \in SUBSET Nat, T # {}
      PROVE  \E n \in T : \A m \in T : ~(m < n)
  <2>1. \E x \in T : \A y \in T : ~(<<y, x>> \in OpToRel(<, Nat))
    BY <1>0, NatLessThanWellFounded, WFMin
  <2> QED BY <2>1 DEF OpToRel
<1>1. Low = {}
  <2> SUFFICES ASSUME Low # {} PROVE FALSE
    OBVIOUS
  <2>1. Low \in SUBSET Nat
    OBVIOUS
  <2>2. PICK n \in Low : \A m \in Low : ~(m < n)
    <3> HIDE DEF Low
    <3> QED BY <1>0, <2>1
  <2>3. n \in 1 .. NumXfers /\ f[n] < n - 1 /\ f[n] \in 0 .. NumXfers - 1 /\ n > 1
    OBVIOUS
  <2>4. n - 1 \in 1 .. NumXfers /\ f[n - 1] \in 0 .. NumXfers - 1
    BY <2>3
  <2>5. ~(f[n - 1] < n - 2)
    BY <2>2, <2>3, <2>4
  <2>6. f[n - 1] < f[n]
    BY <2>3, <2>4
  <2> QED BY <2>3, <2>4, <2>5, <2>6
<1>2. High = {}
  <2> SUFFICES ASSUME High # {} PROVE FALSE
    OBVIOUS
  <2>1. High \in SUBSET Nat
    OBVIOUS
  <2>2. PICK n \in High : \A m \in High : ~(m < n)
    <3> HIDE DEF High
    <3> QED BY <1>0, <2>1
  <2>3. /\ n \in 0 .. NumXfers - 1 /\ NumXfers - n \in 1 .. NumXfers
        /\ f[NumXfers - n] > NumXfers - n - 1 /\ f[NumXfers - n] \in 0 .. NumXfers - 1
        /\ n > 0
    OBVIOUS
  <2>4. /\ n - 1 \in 0 .. NumXfers - 1 /\ NumXfers - (n - 1) \in 1 .. NumXfers
        /\ f[NumXfers - (n - 1)] \in 0 .. NumXfers - 1
    BY <2>3
  <2>5. n - 1 \notin High
    <3>1. n - 1 < n
      BY <2>3
    <3> HIDE DEF High
    <3> QED BY <2>2, <3>1
  <2>7. ~(f[NumXfers - (n - 1)] > NumXfers - (n - 1) - 1)
    BY <2>3, <2>4, <2>5
  <2>8. f[NumXfers - n] < f[NumXfers - (n - 1)]
    BY <2>3, <2>4
  <2> QED BY <2>3, <2>4, <2>7, <2>8
<1>3. ASSUME NEW k \in 1 .. NumXfers
      PROVE  f[k] = k - 1
  <2>1. k \notin Low /\ NumXfers - k \notin High
    <3> HIDE DEF Low, High
    <3> QED BY <1>1, <1>2
  <2>2. f[k] \in Int /\ k - 1 \in Int
    OBVIOUS
  <2>3. ~(f[k] < k - 1)
    BY <2>1
  <2>4. /\ NumXfers - k \in 0 .. NumXfers - 1 /\ NumXfers - k \in Nat
        /\ NumXfers - (NumXfers - k) = k
    OBVIOUS
  <2>5. ~(f[k] > k - 1)
    BY <2>1, <2>4
  <2>6. \A v, w \in Int : ~(v < w) /\ ~(v > w) => v = w
    OBVIOUS
  <2> QED BY <2>2, <2>3, <2>5, <2>6, Zenon
<1> QED BY <1>3

\* lusb_stream submits the first buffers in their order when no submission
\* fails, and cancels none.
LEMMA SetupOrder ==
  ASSUME RXTypeOK, SetupTransfers, faults' = 0
  PROVE  /\ \A k \in 1 .. NumXfers : inflight'[k] = k - 1
         /\ cancelled' = {}
<1> DEFINE First == 0 .. NumXfers - 1
<1>1. PICK failed \in SUBSET First :
          /\ faults' = faults + Cardinality(failed)
          /\ inflight' \in InOrder(First \ failed)
          /\ cancelled' = {b \in First : b \notin failed /\ \E f \in failed : b < f}
  BY DEF SetupTransfers
<1>2. IsFiniteSet(First) /\ Cardinality(First) = NumXfers
  BY SyncAssumption, FS_Interval
<1>3. IsFiniteSet(failed) /\ Cardinality(failed) \in Nat
  BY <1>2, FS_Subset, FS_CardinalityType
<1>4. failed = {}
  <2>1. Cardinality(failed) = 0
    BY <1>1, <1>3, SyncAssumption DEF RXTypeOK, SharedTypeOK
  <2> QED BY <1>3, <2>1, FS_EmptySet
<1>5. First \ failed = First
  BY <1>4
<1>6. /\ inflight' \in [1 .. NumXfers -> First]
      /\ \A j, k \in 1 .. NumXfers : j < k => inflight'[j] < inflight'[k]
  BY <1>1, <1>2, <1>5 DEF InOrder
<1>7. \A k \in 1 .. NumXfers : inflight'[k] = k - 1
  BY <1>6, AllInOrder
<1> QED BY <1>1, <1>4, <1>7

\* The counter of faults never goes back.
LEMMA FaultsGrow ==
  ASSUME RXTypeOK, [RXNext]_vars, faults' = 0
  PROVE  faults = 0
<1>1. faults \in Nat
  BY SyncAssumption DEF RXTypeOK, SharedTypeOK
<1>2. CASE SetupTransfers
  BY <1>1, <1>2, SetupStream
<1>3. CASE Store \/ Overrun \/ OverrunGoesOn
  <2>1. faults' = faults \/ faults' = faults + 1
    BY <1>3 DEF Store, Overrun, OverrunGoesOn, Resubmit
  <2> QED BY <1>1, <2>1
<1>4. CASE WorkerControl \/ TransferEnds(FALSE) \/ CallbackStops(FALSE) \/ Prepare
  <2>1. faults' = faults \/ faults' = faults + 1
    BY <1>4 DEF WorkerControl, ExecIdle, ExecShutdown, RunStream, StreamEnds,
       SaveResult, WakeCaller, ReturnToIdle, TransferEnds, CallbackStops, Prepare
  <2> QED BY <1>1, <2>1
<1>5. CASE RXCaller
  BY <1>5 DEF RXCaller, CheckWorker, StartWorker, WorkerStarted, StartTimeout, WaitTimeout,
     Deinit, WorkerJoined, CancelWorker, FreeStream, ResetBufMgmt, WaitForBuffer, Woken,
     BufferReady, UsingBuffer
<1>6. CASE RXEnv \/ Closed \/ UNCHANGED vars
  BY <1>6 DEF RXEnv, BeginCall, RequestStop, SpuriousWake, Closed, vars
<1> QED BY <1>2, <1>3, <1>4, <1>5, <1>6 DEF RXNext, RXWorker

-----------------------------------------------------------------------------
(* The stream is started once.                                             *)

\* On the fresh ring exec_idle_state finds everything as it wants it.
LEMMA PrepareFresh ==
  ASSUME Fresh, Prepare
  PROVE  UNCHANGED <<status, prod_i, cons_i, resubmit_count>>
<1>1. PrepareStatus = status
  BY DEF Fresh, PrepareStatus
<1> QED BY <1>1 DEF Prepare, Fresh, rxVars

\* The worker does not start the stream again, and ends it only on STOP.
LEMMA RunsOnceWorker ==
  ASSUME RXTypeOK, Safe, RunsOnce, faults = 0, faults' = 0, RXWorker
  PROVE  RunsOnce'
<1>0. faults \in Nat
  OBVIOUS
<1>1. CASE WorkerControl /\ UNCHANGED rxVars
  <2>1. UNCHANGED <<status, prod_i, cons_i, resubmit_count, cancelled>>
    BY <1>1 DEF WorkerControl, ExecIdle, ExecShutdown, RunStream, StreamEnds,
       SaveResult, WakeCaller, ReturnToIdle, bufVars, streamVars, rxVars
  <2>2. Fresh' <=> Fresh
    BY <2>1 DEF Fresh
  <2> QED BY <1>1, <2>1, <2>2 DEF WorkerControl, ExecIdle, ExecShutdown, RunStream, StreamEnds,
       SaveResult, WakeCaller, ReturnToIdle, streamVars, RunsOnce
<1>2. CASE TransferEnds(FALSE)
  <2>1. faults' # faults + 1
    OBVIOUS
  <2>2. Head(inflight) \in cancelled \/ streamState = "SHUTTING_DOWN"
    BY <1>2, <2>1 DEF TransferEnds
  <2> QED BY <1>2, <2>2 DEF TransferEnds, ShutDown, RunsOnce, workerVars
<1>3. CASE CallbackStops(FALSE)
  BY <1>3 DEF CallbackStops, ShutDown, RunsOnce, workerVars
<1>4. CASE Prepare
  <2>1. Fresh
    BY <1>4 DEF Prepare, RunsOnce
  <2>2. Fresh'
    BY <1>4, <2>1, PrepareFresh DEF Fresh
  <2> QED BY <1>4, <2>2 DEF Prepare, RunsOnce
<1>5. CASE SetupTransfers
  BY <1>5, SetupOrder DEF SetupTransfers, RunsOnce, Safe, StreamShape
<1>6. CASE Store \/ Overrun \/ OverrunGoesOn
  <2>1. Completes /\ UNCHANGED workerVars
    BY <1>6 DEF Store, Overrun, OverrunGoesOn
  <2>2. UNCHANGED streamState /\ cancelled' \subseteq cancelled
    BY <1>6 DEF Store, Overrun, OverrunGoesOn, Resubmit
  <2> QED BY <2>1, <2>2 DEF RunsOnce, Completes, workerVars
<1> QED BY <1>1, <1>2, <1>3, <1>4, <1>5, <1>6 DEF RXWorker

\* While the ring is fresh the caller has nothing to read.
LEMMA FreshIsUnread ==
  ASSUME Fresh
  PROVE  status[cons_i] = "IN_FLIGHT"
BY SyncAssumption DEF Fresh, Buffers, InFirstTransfers

\* The caller never touches the ring before the worker has filled a buffer.
LEMMA RunsOnceCaller ==
  ASSUME RXTypeOK, Safe, RunsOnce, RXCaller \/ RXEnv
  PROVE  RunsOnce'
<1>1. CASE BufferReady \/ UsingBuffer
  <2>1. apc = "run" /\ status[cons_i] # "IN_FLIGHT"
    BY <1>1 DEF BufferReady, UsingBuffer, Safe, ReadyIsFull, BuffersOwned
  <2>2. ~Fresh /\ "STOP" \notin requests
    BY <2>1, FreshIsUnread DEF Safe, StartAnswered
  <2>3. UNCHANGED <<workerVars, streamVars>>
    BY <1>1 DEF BufferReady, UsingBuffer
  <2> QED BY <2>2, <2>3 DEF RunsOnce, workerVars, streamVars
<1>2. CASE ResetBufMgmt
  <2>1. Fresh => Fresh'
    BY <1>2 DEF ResetBufMgmt, Fresh, rxVars
  <2> QED BY <1>2, <2>1 DEF ResetBufMgmt, RunsOnce, workerVars, streamVars
<1>3. CASE \/ (\/ CheckWorker("RESET_BUF_MGMT") \/ StartWorker \/ WorkerStarted
               \/ StartTimeout \/ WaitTimeout \/ Deinit) /\ UNCHANGED rxVars
           \/ WaitForBuffer \/ Woken \/ RXEnv
  <2>1. UNCHANGED <<status, prod_i, cons_i, resubmit_count, cancelled, streamState>>
    BY <1>3 DEF CheckWorker, StartWorker, WorkerStarted, StartTimeout, WaitTimeout, Deinit,
       WorkerJoined, CancelWorker, FreeStream, RXEnv, BeginCall, RequestStop, SpuriousWake,
       WaitForBuffer, Woken, bufVars, streamVars, rxVars
  <2>2. Fresh' <=> Fresh
    BY <2>1 DEF Fresh
  <2>3. /\ wpc' = wpc \/ wpc' = "cancelled"
        /\ requests \subseteq requests'
    BY <1>3 DEF CheckWorker, StartWorker, WorkerStarted, StartTimeout, WaitTimeout, Deinit,
       WorkerJoined, CancelWorker, FreeStream, RXEnv, BeginCall, RequestStop, SpuriousWake,
       WaitForBuffer, Woken, workerVars
  <2> QED BY <2>1, <2>2, <2>3 DEF RunsOnce
<1> QED BY <1>1, <1>2, <1>3 DEF RXCaller

-----------------------------------------------------------------------------
(* The shape of the ring.                                                  *)

\* The places of the ring that the caller's, the transfers' and the empty
\* buffers meet at.
LEMMA RingFacts ==
  ASSUME RXTypeOK, NEW u \in Room, RingAt(u)
  PROVE  /\ u \in Nat /\ u < NumBuffers /\ u + NumXfers \in 0 .. NumBuffers
         /\ cons_i \in Buffers /\ prod_i \in Buffers /\ status \in [Buffers -> Status]
         /\ status[At(cons_i, u)] = "IN_FLIGHT"
         /\ status[prod_i] = "EMPTY" <=> u < NumBuffers - NumXfers
         /\ u = 0 => status[cons_i] = "IN_FLIGHT"
         /\ u > 0 => status[cons_i] \in {"FULL", "PARTIAL"}
<1> USE SyncAssumption
<1>1. /\ u \in Nat /\ u < NumBuffers /\ u + NumXfers \in 0 .. NumBuffers
      /\ cons_i \in Buffers /\ prod_i \in Buffers /\ status \in [Buffers -> Status]
  BY DEF RXTypeOK, SharedTypeOK, Room
<1>2. At(cons_i, 0) = cons_i /\ At(cons_i, NumBuffers) = cons_i
  BY <1>1, Places
<1>3. /\ u = 0 => status[cons_i] = "IN_FLIGHT"
      /\ u > 0 => status[cons_i] \in {"FULL", "PARTIAL"}
  BY <1>1, <1>2 DEF RingAt
<1>4. status[At(cons_i, u)] = "IN_FLIGHT"
  BY <1>1 DEF RingAt
<1>5. CASE u < NumBuffers - NumXfers
  BY <1>1, <1>3, <1>4, <1>5 DEF RingAt
<1>6. CASE u = NumBuffers - NumXfers
  <2>1. prod_i = cons_i /\ u > 0
    BY <1>1, <1>2, <1>6 DEF RingAt
  <2> QED BY <1>1, <1>3, <1>4, <1>6, <2>1
<1>7. u < NumBuffers - NumXfers \/ u = NumBuffers - NumXfers
  BY DEF Room
<1> QED BY <1>1, <1>3, <1>4, <1>5, <1>6, <1>7

\* A step that leaves the ring alone keeps its shape.
LEMMA RingFrame ==
  ASSUME NEW u \in Room, RingAt(u), TransfersAt(u), UNCHANGED <<status, prod_i, cons_i>>,
         \/ UNCHANGED <<wpc, streamState, inflight, resubmit_count>>
         \/ wpc' # "events"
         \/ streamState' # "RUNNING"
  PROVE  RingAt(u)' /\ TransfersAt(u)'
<1>1. RingAt(u)'
  BY DEF RingAt
<1>2. TransfersAt(u)'
  BY DEF TransfersAt, Turn
<1> QED BY <1>1, <1>2

\* What a resubmission that succeeds does to the transfers.
LEMMA ResubmitOrder ==
  ASSUME RXTypeOK, NoneMissing, faults = 0, faults' = 0, Completes,
         NEW next \in Buffers, Resubmit(next, FALSE)
  PROVE  /\ \A k \in 1 .. NumXfers - 1 : inflight'[k] = inflight[k + 1]
         /\ inflight'[NumXfers] = next
         /\ Head(inflight) = inflight[1]
         /\ UNCHANGED streamState
<1>1. /\ inflight \in Seq(Buffers) /\ Len(inflight) = NumXfers /\ inflight # <<>>
      /\ NumXfers \in Nat /\ NumXfers > 0
  BY SyncAssumption DEF RXTypeOK, SharedTypeOK, Completes, NoneMissing
<1>2. inflight' = Append(Tail(inflight), next) /\ UNCHANGED streamState
  BY DEF Resubmit
<1>3. /\ Head(inflight) = inflight[1] /\ Tail(inflight) \in Seq(Buffers)
      /\ Len(Tail(inflight)) = NumXfers - 1
      /\ \A k \in 1 .. NumXfers - 1 : Tail(inflight)[k] = inflight[k + 1]
  BY <1>1, HeadTailProperties
<1>4. /\ \A k \in 1 .. NumXfers - 1 : inflight'[k] = Tail(inflight)[k]
      /\ inflight'[(NumXfers - 1) + 1] = next
  BY <1>1, <1>2, <1>3, AppendProperties
<1> QED BY <1>1, <1>2, <1>3, <1>4

\* rx_callback hands the first buffer in flight to the caller and puts the
\* first empty one behind the others.
LEMMA RingStore ==
  ASSUME RXTypeOK, NoneMissing, faults = 0, faults' = 0, Store,
         NEW u \in Room, RingAt(u), TransfersAt(u)
  PROVE  /\ u + 1 \in Room
         /\ Head(inflight) = At(cons_i, u)
         /\ RingAt(u + 1)' /\ TransfersAt(u + 1)'
<1> USE SyncAssumption
<1>1. /\ u \in Nat /\ u < NumBuffers /\ u + NumXfers \in 0 .. NumBuffers
      /\ cons_i \in Buffers /\ prod_i \in Buffers /\ status \in [Buffers -> Status]
      /\ u < NumBuffers - NumXfers
  BY RingFacts DEF Store
<1>2. u + 1 \in Room
  BY <1>1 DEF Room
<1>3. /\ Completes /\ resubmit_count = 0 /\ Resubmit(prod_i, FALSE)
      /\ status' = [status EXCEPT ![Head(inflight)] = "FULL", ![prod_i] = "IN_FLIGHT"]
      /\ prod_i' = NextBuffer(prod_i)
      /\ cons_i' = cons_i /\ resubmit_count' = resubmit_count /\ wpc' = wpc
  BY DEF Store, workerVars
<1>4. /\ \A k \in 1 .. NumXfers - 1 : inflight'[k] = inflight[k + 1]
      /\ inflight'[NumXfers] = prod_i
      /\ Head(inflight) = inflight[1]
  BY <1>1, <1>3, ResubmitOrder
<1>5. \A k \in 1 .. NumXfers : inflight[k] = At(cons_i, u + (k - 1))
  BY <1>3 DEF TransfersAt, Turn, Completes
<1>6. Head(inflight) = At(cons_i, u) /\ Head(inflight) \in Buffers
  <2>1. Head(inflight) = At(cons_i, u + (1 - 1))
    BY <1>4, <1>5
  <2>2. u + (1 - 1) = u
    BY <1>1
  <2> QED BY <1>1, <2>1, <2>2, Places
<1>7. prod_i = At(cons_i, u + NumXfers) /\ u + NumXfers \in 0 .. NumBuffers - 1
  BY <1>1 DEF RingAt
<1>8. ASSUME NEW j \in 0 .. NumBuffers - 1
      PROVE  status'[At(cons_i, j)] = IF j = u THEN "FULL"
                                      ELSE IF j = u + NumXfers THEN "IN_FLIGHT"
                                      ELSE status[At(cons_i, j)]
  <2>1. /\ At(cons_i, j) \in Buffers
        /\ At(cons_i, j) = Head(inflight) <=> j = u
        /\ At(cons_i, j) = prod_i <=> j = u + NumXfers
    BY <1>1, <1>6, <1>7, Places
  <2> QED BY <1>1, <1>3, <1>6, <2>1
<1>9. RingAt(u + 1)'
  <2>1. prod_i' = At(cons_i, (u + 1) + NumXfers)
    <3>1. NextBuffer(At(cons_i, u + NumXfers)) = At(cons_i, (u + NumXfers) + 1)
      BY <1>1, <1>7, Places2
    <3>2. (u + NumXfers) + 1 = (u + 1) + NumXfers
      BY <1>1
    <3> QED BY <1>3, <1>7, <3>1, <3>2
  <2>2. ASSUME NEW j \in 0 .. NumBuffers - 1
        PROVE  IF j < u + 1
               THEN \/ status'[At(cons_i, j)] = "FULL"
                    \/ j = 0 /\ status'[At(cons_i, j)] = "PARTIAL"
               ELSE status'[At(cons_i, j)] =
                       IF j < (u + 1) + NumXfers THEN "IN_FLIGHT" ELSE "EMPTY"
    BY <1>1, <1>8 DEF RingAt
  <2> QED BY <1>3, <2>1, <2>2 DEF RingAt
<1>10. TransfersAt(u + 1)'
  <2>1. ASSUME NEW k \in 1 .. NumXfers
        PROVE  inflight'[k] = At(cons_i, (u + 1) + (k - 1))
    <3>1. CASE k < NumXfers
      <4>1. inflight'[k] = At(cons_i, u + ((k + 1) - 1))
        BY <1>4, <1>5, <3>1
      <4>2. u + ((k + 1) - 1) = (u + 1) + (k - 1)
        BY <1>1
      <4> QED BY <4>1, <4>2
    <3>2. CASE k = NumXfers
      <4>1. (u + 1) + (k - 1) = u + NumXfers
        BY <1>1, <3>2
      <4> QED BY <1>4, <1>7, <3>2, <4>1
    <3> QED BY <3>1, <3>2
  <2> QED BY <1>3, <2>1 DEF TransfersAt, Turn
<1> QED BY <1>2, <1>6, <1>9, <1>10

\* An overrun turns the transfers and leaves the ring as it is.
LEMMA RingOverrun ==
  ASSUME RXTypeOK, NoneMissing, faults = 0, faults' = 0, Overrun \/ OverrunGoesOn,
         NEW u \in Room, RingAt(u), TransfersAt(u)
  PROVE  RingAt(u)' /\ TransfersAt(u)'
<1> USE SyncAssumption
<1>1. /\ u \in Nat /\ cons_i \in Buffers /\ resubmit_count \in 0 .. NumXfers - 1
  BY DEF Room, RXTypeOK, SharedTypeOK
<1>2. /\ Completes /\ Resubmit(Head(inflight), FALSE)
      /\ UNCHANGED <<status, prod_i, cons_i, wpc>>
      /\ resubmit_count' = IF resubmit_count = 0 THEN NumXfers - 1 ELSE resubmit_count - 1
  <2>1. CASE Overrun
    BY <2>1 DEF Overrun, OverrunCount, bufVars, workerVars
  <2>2. CASE OverrunGoesOn
    <3>1. resubmit_count # 0
      BY <2>2 DEF OverrunGoesOn
    <3> QED BY <2>2, <3>1 DEF OverrunGoesOn, bufVars, workerVars
  <2> QED BY <2>1, <2>2
<1>3. Head(inflight) \in Buffers
  BY <1>2, TailType DEF RXTypeOK, Completes
<1>4. /\ \A k \in 1 .. NumXfers - 1 : inflight'[k] = inflight[k + 1]
      /\ inflight'[NumXfers] = inflight[1]
  BY <1>2, <1>3, ResubmitOrder
<1>5. \A k \in 1 .. NumXfers : inflight[k] = At(cons_i, u + Turn(k))
  BY <1>2 DEF TransfersAt, Completes
<1>6. ASSUME NEW k \in 1 .. NumXfers
      PROVE  inflight'[k] = At(cons_i, u + Turn(k)')
  <2>1. CASE k < NumXfers
    <3>1. Turn(k)' = Turn(k + 1)
      BY <1>1, <1>2, <2>1 DEF Turn
    <3> QED BY <1>4, <1>5, <2>1, <3>1
  <2>2. CASE k = NumXfers
    <3>1. Turn(k)' = Turn(1)
      BY <1>1, <1>2, <2>2 DEF Turn
    <3> QED BY <1>4, <1>5, <2>2, <3>1
  <2> QED BY <2>1, <2>2
<1>7. TransfersAt(u)'
  BY <1>2, <1>6 DEF TransfersAt
<1> QED BY <1>2, <1>7 DEF RingAt

\* sync_rx begins to read a full buffer.
LEMMA RingBegin ==
  ASSUME RXTypeOK, Safe, BufferReady, NEW u \in Room, RingAt(u), TransfersAt(u)
  PROVE  u > 0 /\ status[cons_i] = "FULL" /\ RingAt(u)' /\ TransfersAt(u)'
<1> USE SyncAssumption
<1>1. /\ u \in Nat /\ u < NumBuffers
      /\ cons_i \in Buffers /\ status \in [Buffers -> Status]
  BY RingFacts
<1>2. status[cons_i] = "FULL" /\ u > 0
  <2>1. status[cons_i] = "FULL"
    BY DEF Safe, ReadyIsFull, BufferReady
  <2>2. u = 0 => status[cons_i] = "IN_FLIGHT"
    BY RingFacts
  <2> QED BY <1>1, <2>1, <2>2
<1>3. /\ status' = [status EXCEPT ![cons_i] = "PARTIAL"]
      /\ UNCHANGED <<prod_i, cons_i, wpc, streamState, inflight, resubmit_count>>
  BY DEF BufferReady, workerVars, streamVars, rxVars
<1>4. \A j \in 0 .. NumBuffers - 1 :
         status'[At(cons_i, j)] = IF j = 0 THEN "PARTIAL" ELSE status[At(cons_i, j)]
  <2>1. \A j \in 0 .. NumBuffers - 1 :
           At(cons_i, j) \in Buffers /\ (At(cons_i, j) = cons_i <=> j = 0)
    BY <1>1, Places
  <2> QED BY <1>1, <1>3, <2>1
<1>5. RingAt(u)'
  <2>1. ASSUME NEW j \in 0 .. NumBuffers - 1
        PROVE  IF j < u
               THEN \/ status'[At(cons_i, j)] = "FULL"
                    \/ j = 0 /\ status'[At(cons_i, j)] = "PARTIAL"
               ELSE status'[At(cons_i, j)] =
                       IF j < u + NumXfers THEN "IN_FLIGHT" ELSE "EMPTY"
    BY <1>1, <1>2, <1>4 DEF RingAt
  <2> QED BY <1>3, <2>1 DEF RingAt
<1>6. TransfersAt(u)'
  BY <1>3 DEF TransfersAt, Turn
<1> QED BY <1>2, <1>5, <1>6

\* advance_rx_buffer makes the buffer that was read the last of the empty ones.
LEMMA RingAdvance ==
  ASSUME RXTypeOK, Safe, state = "USING_BUFFER", AdvanceRX,
         UNCHANGED <<prod_i, wpc, streamState, inflight, resubmit_count>>,
         NEW u \in Room, RingAt(u), TransfersAt(u)
  PROVE  /\ u > 0 /\ u - 1 \in Room /\ status[cons_i] = "PARTIAL"
         /\ RingAt(u - 1)' /\ TransfersAt(u - 1)'
<1> USE SyncAssumption
<1>1. /\ u \in Nat /\ u < NumBuffers /\ u + NumXfers \in 0 .. NumBuffers
      /\ cons_i \in Buffers /\ status \in [Buffers -> Status]
  BY RingFacts
<1>2. status[cons_i] = "PARTIAL" /\ u > 0 /\ u - 1 \in Room
  <2>1. status[cons_i] = "PARTIAL"
    BY DEF Safe, BuffersOwned
  <2>2. u = 0 => status[cons_i] = "IN_FLIGHT"
    BY RingFacts
  <2> QED BY <1>1, <2>1, <2>2 DEF Room
<1>3. /\ status' = [status EXCEPT ![cons_i] = "EMPTY"]
      /\ cons_i' = NextBuffer(cons_i)
  BY DEF AdvanceRX
<1>4. \A j \in 0 .. NumBuffers - 1 : At(cons_i', j) = At(cons_i, j + 1)
  BY <1>1, <1>3, Places2
<1>5. ASSUME NEW j \in 0 .. NumBuffers - 1
      PROVE  status'[At(cons_i', j)] =
                IF j = NumBuffers - 1 THEN "EMPTY" ELSE status[At(cons_i, j + 1)]
  <2>1. CASE j = NumBuffers - 1
    <3>1. At(cons_i', j) = cons_i
      <4>1. j + 1 = NumBuffers
        BY <2>1
      <4> QED BY <1>1, <1>4, <4>1, Places
    <3> QED BY <1>1, <1>3, <2>1, <3>1
  <2>2. CASE j # NumBuffers - 1
    <3>1. j + 1 \in 0 .. NumBuffers - 1 /\ j + 1 # 0
      BY <2>2
    <3>2. At(cons_i, j + 1) \in Buffers /\ At(cons_i, j + 1) # cons_i
      BY <1>1, <3>1, Places
    <3> QED BY <1>1, <1>3, <1>4, <2>2, <3>2
  <2> QED BY <2>1, <2>2
<1>6. RingAt(u - 1)'
  <2>1. prod_i' = At(cons_i', (u - 1) + NumXfers)
    <3>1. (u - 1) + NumXfers \in 0 .. NumBuffers - 1 /\ ((u - 1) + NumXfers) + 1 = u + NumXfers
      BY <1>1, <1>2
    <3> QED BY <1>4, <3>1 DEF RingAt
  <2>2. ASSUME NEW j \in 0 .. NumBuffers - 1
        PROVE  IF j < u - 1
               THEN \/ status'[At(cons_i', j)] = "FULL"
                    \/ j = 0 /\ status'[At(cons_i', j)] = "PARTIAL"
               ELSE status'[At(cons_i', j)] =
                       IF j < (u - 1) + NumXfers THEN "IN_FLIGHT" ELSE "EMPTY"
    <3>1. CASE j = NumBuffers - 1
      BY <1>1, <1>2, <1>5, <3>1
    <3>2. CASE j # NumBuffers - 1
      <4>1. j + 1 \in 0 .. NumBuffers - 1 /\ j + 1 # 0
        BY <3>2
      <4>2. IF j + 1 < u
            THEN status[At(cons_i, j + 1)] = "FULL"
            ELSE status[At(cons_i, j + 1)] =
                    IF j + 1 < u + NumXfers THEN "IN_FLIGHT" ELSE "EMPTY"
        BY <4>1 DEF RingAt
      <4> QED BY <1>1, <1>5, <3>2, <4>2
    <3> QED BY <3>1, <3>2
  <2> QED BY <2>1, <2>2 DEF RingAt
<1>7. TransfersAt(u - 1)'
  <2>1. ASSUME NEW k \in 1 .. NumXfers
        PROVE  /\ Turn(k)' = Turn(k)
               /\ At(cons_i', (u - 1) + Turn(k)) = At(cons_i, u + Turn(k))
    <3>1. Turn(k)' = Turn(k) /\ Turn(k) \in 0 .. NumXfers - 1
      BY DEF Turn, RXTypeOK
    <3>2. /\ (u - 1) + Turn(k) \in 0 .. NumBuffers - 1
          /\ ((u - 1) + Turn(k)) + 1 = u + Turn(k)
      BY <1>1, <1>2, <3>1
    <3> QED BY <1>4, <3>1, <3>2
  <2> QED BY <2>1 DEF TransfersAt
<1> QED BY <1>2, <1>6, <1>7

\* What one step does to the ring as long as nothing fails: it accepts a
\* block, begins one, gives a buffer back, or leaves the blocks alone.
LEMMA RingStep ==
  ASSUME RXTypeOK, Safe, NoneMissing, RunsOnce, faults = 0, faults' = 0, [RXNext]_vars,
         NEW u \in Room, RingAt(u), TransfersAt(u)
  PROVE  \E v \in Room :
            /\ RingAt(v)' /\ TransfersAt(v)'
            /\ \/ Store /\ v = u + 1 /\ Head(inflight) = At(cons_i, u)
               \/ BufferReady /\ v = u /\ u > 0 /\ status[cons_i] = "FULL"
               \/ /\ AdvanceRX /\ put' = put
                  /\ v = u - 1 /\ u > 0 /\ status[cons_i] = "PARTIAL"
               \/ UNCHANGED <<status, cons_i, data, put>>
<1>1. ASSUME UNCHANGED <<status, prod_i, cons_i, data, put>>,
             \/ UNCHANGED <<wpc, streamState, inflight, resubmit_count>>
             \/ wpc' # "events"
             \/ streamState' # "RUNNING"
      PROVE  RingAt(u)' /\ TransfersAt(u)' /\ UNCHANGED <<status, cons_i, data, put>>
  BY <1>1, RingFrame
<1>2. CASE WorkerControl /\ UNCHANGED rxVars
  <2>1. UNCHANGED <<status, prod_i, cons_i, data, put>> /\ wpc' # "events"
    BY <1>2 DEF WorkerControl, ExecIdle, ExecShutdown, RunStream, StreamEnds, SaveResult,
       WakeCaller, ReturnToIdle, bufVars, rxVars
  <2> QED BY <1>1, <2>1
<1>3. CASE (TransferEnds(FALSE) \/ CallbackStops(FALSE)) /\ UNCHANGED rxVars
  <2>1. UNCHANGED <<status, prod_i, cons_i, data, put>> /\ streamState' # "RUNNING"
    BY <1>3 DEF TransferEnds, CallbackStops, ShutDown, bufVars, rxVars
  <2> QED BY <1>1, <2>1
<1>4. CASE Prepare
  <2>1. Fresh
    BY <1>4 DEF Prepare, RunsOnce
  <2>2. UNCHANGED <<status, prod_i, cons_i, data, put>> /\ wpc' # "events"
    BY <1>4, <2>1, PrepareFresh DEF Prepare, rxVars
  <2> QED BY <1>1, <2>2
<1>5. CASE SetupTransfers
  <2>1. Fresh /\ UNCHANGED <<status, prod_i, cons_i, resubmit_count, data, put>>
    BY <1>5 DEF SetupTransfers, RunsOnce, bufVars, rxVars
  <2>2. RingAt(0)
    BY <2>1, FreshRing
  <2>3. RingAt(0)'
    BY <2>1, <2>2 DEF RingAt
  <2>4. TransfersAt(0)'
    <3>1. \A k \in 1 .. NumXfers : inflight'[k] = k - 1
      BY <1>5, SetupOrder
    <3>2. cons_i' = 0 /\ resubmit_count' = 0
      BY <2>1 DEF Fresh
    <3>3. \A k \in 1 .. NumXfers : Turn(k)' = k - 1 /\ At(0, 0 + (k - 1)) = k - 1
      BY <3>2, SyncAssumption DEF Turn, At
    <3> QED BY <3>1, <3>2, <3>3 DEF TransfersAt
  <2>5. 0 \in Room
    BY SyncAssumption DEF Room
  <2> QED BY <2>1, <2>3, <2>4, <2>5
<1>6. CASE Store
  BY <1>6, RingStore
<1>7. CASE Overrun \/ OverrunGoesOn
  <2>1. UNCHANGED <<status, cons_i, data, put>>
    BY <1>7 DEF Overrun, OverrunGoesOn, bufVars
  <2> QED BY <1>7, <2>1, RingOverrun
<1>8. CASE ResetBufMgmt
  <2>1. apc = "run" /\ state = "RESET_BUF_MGMT"
    BY <1>8 DEF ResetBufMgmt
  <2>2. wpc = "idle" /\ "STOP" \notin requests
    BY <2>1 DEF Safe, StartAnswered
  <2>3. Fresh
    BY <2>2 DEF RunsOnce
  <2>4. /\ UNCHANGED <<status, prod_i, cons_i, data, put>>
        /\ UNCHANGED <<wpc, streamState, inflight, resubmit_count>>
    BY <1>8, <2>3 DEF ResetBufMgmt, Fresh, workerVars, streamVars, rxVars
  <2> QED BY <1>1, <2>4
<1>9. CASE BufferReady
  BY <1>9, RingBegin
<1>10. CASE UsingBuffer
  <2>1. /\ state = "USING_BUFFER" /\ put' = put
        /\ UNCHANGED <<prod_i, wpc, streamState, inflight, resubmit_count>>
        /\ AdvanceRX \/ UNCHANGED <<status, cons_i, data>>
    BY <1>10 DEF UsingBuffer, workerVars, streamVars
  <2>2. CASE AdvanceRX
    BY <2>1, <2>2, RingAdvance
  <2>3. CASE UNCHANGED <<status, cons_i, data>>
    BY <1>1, <2>1, <2>3
  <2> QED BY <2>1, <2>2, <2>3
<1>11. CASE \/ (\/ CheckWorker("RESET_BUF_MGMT") \/ StartWorker \/ WorkerStarted
                \/ StartTimeout \/ WaitTimeout \/ Deinit) /\ UNCHANGED rxVars
            \/ WaitForBuffer \/ Woken \/ RXEnv \/ Closed \/ UNCHANGED vars
  <2>1. /\ UNCHANGED <<status, prod_i, cons_i, data, put>>
        /\ UNCHANGED <<streamState, inflight, resubmit_count>>
    BY <1>11 DEF CheckWorker, StartWorker, WorkerStarted, StartTimeout, WaitTimeout, Deinit,
       WorkerJoined, CancelWorker, FreeStream, RXEnv, BeginCall, RequestStop, SpuriousWake,
       WaitForBuffer, Woken, Closed, vars, bufVars, streamVars, rxVars
  <2>2. wpc' = wpc \/ wpc' # "events"
    BY <1>11 DEF CheckWorker, StartWorker, WorkerStarted, StartTimeout, WaitTimeout, Deinit,
       WorkerJoined, CancelWorker, FreeStream, RXEnv, BeginCall, RequestStop, SpuriousWake,
       WaitForBuffer, Woken, Closed, vars, workerVars
  <2> QED BY <1>1, <2>1, <2>2
<1> QED BY <1>2, <1>3, <1>4, <1>5, <1>6, <1>7, <1>8, <1>9, <1>10, <1>11
    DEF RXNext, RXWorker, RXCaller

\* sync_init leaves the ring in shape, and every step keeps it so.
LEMMA RingInvHolds == RXSpec => [](RXInv /\ RingInv)
<1>1. RXInit => RXInv /\ RingInv
  <2> SUFFICES ASSUME RXInit PROVE RXInv /\ RingInv
    OBVIOUS
  <2>1. RXInv
    BY RXInvInit
  <2>2. Fresh
    BY DEF RXInit, Fresh
  <2>3. RunsOnce /\ TransfersAt(0)
    BY <2>2 DEF RXInit, SharedInit, RunsOnce, TransfersAt
  <2>4. RingAt(0) /\ 0 \in Room
    BY <2>2, FreshRing, SyncAssumption DEF Room
  <2> QED BY <2>1, <2>3, <2>4 DEF RingInv
<1>2. RXInv /\ RingInv /\ [RXNext]_vars => RXInv' /\ RingInv'
  <2> SUFFICES ASSUME RXInv, RingInv, [RXNext]_vars PROVE RXInv' /\ RingInv'
    OBVIOUS
  <2>1. RXInv'
    BY RXInvPreserved
  <2>2. ASSUME faults' = 0, late' = 0
        PROVE  RunsOnce' /\ \E u \in Room : RingAt(u)' /\ TransfersAt(u)'
    <3>1. /\ RXTypeOK /\ faults = 0 /\ late = 0 /\ Safe /\ NoneMissing /\ RunsOnce
      BY <2>2, FaultsGrow, LateGrows DEF RXInv, RingInv
    <3>2. PICK u \in Room : RingAt(u) /\ TransfersAt(u)
      BY <3>1 DEF RingInv
    <3>3. \E v \in Room : RingAt(v)' /\ TransfersAt(v)'
      BY <2>2, <3>1, <3>2, RingStep
    <3>4. CASE RXWorker
      BY <2>2, <3>1, <3>3, <3>4, RunsOnceWorker
    <3>5. CASE RXCaller \/ RXEnv
      BY <3>1, <3>3, <3>5, RunsOnceCaller
    <3>6. CASE Closed \/ UNCHANGED vars
      <4>1. RunsOnce'
        BY <3>1, <3>6 DEF Closed, vars, bufVars, workerVars, streamVars, rxVars, RunsOnce, Fresh
      <4> QED BY <3>3, <4>1
    <3> QED BY <3>4, <3>5, <3>6 DEF RXNext
  <2> QED BY <2>1, <2>2 DEF RingInv, Room
<1> QED BY <1>1, <1>2, PTL DEF RXSpec

-----------------------------------------------------------------------------
(* The queue.                                                              *)

\* 1 when the caller has begun the first buffer.
Begun == IF status[cons_i] = "PARTIAL" THEN 1 ELSE 0

\* The blocks that wait for the caller.
Waiting(u) == [k \in 1 .. u - Begun |-> data[At(cons_i, Begun + (k - 1))]]

\* The unread blocks are those of the u buffers that are the caller's.
Queued ==
    \A u \in Room : RXTypeOK /\ RingAt(u) =>
        /\ Unread = Waiting(u)
        /\ Begun \in {0, 1} /\ Begun <= u
        /\ Waiting(u) \in Seq(0 .. NoBlock) /\ Len(Waiting(u)) = u - Begun

\* The refinement mapping finds them.
LEMMA UnreadIsWaiting == Queued
<1> SUFFICES ASSUME NEW u \in Room, RXTypeOK, RingAt(u)
             PROVE  /\ Unread = Waiting(u)
                    /\ Begun \in {0, 1} /\ Begun <= u
                    /\ Waiting(u) \in Seq(0 .. NoBlock) /\ Len(Waiting(u)) = u - Begun
  BY DEF Queued
<1> USE SyncAssumption
<1>1. /\ u \in Nat /\ u < NumBuffers /\ cons_i \in Buffers
      /\ u = 0 => status[cons_i] = "IN_FLIGHT"
      /\ status[At(cons_i, u)] = "IN_FLIGHT"
  BY RingFacts
<1>2. Begun \in {0, 1} /\ Begun <= u /\ u - Begun \in 0 .. NumBuffers - 1
  BY <1>1 DEF Begun
<1>3. \A j \in 0 .. NumBuffers - 1 : (FirstUnread + j) % NumBuffers = At(cons_i, Begun + j)
  <2>1. CASE status[cons_i] = "PARTIAL"
    <3>1. FirstUnread = NextBuffer(cons_i) /\ FirstUnread \in Buffers /\ Begun = 1
      BY <1>1, <2>1, NextBufferType DEF FirstUnread, Begun
    <3>2. \A j \in 0 .. NumBuffers - 1 : (FirstUnread + j) % NumBuffers = At(cons_i, j + 1)
      BY <1>1, <3>1, Places2
    <3>3. \A j \in 0 .. NumBuffers - 1 : j + 1 = 1 + j
      OBVIOUS
    <3> QED BY <3>1, <3>2, <3>3
  <2>2. CASE status[cons_i] # "PARTIAL"
    <3>1. FirstUnread = cons_i /\ Begun = 0
      BY <2>2 DEF FirstUnread, Begun
    <3>2. \A j \in 0 .. NumBuffers - 1 : 0 + j = j
      OBVIOUS
    <3> QED BY <1>1, <3>1, <3>2, Places2
  <2> QED BY <2>1, <2>2
<1> DEFINE at(k) == (FirstUnread + k) % NumBuffers
           End(k) == /\ \A j \in 0 .. k - 1 : status[at(j)] = "FULL"
                     /\ k = NumBuffers \/ status[at(k)] # "FULL"
           m == u - Begun
<1>4. /\ \A j \in 0 .. m - 1 : status[at(j)] = "FULL"
      /\ status[at(m)] # "FULL"
  <2>1. ASSUME NEW j \in 0 .. m - 1
        PROVE  status[at(j)] = "FULL"
    <3>1. j \in 0 .. NumBuffers - 1 /\ Begun + j \in 0 .. NumBuffers - 1 /\ Begun + j < u
      BY <1>1, <1>2
    <3>2. at(j) = At(cons_i, Begun + j)
      BY <1>3, <3>1
    <3>3. \/ status[At(cons_i, Begun + j)] = "FULL"
          \/ Begun + j = 0 /\ status[At(cons_i, Begun + j)] = "PARTIAL"
      BY <3>1 DEF RingAt
    <3>4. Begun + j = 0 => status[At(cons_i, Begun + j)] # "PARTIAL"
      <4> SUFFICES ASSUME Begun + j = 0 PROVE status[At(cons_i, 0)] # "PARTIAL"
        OBVIOUS
      <4>1. Begun = 0 /\ At(cons_i, 0) = cons_i
        BY <1>1, <1>2, Places
      <4> QED BY <4>1 DEF Begun
    <3> QED BY <3>2, <3>3, <3>4
  <2>2. at(m) = At(cons_i, u)
    <3>1. Begun + m = u
      BY <1>1, <1>2
    <3> QED BY <1>2, <1>3, <3>1
  <2> QED BY <1>1, <2>1, <2>2
<1>5. m \in 0 .. NumBuffers /\ End(m)
  BY <1>2, <1>4
<1>6. \A k \in 0 .. NumBuffers : End(k) => k = m
  <2> SUFFICES ASSUME NEW k \in 0 .. NumBuffers, End(k), k # m PROVE FALSE
    OBVIOUS
  <2>0. m \in 0 .. NumBuffers - 1
    BY <1>2
  <2> HIDE DEF m, at
  <2>1. CASE k < m
    BY <1>4, <2>0, <2>1
  <2>2. CASE k > m
    BY <1>4, <2>0, <2>2
  <2> QED BY <2>0, <2>1, <2>2
<1>7. (CHOOSE k \in 0 .. NumBuffers : End(k)) = m
  <2> HIDE DEF m, End
  <2> QED BY <1>5, <1>6
<1>8. Unread = [k \in 1 .. m |-> data[at(k - 1)]]
  BY <1>7 DEF Unread
<1>9. \A k \in 1 .. m : at(k - 1) = At(cons_i, Begun + (k - 1))
  BY <1>2, <1>3
<1>10. Unread = Waiting(u)
  BY <1>8, <1>9 DEF Waiting
<1>11. \A k \in 1 .. m : data[At(cons_i, Begun + (k - 1))] \in 0 .. NoBlock
  <2>1. \A k \in 1 .. m : Begun + (k - 1) \in 0 .. NumBuffers
    BY <1>1, <1>2
  <2>2. \A k \in 1 .. m : At(cons_i, Begun + (k - 1)) \in Buffers
    BY <1>1, <2>1, Places
  <2> QED BY <2>2 DEF RXTypeOK
<1>12. Waiting(u) \in Seq(0 .. NoBlock) /\ Len(Waiting(u)) = u - Begun
  <2>1. m \in Nat
    BY <1>2
  <2> HIDE DEF m
  <2>2. /\ [k \in 1 .. m |-> data[At(cons_i, Begun + (k - 1))]] \in Seq(0 .. NoBlock)
        /\ Len([k \in 1 .. m |-> data[At(cons_i, Begun + (k - 1))]]) = m
    BY <1>11, <2>1
  <2> QED BY <2>2 DEF Waiting, m
<1> QED BY <1>2, <1>10, <1>12

\* The same after a step.
LEMMA UnreadIsWaitingNext ==
  ASSUME NEW v \in Room, RXTypeOK', RingAt(v)'
  PROVE  /\ Unread' = Waiting(v)'
         /\ Begun' \in {0, 1} /\ Begun' <= v
         /\ Waiting(v)' \in Seq(0 .. NoBlock) /\ Len(Waiting(v))' = v - Begun'
<1>1. Queued'
  BY UnreadIsWaiting, PTL
<1>2. Room' = Room /\ (0 .. NoBlock)' = 0 .. NoBlock
  BY DEF Room, NoBlock
<1> QED BY <1>1, <1>2 DEF Queued

\* rx_callback puts the block behind the ones that wait.
LEMMA StorePuts ==
  ASSUME RXTypeOK, RXTypeOK', Store,
         NEW u \in Room, u + 1 \in Room, Head(inflight) = At(cons_i, u),
         RingAt(u), RingAt(u + 1)'
  PROVE  /\ Len(Unread) < NumBuffers - NumXfers
         /\ Unread' = Append(Unread, put)
<1> USE SyncAssumption
<1>1. /\ u \in Nat /\ u < NumBuffers /\ cons_i \in Buffers
      /\ status \in [Buffers -> Status] /\ prod_i \in Buffers
      /\ status[prod_i] = "EMPTY"
      /\ u = 0 => status[cons_i] = "IN_FLIGHT"
      /\ u + 1 <= NumBuffers - NumXfers
  BY RingFacts DEF Store, Room
<1> DEFINE m == u - Begun
<1>2. /\ Unread = Waiting(u) /\ Begun \in {0, 1} /\ m \in Nat
      /\ Unread \in Seq(0 .. NoBlock) /\ Len(Unread) = m
  BY <1>1, UnreadIsWaiting DEF Queued
<1>3. Unread' = Waiting(u + 1)'
  BY UnreadIsWaitingNext
<1>4. /\ status' = [status EXCEPT ![At(cons_i, u)] = "FULL", ![prod_i] = "IN_FLIGHT"]
      /\ data' = [data EXCEPT ![At(cons_i, u)] = put]
      /\ cons_i' = cons_i
  BY DEF Store
<1>5. Begun' = Begun
  <2>1. CASE status[cons_i] = "PARTIAL"
    <3>1. u > 0 /\ At(cons_i, u) # cons_i /\ prod_i # cons_i
      BY <1>1, <2>1, Places
    <3> QED BY <1>1, <1>4, <2>1, <3>1 DEF Begun
  <2>2. CASE status[cons_i] # "PARTIAL"
    <3>1. status'[cons_i] # "PARTIAL"
      BY <1>1, <1>4, <2>2
    <3> QED BY <1>4, <2>2, <3>1 DEF Begun
  <2> QED BY <2>1, <2>2
<1>6. (u + 1) - Begun = m + 1
  BY <1>1, <1>2
<1>7. Unread' = [k \in 1 .. m + 1 |-> data'[At(cons_i, Begun + (k - 1))]]
  BY <1>3, <1>4, <1>5, <1>6 DEF Waiting
<1>8. \A k \in 1 .. m + 1 :
         data'[At(cons_i, Begun + (k - 1))] =
            IF k = m + 1 THEN put ELSE data[At(cons_i, Begun + (k - 1))]
  <2> SUFFICES ASSUME NEW k \in 1 .. m + 1
               PROVE  data'[At(cons_i, Begun + (k - 1))] =
                         IF k = m + 1 THEN put ELSE data[At(cons_i, Begun + (k - 1))]
    OBVIOUS
  <2>1. /\ Begun + (k - 1) \in 0 .. NumBuffers - 1
        /\ Begun + (k - 1) = u <=> k = m + 1
    BY <1>1, <1>2
  <2>2. /\ At(cons_i, Begun + (k - 1)) \in Buffers
        /\ At(cons_i, Begun + (k - 1)) = At(cons_i, u) <=> k = m + 1
    BY <1>1, <2>1, Places
  <2>3. data \in [Buffers -> 0 .. NoBlock]
    BY DEF RXTypeOK
  <2> QED BY <1>4, <2>2, <2>3
<1>9. \A k \in 1 .. m : Unread[k] = data[At(cons_i, Begun + (k - 1))]
  BY <1>2 DEF Waiting
<1>10. put \in 0 .. NoBlock
  BY DEF RXTypeOK, NoBlock, Modulus
<1> HIDE DEF m
<1>11. /\ Append(Unread, put) \in Seq(0 .. NoBlock) /\ Len(Append(Unread, put)) = m + 1
       /\ \A k \in 1 .. m : Append(Unread, put)[k] = Unread[k]
       /\ Append(Unread, put)[m + 1] = put
  BY <1>2, <1>10, AppendProperties
<1>12. Append(Unread, put) = [k \in 1 .. m + 1 |-> Append(Unread, put)[k]]
  BY <1>2, <1>11, LenProperties
<1>13. \A k \in 1 .. m + 1 : data'[At(cons_i, Begun + (k - 1))] = Append(Unread, put)[k]
  <2> SUFFICES ASSUME NEW k \in 1 .. m + 1
               PROVE  data'[At(cons_i, Begun + (k - 1))] = Append(Unread, put)[k]
    OBVIOUS
  <2>1. k = m + 1 \/ k \in 1 .. m
    BY <1>2
  <2>2. k \in 1 .. m => k # m + 1
    BY <1>2
  <2> QED BY <1>8, <1>9, <1>11, <2>1, <2>2
<1>14. Unread' = Append(Unread, put)
  BY <1>7, <1>12, <1>13
<1>15. m < NumBuffers - NumXfers
  BY <1>1, <1>2 DEF m
<1> QED BY <1>2, <1>14, <1>15

\* sync_rx takes the block at the head.
LEMMA BufferReadyGets ==
  ASSUME RXTypeOK, RXTypeOK', BufferReady, status[cons_i] = "FULL",
         NEW u \in Room, u > 0, RingAt(u), RingAt(u)'
  PROVE  Unread # <<>> /\ Unread' = Tail(Unread)
<1>1. u \in Nat /\ cons_i \in Buffers /\ status \in [Buffers -> Status]
  BY RingFacts
<1>2. Begun = 0 /\ Begun' = 1 /\ cons_i' = cons_i /\ data' = data
  BY <1>1 DEF BufferReady, Begun, rxVars
<1>3. /\ Unread = Waiting(u) /\ Unread \in Seq(0 .. NoBlock) /\ Len(Unread) = u
  BY <1>1, <1>2, UnreadIsWaiting DEF Queued
<1>4. Unread # <<>>
  BY <1>3, EmptySeq
<1>5. Unread' = Waiting(u)'
  BY UnreadIsWaitingNext
<1>6. Unread' = [k \in 1 .. u - 1 |-> data[At(cons_i, 1 + (k - 1))]]
  BY <1>2, <1>5 DEF Waiting
<1>7. /\ Tail(Unread) \in Seq(0 .. NoBlock) /\ Len(Tail(Unread)) = u - 1
      /\ \A k \in 1 .. u - 1 : Tail(Unread)[k] = Unread[k + 1]
  BY <1>3, <1>4, HeadTailProperties
<1>8. Tail(Unread) = [k \in 1 .. u - 1 |-> Tail(Unread)[k]]
  BY <1>7, LenProperties
<1>9. \A k \in 1 .. u - 1 : Unread[k + 1] = data[At(cons_i, 1 + (k - 1))]
  <2> SUFFICES ASSUME NEW k \in 1 .. u - 1
               PROVE  Unread[k + 1] = data[At(cons_i, 1 + (k - 1))]
    OBVIOUS
  <2>1. k + 1 \in 1 .. u - Begun /\ Begun + ((k + 1) - 1) = 1 + (k - 1)
    BY <1>1, <1>2
  <2> QED BY <1>3, <2>1 DEF Waiting
<1>10. Unread' = Tail(Unread)
  BY <1>6, <1>7, <1>8, <1>9
<1> QED BY <1>4, <1>10

\* Giving a buffer back changes nothing: its block was taken before.
LEMMA AdvanceStutters ==
  ASSUME RXTypeOK, RXTypeOK', AdvanceRX, status[cons_i] = "PARTIAL",
         NEW u \in Room, u > 0, u - 1 \in Room, RingAt(u), RingAt(u - 1)'
  PROVE  Unread' = Unread
<1> USE SyncAssumption
<1>1. /\ u \in Nat /\ u < NumBuffers /\ cons_i \in Buffers
      /\ status \in [Buffers -> Status] /\ data \in [Buffers -> 0 .. NoBlock]
  BY RingFacts DEF RXTypeOK
<1>2. /\ status' = [status EXCEPT ![cons_i] = "EMPTY"]
      /\ data' = [data EXCEPT ![cons_i] = NoBlock]
      /\ cons_i' = At(cons_i, 1)
      /\ \A j \in 0 .. NumBuffers - 1 : At(cons_i', j) = At(cons_i, j + 1)
  BY <1>1, Places2 DEF AdvanceRX
<1>3. Begun = 1
  BY DEF Begun
<1>4. Begun' = 0
  <2>1. cons_i' \in Buffers /\ cons_i' # cons_i
    BY <1>1, <1>2, Places
  <2>2. status[cons_i'] # "PARTIAL"
    BY <1>1, <1>2 DEF RingAt
  <2> QED BY <1>1, <1>2, <2>1, <2>2 DEF Begun
<1>5. Unread = [k \in 1 .. u - 1 |-> data[At(cons_i, 1 + (k - 1))]]
  BY <1>3, UnreadIsWaiting DEF Queued, Waiting
<1>6. Unread' = [k \in 1 .. u - 1 |-> data'[At(cons_i', 0 + (k - 1))]]
  <2>1. Unread' = Waiting(u - 1)'
    BY UnreadIsWaitingNext
  <2>2. (u - 1) - 0 = u - 1
    BY <1>1
  <2> QED BY <1>4, <2>1, <2>2 DEF Waiting
<1>7. \A k \in 1 .. u - 1 : data'[At(cons_i', 0 + (k - 1))] = data[At(cons_i, 1 + (k - 1))]
  <2> SUFFICES ASSUME NEW k \in 1 .. u - 1
               PROVE  data'[At(cons_i', 0 + (k - 1))] = data[At(cons_i, 1 + (k - 1))]
    OBVIOUS
  <2>1. /\ 0 + (k - 1) \in 0 .. NumBuffers - 1 /\ (0 + (k - 1)) + 1 = 1 + (k - 1)
        /\ 1 + (k - 1) \in 0 .. NumBuffers - 1 /\ 1 + (k - 1) # 0
    BY <1>1
  <2>2. At(cons_i, 1 + (k - 1)) \in Buffers /\ At(cons_i, 1 + (k - 1)) # cons_i
    BY <1>1, <2>1, Places
  <2> QED BY <1>1, <1>2, <2>1, <2>2
<1> QED BY <1>5, <1>6, <1>7

\* bladerf_sync_rx is a bounded queue of blocks: until the first transfer fails
\* or a time-out fires on a slow worker, every block that rx_callback accepts
\* is read by sync_rx once and in the order of acceptance, and no step but
\* these two changes what waits.
THEOREM RXImplementsFifo == RXSpec => RXIsFifo
<1>1. RXInit => Fifo!FifoInit
  <2> SUFFICES ASSUME RXInit PROVE Fifo!FifoInit
    OBVIOUS
  <2>1. Fresh /\ RXTypeOK /\ 0 \in Room
    BY RXTypesInit, SyncAssumption DEF RXInit, Fresh, Room
  <2>2. RingAt(0)
    BY <2>1, FreshRing
  <2>3. Unread \in Seq(0 .. NoBlock) /\ Len(Unread) = 0 - Begun /\ Begun \in {0, 1} /\ Begun <= 0
    BY <2>1, <2>2, UnreadIsWaiting DEF Queued
  <2>4. Len(Unread) = 0
    BY <2>3
  <2>5. Unread = <<>>
    BY <2>3, <2>4, EmptySeq
  <2> QED BY <2>5 DEF RXInit, SharedInit, Fifo!FifoInit
<1>2. RXInv /\ RXInv' /\ RingInv /\ [RXNext]_vars => [Fifo!FifoNext]_(Fifo!fifoVars)
  <2> SUFFICES ASSUME RXInv, RXInv', RingInv, [RXNext]_vars
               PROVE  [Fifo!FifoNext]_(Fifo!fifoVars)
    OBVIOUS
  <2>0. RXTypeOK /\ RXTypeOK' /\ faults' \in Nat /\ late' \in Nat
    <3>1. RXTypeOK /\ RXTypeOK'
      BY DEF RXInv
    <3>2. faults' \in Nat /\ late' \in Nat
      BY <3>1, SyncAssumption DEF RXTypeOK, SharedTypeOK
    <3> QED BY <3>1, <3>2
  <2>1. CASE faults' > 0 \/ late' > 0
    BY <2>1 DEF Fifo!FifoNext, Fifo!Break
  <2>2. CASE faults' = 0 /\ late' = 0
    <3>1. faults = 0 /\ late = 0 /\ Safe /\ NoneMissing /\ RunsOnce
      BY <2>0, <2>2, FaultsGrow, LateGrows DEF RXInv, RingInv
    <3>2. PICK u \in Room : RingAt(u) /\ TransfersAt(u)
      BY <3>1 DEF RingInv
    <3>3. PICK v \in Room :
            /\ RingAt(v)' /\ TransfersAt(v)'
            /\ \/ Store /\ v = u + 1 /\ Head(inflight) = At(cons_i, u)
               \/ BufferReady /\ v = u /\ u > 0 /\ status[cons_i] = "FULL"
               \/ /\ AdvanceRX /\ put' = put
                  /\ v = u - 1 /\ u > 0 /\ status[cons_i] = "PARTIAL"
               \/ UNCHANGED <<status, cons_i, data, put>>
      BY <2>0, <2>2, <3>1, <3>2, RingStep
    <3>4. /\ ~(faults > 0 \/ late > 0)
          /\ (faults' > 0 \/ late' > 0) = (faults > 0 \/ late > 0)
      BY <2>2, <3>1
    <3>5. CASE Store /\ v = u + 1 /\ Head(inflight) = At(cons_i, u)
      <4>1. Len(Unread) < NumBuffers - NumXfers /\ Unread' = Append(Unread, put)
        BY <2>0, <3>2, <3>3, <3>5, StorePuts
      <4>2. put' = (put + 1) % Modulus
        BY <3>5 DEF Store
      <4> QED BY <3>4, <4>1, <4>2 DEF Fifo!FifoNext, Fifo!Put
    <3>6. CASE BufferReady /\ v = u /\ u > 0 /\ status[cons_i] = "FULL"
      <4>1. Unread # <<>> /\ Unread' = Tail(Unread)
        BY <2>0, <3>2, <3>3, <3>6, BufferReadyGets
      <4>2. put' = put
        BY <3>6 DEF BufferReady, rxVars
      <4> QED BY <3>4, <4>1, <4>2 DEF Fifo!FifoNext, Fifo!Get
    <3>7. CASE AdvanceRX /\ put' = put /\ v = u - 1 /\ u > 0 /\ status[cons_i] = "PARTIAL"
      <4>1. Unread' = Unread
        BY <2>0, <3>2, <3>3, <3>7, AdvanceStutters
      <4> QED BY <3>4, <3>7, <4>1 DEF Fifo!fifoVars
    <3>8. CASE UNCHANGED <<status, cons_i, data, put>>
      <4>1. Unread' = Unread
        BY <3>8 DEF Unread, FirstUnread
      <4> QED BY <3>4, <3>8, <4>1 DEF Fifo!fifoVars
    <3> QED BY <3>3, <3>5, <3>6, <3>7, <3>8
  <2>3. (faults' > 0 \/ late' > 0) \/ (faults' = 0 /\ late' = 0)
    BY <2>0
  <2> QED BY <2>1, <2>2, <2>3
<1> QED BY <1>1, <1>2, RingInvHolds, PTL DEF RXSpec, RXIsFifo, Fifo!FifoSpec
===============================================================================
