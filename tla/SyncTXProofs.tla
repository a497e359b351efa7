----------------------------- MODULE SyncTXProofs -----------------------------
(***************************************************************************)
(* Proofs about bladerf_sync_tx, for every size of the ring, every number  *)
(* of transfers below it, and any number of faults, deferrals and retries. *)
(***************************************************************************)
EXTENDS SyncTX, SyncWorkerProofs, FiniteSetTheorems

-----------------------------------------------------------------------------
(* The blocks that wait for USB.                                           *)

\* A ring has no room for more blocks than it has buffers.
LEMMA OnceLen ==
  ASSUME NEW seq \in Seq(Buffers), Once(seq)
  PROVE  Len(seq) <= NumBuffers
<1>1. /\ Len(seq) \in Nat /\ seq \in [1 .. Len(seq) -> Buffers]
      /\ DOMAIN seq = 1 .. Len(seq)
  BY LenProperties
<1>2. seq \in Injection(1 .. Len(seq), Buffers)
  BY <1>1 DEF Once, Injection, IsInjective
<1>3. IsFiniteSet(Buffers) /\ Cardinality(Buffers) = NumBuffers
  BY FS_Interval, SyncAssumption DEF Buffers
<1>4. Cardinality(1 .. Len(seq)) = Len(seq)
  BY <1>1, FS_Interval
<1> QED BY <1>2, <1>3, <1>4, FS_Injection

\* A block that waits has a place in the queue.
LEMMA PositionType ==
  ASSUME NEW b \in SetOf(unsent), unsent \in Seq(Buffers)
  PROVE  /\ Len(unsent) \in Nat /\ DOMAIN unsent = 1 .. Len(unsent)
         /\ \A k \in 1 .. Len(unsent) : unsent[k] \in Buffers
         /\ Position(b) \in 1 .. Len(unsent)
         /\ unsent[Position(b)] = b
<1>1. /\ Len(unsent) \in Nat /\ DOMAIN unsent = 1 .. Len(unsent)
      /\ \A k \in 1 .. Len(unsent) : unsent[k] \in Buffers
  BY LenProperties
<1>2. \E k \in DOMAIN unsent : unsent[k] = b
  BY DEF SetOf
<1>3. Position(b) \in DOMAIN unsent /\ unsent[Position(b)] = b
  BY <1>2 DEF Position
<1> QED BY <1>1, <1>3

\* A part of the queue has no block twice and no other block.
LEMMA SubSeqMembers ==
  ASSUME unsent \in Seq(Buffers), Once(unsent), NEW m \in 1 .. Len(unsent) + 1,
         NEW n \in 0 .. Len(unsent)
  PROVE  /\ SubSeq(unsent, m, n) \in Seq(Buffers)
         /\ Len(SubSeq(unsent, m, n)) = IF m <= n THEN n - m + 1 ELSE 0
         /\ \A k \in 1 .. Len(SubSeq(unsent, m, n)) :
               /\ SubSeq(unsent, m, n)[k] = unsent[m + k - 1]
               /\ m + k - 1 \in 1 .. Len(unsent) /\ m + k - 1 <= n
         /\ Once(SubSeq(unsent, m, n))
<1>1. /\ Len(unsent) \in Nat /\ DOMAIN unsent = 1 .. Len(unsent)
      /\ \A k \in 1 .. Len(unsent) : unsent[k] \in Buffers
  BY LenProperties
<1>2. /\ m \in Int /\ n \in Int
      /\ \A k \in m .. n : k \in 1 .. Len(unsent)
  BY <1>1
<1> DEFINE sub == SubSeq(unsent, m, n)
<1>3. /\ sub \in Seq(Buffers)
      /\ Len(sub) = IF m <= n THEN n - m + 1 ELSE 0
      /\ \A k \in 1 .. n - m + 1 : sub[k] = unsent[m + k - 1]
  BY <1>1, <1>2, SubSeqProperties
<1>4. \A k \in 1 .. Len(sub) :
          sub[k] = unsent[m + k - 1] /\ m + k - 1 \in 1 .. Len(unsent) /\ m + k - 1 <= n
  <2> HIDE DEF sub
  <2> QED BY <1>1, <1>2, <1>3
<1>5. Once(sub)
  <2>1. DOMAIN sub = 1 .. Len(sub) /\ Len(sub) \in Nat
    BY <1>3, LenProperties
  <2> HIDE DEF sub
  <2>2. ASSUME NEW j \in 1 .. Len(sub), NEW k \in 1 .. Len(sub), sub[j] = sub[k]
        PROVE  j = k
    <3>1. /\ m + j - 1 \in 1 .. Len(unsent) /\ m + k - 1 \in 1 .. Len(unsent)
          /\ unsent[m + j - 1] = unsent[m + k - 1]
      BY <1>4, <2>2
    <3>2. m + j - 1 = m + k - 1
      BY <1>1, <3>1 DEF Once
    <3> QED BY <1>2, <2>1, <3>2
  <2> QED BY <2>1, <2>2 DEF Once
<1> QED BY <1>3, <1>4, <1>5

\* A complete block is at the end of the queue, and no other block is lost.
LEMMA FilledMembers ==
  ASSUME unsent \in Seq(Buffers), Once(unsent), NEW b \in Buffers
  PROVE  /\ Filled(b) \in Seq(Buffers) /\ Once(Filled(b))
         /\ SetOf(Filled(b)) = SetOf(unsent) \cup {b}
<1>1. CASE b \notin SetOf(unsent)
  BY <1>1, AppendMembers, AppendProperties DEF Filled, SetOf, Members
<1>2. CASE b \in SetOf(unsent)
  <2> DEFINE p == Position(b)  n == Len(unsent)
             before == SubSeq(unsent, 1, p - 1)  after == SubSeq(unsent, p + 1, n)
             rest == before \o after
  <2>1. /\ n \in Nat /\ DOMAIN unsent = 1 .. n /\ p \in 1 .. n /\ unsent[p] = b
    BY <1>2, PositionType
  <2>2. /\ before \in Seq(Buffers) /\ Len(before) = p - 1
        /\ \A k \in 1 .. p - 1 : before[k] = unsent[k]
    <3>1. p - 1 \in 0 .. n /\ 1 \in 1 .. n + 1
      BY <2>1
    <3> HIDE DEF p
    <3> QED BY <2>1, <3>1, SubSeqMembers
  <2>3. /\ after \in Seq(Buffers) /\ Len(after) = n - p
        /\ \A k \in 1 .. n - p : after[k] = unsent[p + k]
    <3>1. p + 1 \in 1 .. n + 1 /\ n \in 0 .. n
      BY <2>1
    <3> HIDE DEF p
    <3> QED BY <2>1, <3>1, SubSeqMembers
  <2> HIDE DEF p, before, after
  <2>4. /\ rest \in Seq(Buffers) /\ Len(rest) = n - 1 /\ DOMAIN rest = 1 .. n - 1
        /\ \A k \in 1 .. n - 1 : rest[k] = IF k <= p - 1 THEN unsent[k] ELSE unsent[k + 1]
    <3>1. /\ rest \in Seq(Buffers) /\ Len(rest) = Len(before) + Len(after)
          /\ \A k \in 1 .. Len(before) + Len(after) : rest[k] =
                IF k <= Len(before) THEN before[k] ELSE after[k - Len(before)]
      BY <2>2, <2>3, ConcatProperties
    <3> HIDE DEF rest
    <3>2. DOMAIN rest = 1 .. Len(rest)
      BY <3>1, LenProperties
    <3>3. ASSUME NEW k \in 1 .. n - 1
          PROVE  rest[k] = IF k <= p - 1 THEN unsent[k] ELSE unsent[k + 1]
      <4>1. CASE k <= p - 1
        <5>1. k \in 1 .. p - 1 /\ k \in 1 .. Len(before) + Len(after) /\ k <= Len(before)
          BY <2>1, <2>2, <2>3, <4>1
        <5>2. rest[k] = before[k]
          BY <3>1, <5>1
        <5> QED BY <2>2, <4>1, <5>1, <5>2
      <4>2. CASE k > p - 1
        <5>1. k - (p - 1) \in 1 .. n - p /\ p + (k - (p - 1)) = k + 1
          BY <2>1, <4>2
        <5>2. rest[k] = after[k - (p - 1)]
          BY <2>1, <2>2, <2>3, <3>1, <4>2
        <5> QED BY <2>1, <2>3, <4>2, <5>1, <5>2
      <4> QED BY <2>1, <4>1, <4>2
    <3> QED BY <2>1, <2>2, <2>3, <3>1, <3>2, <3>3
  <2> HIDE DEF rest
  <2>5. Once(rest) /\ b \notin Members(rest)
    <3>1. \A k \in 1 .. n - 1 : \E i \in 1 .. n :
              i = (IF k <= p - 1 THEN k ELSE k + 1) /\ i # p /\ rest[k] = unsent[i]
      BY <2>1, <2>4
    <3>2. \A i \in 1 .. n : unsent[i] = b => i = p
      BY <2>1 DEF Once
    <3>3. b \notin Members(rest)
      BY <2>4, <3>1, <3>2 DEF Members
    <3>4. ASSUME NEW j \in 1 .. n - 1, NEW k \in 1 .. n - 1, rest[j] = rest[k]
          PROVE  j = k
      <4>1. (IF j <= p - 1 THEN j ELSE j + 1) = (IF k <= p - 1 THEN k ELSE k + 1)
        BY <2>1, <3>1, <3>4 DEF Once
      <4> QED BY <2>1, <4>1
    <3> QED BY <2>4, <3>3, <3>4 DEF Once
  <2>6. Members(rest) \cup {b} = SetOf(unsent)
    <3>1. Members(rest) \cup {b} \subseteq SetOf(unsent)
      BY <2>1, <2>4 DEF SetOf, Members
    <3>2. ASSUME NEW k \in 1 .. n PROVE unsent[k] \in Members(rest) \cup {b}
      <4>1. CASE k < p
        BY <2>1, <2>4, <4>1 DEF Members
      <4>2. CASE k > p
        <5>1. k - 1 \in 1 .. n - 1 /\ rest[k - 1] = unsent[k]
          BY <2>1, <2>4, <4>2
        <5> QED BY <2>4, <5>1 DEF Members
      <4> QED BY <2>1, <4>1, <4>2
    <3> QED BY <2>1, <3>1, <3>2 DEF SetOf
  <2>7. Filled(b) = rest \o <<b>> /\ rest \o <<b>> = Append(rest, b)
    <3>1. Filled(b) = rest \o <<b>>
      BY <1>2 DEF Filled, rest, before, after, p
    <3>2. rest \o <<b>> = Append(rest, b)
      BY <2>4
    <3> QED BY <3>1, <3>2
  <2>8. /\ Append(rest, b) \in Seq(Buffers) /\ Once(Append(rest, b))
        /\ Members(Append(rest, b)) = Members(rest) \cup {b}
    BY <2>4, <2>5, AppendMembers, AppendProperties
  <2> QED BY <2>6, <2>7, <2>8 DEF Members, SetOf
<1> QED BY <1>1, <1>2

\* A block that USB has taken leaves the queue with those before it.
LEMMA HandedMembers ==
  ASSUME unsent \in Seq(Buffers), Once(unsent), NEW b
  PROVE  Handed(b) \in Seq(Buffers) /\ Once(Handed(b))
<1>1. CASE b \in SetOf(unsent)
  <2>1. Position(b) + 1 \in 1 .. Len(unsent) + 1 /\ Len(unsent) \in 0 .. Len(unsent)
    BY <1>1, PositionType
  <2> QED BY <1>1, <2>1, SubSeqMembers DEF Handed
<1> QED BY <1>1 DEF Handed

-----------------------------------------------------------------------------
(* The steps that sync_tx shares with sync_rx leave the ring alone.        *)

\* The caller is in advance_tx_buffer.
Submitting == {"submit", "submitting", "submitted", "defer", "failed"}

WorkerStep == WorkerControl \/ TransferEnds(Held) \/ CallbackStops(Held)
CallerStep ==
    \/ CheckWorker("START_WORKER") \/ StartWorker \/ WorkerStarted
    \/ StartTimeout \/ WaitTimeout \/ RequestStop("shutdown") \/ Deinit
    \/ BeginCall \/ SpuriousWake

\* The worker only ends transfers and wakes the caller.
LEMMA WorkerFrame ==
  ASSUME WorkerStep
  PROVE  /\ UNCHANGED <<bufVars, state, left, timed, late>>
         /\ apc' = apc \/ (apc = "waiting" /\ apc' = "woken")
         /\ inflight' = inflight \/ (inflight # <<>> /\ inflight' = Tail(inflight))
<1>1. CASE WorkerControl
  BY <1>1 DEF WorkerControl, ExecIdle, ExecShutdown, RunStream, StreamEnds, SaveResult,
     WakeCaller, SignalBufReady, ReturnToIdle, apiVars, streamVars
<1>2. CASE TransferEnds(Held) \/ CallbackStops(Held)
  BY <1>2 DEF TransferEnds, CallbackStops, ShutDown, apiVars
<1> QED BY <1>1, <1>2 DEF WorkerStep

\* The caller is outside of advance_tx_buffer, before and after.
LEMMA CallerFrame ==
  ASSUME CallerStep
  PROVE  /\ UNCHANGED <<bufVars, streamVars, faults>>
         /\ apc \notin Submitting /\ apc' \notin Submitting
         /\ state' \in {state, "START_WORKER", "WAIT_FOR_BUFFER"}
         /\ state' = state \/ state = "CHECK_WORKER" \/ apc = "starting"
         /\ apc' = "starting" => state' = "START_WORKER"
<1> USE DEF Submitting
<1>1. CASE CheckWorker("START_WORKER")
  BY <1>1 DEF CheckWorker, Return
<1>2. CASE StartWorker \/ WorkerStarted \/ BeginCall \/ SpuriousWake
  BY <1>2 DEF StartWorker, WorkerStarted, BeginCall, SpuriousWake
<1>3. CASE StartTimeout
  BY <1>3 DEF StartTimeout, Return
<1>4. CASE WaitTimeout
  BY <1>4 DEF WaitTimeout, Return
<1>5. CASE RequestStop("shutdown")
  BY <1>5 DEF RequestStop
<1>6. CASE Deinit
  BY <1>6 DEF Deinit, WorkerJoined, CancelWorker, FreeStream
<1> QED BY <1>1, <1>2, <1>3, <1>4, <1>5, <1>6 DEF CallerStep

-----------------------------------------------------------------------------
(* Types, and the number of transfers.                                     *)

\* A transfer is free for the one the caller has taken, and a submitting
\* callback knows its buffer.
Slots ==
    /\ Held => Len(inflight) < NumXfers
    /\ submitter = "CALLBACK" => cons_i # Invalid

Base == TXTypeOK /\ Once(unsent) /\ Slots

\* The steps shared with sync_rx.
LEMMA BaseShared ==
  ASSUME Base, WorkerStep \/ CallerStep, UNCHANGED txVars
  PROVE  Base'
<1>0. SharedTypeOK /\ inflight \in Seq(Buffers) /\ Len(inflight) \in Nat
  BY LenProperties DEF Base, TXTypeOK, SharedTypeOK
<1>1. SharedTypeOK'
  BY <1>0, WorkerControlTypes, TransferTypes, CallerTypes DEF WorkerStep, CallerStep
<1>2. UNCHANGED cons_i
  BY WorkerFrame, CallerFrame DEF bufVars
<1>3. TXTypeOK' /\ Once(unsent)'
  BY <1>1, <1>2 DEF Base, TXTypeOK, txVars
<1>4. Slots'
  <2>1. CASE WorkerStep
    <3>1. Held' = Held
      BY <2>1, WorkerFrame DEF Held
    <3>2. Len(inflight') <= Len(inflight)
      BY <1>0, <2>1, WorkerFrame, TailType
    <3>3. Len(inflight') \in Nat
      BY <1>1, LenProperties DEF SharedTypeOK
    <3> QED BY <1>0, <1>2, <3>1, <3>2, <3>3, SyncAssumption DEF Base, Slots, txVars, Invalid
  <2>2. CASE CallerStep
    <3>1. ~Held'
      BY <2>2, CallerFrame DEF Held, Submitting
    <3> QED BY <1>2, <3>1 DEF Base, Slots, txVars, Invalid
  <2> QED BY <2>1, <2>2
<1> QED BY <1>3, <1>4 DEF Base

\* exec_idle_state, lusb_stream and tx_callback.
LEMMA BaseWorker ==
  ASSUME Base, Prepare \/ SetupTransfers \/ Sent \/ SentDeferred \/ SentLast
  PROVE  Base'
<1> USE SyncAssumption
<1>0. /\ SharedTypeOK /\ status \in [Buffers -> Status]
      /\ prod_i \in Buffers /\ cons_i \in Buffers \cup {Invalid}
      /\ inflight \in Seq(Buffers) /\ Len(inflight) \in Nat
  BY LenProperties DEF Base, TXTypeOK, SharedTypeOK
<1>1. CASE Prepare
  <2>1. status' \in [Buffers -> Status] /\ apc' \in ApiPoints /\ (apc' = "submitting") = Held
    BY <1>0, <1>1 DEF Prepare, SignalBufReady, Status, SharedTypeOK, ApiPoints, InCall, Held
  <2>2. TXTypeOK' /\ Once(unsent)'
    BY <1>1, <2>1 DEF Prepare, Base, TXTypeOK, SharedTypeOK, WorkerPoints, streamVars, txVars
  <2> QED BY <1>1, <2>1, <2>2 DEF Prepare, Base, Slots, Held, Invalid, streamVars, txVars
<1>2. CASE SetupTransfers
  BY <1>2 DEF SetupTransfers, Base, TXTypeOK, SharedTypeOK, WorkerPoints, Slots, Held, Invalid,
     bufVars, apiVars, txVars
<1>3. ASSUME Completes, SignalBufReady
      PROVE  /\ Head(inflight) \in Buffers /\ Tail(inflight) \in Seq(Buffers)
             /\ Len(Tail(inflight)) < NumXfers
             /\ apc' \in ApiPoints /\ (Held' <=> Held)
             /\ Len(Tail(inflight)) = Len(inflight) - 1
  BY <1>0, <1>3, TailType DEF Completes, SignalBufReady, SharedTypeOK, ApiPoints, InCall, Held
<1>4. CASE Sent
  <2>1. /\ Head(inflight) \in Buffers /\ inflight' \in Seq(Buffers)
        /\ Len(inflight') < NumXfers /\ Len(inflight') \in Nat
        /\ apc' \in ApiPoints
    BY <1>3, <1>4, LenProperties DEF Sent, NoData
  <2>2. status' \in [Buffers -> Status]
    BY <1>0, <1>4, <2>1 DEF Sent, Status
  <2>3. TXTypeOK' /\ Once(unsent)'
    BY <1>4, <2>1, <2>2 DEF Sent, NoData, Base, TXTypeOK, SharedTypeOK, workerVars, txVars
  <2> QED BY <1>4, <2>1, <2>3 DEF Sent, Base, Slots, Invalid, txVars
<1>5. CASE SentLast
  <2>1. /\ Head(inflight) \in Buffers /\ inflight' \in Seq(Buffers)
        /\ Len(inflight') < NumXfers /\ Len(inflight') \in Nat
        /\ apc' \in ApiPoints
    BY <1>3, <1>5, LenProperties DEF SentLast, NoData
  <2>2. status' \in [Buffers -> Status]
    BY <1>0, <1>5, <2>1 DEF SentLast, Status
  <2>3. TXTypeOK' /\ Once(unsent)'
    BY <1>5, <2>1, <2>2 DEF SentLast, NoData, Base, TXTypeOK, SharedTypeOK, workerVars, Invalid
  <2> QED BY <1>5, <2>1, <2>3 DEF SentLast, Base, Slots
<1>6. CASE SentDeferred
  <2>1. Completes /\ SignalBufReady /\ Resubmit(cons_i, Held) /\ inflight # <<>>
    BY <1>6 DEF SentDeferred, Completes
  <2>2. cons_i \in Buffers /\ NextBuffer(cons_i) \in Buffers
    <3>1. cons_i \in Buffers
      BY <1>0, <1>6 DEF SentDeferred, Base, Slots
    <3> QED BY <3>1, NextBufferType
  <2>3. /\ inflight' \in Seq(Buffers) /\ Len(inflight') <= NumXfers
        /\ cancelled' \subseteq Buffers
        /\ streamState' \in {"IDLE", "RUNNING", "SHUTTING_DOWN", "DONE"}
        /\ error_code' \in {"OK", "ERR"}
        /\ faults' \in 0 .. MaxFaults
    BY <1>0, <2>1, <2>2, ResubmitTypes
  <2>4. Len(inflight') \in Nat /\ Len(inflight') <= Len(inflight)
    <3>1. Len(Append(Tail(inflight), cons_i)) = Len(inflight)
      BY <1>0, <1>3, <2>1, <2>2, AppendProperties
    <3>2. inflight' = Append(Tail(inflight), cons_i) \/ inflight' = Tail(inflight)
      BY <2>1 DEF Resubmit, ShutDown
    <3> QED BY <1>0, <1>3, <2>1, <3>1, <3>2
  <2>5. status' \in [Buffers -> Status] /\ apc' \in ApiPoints /\ (Held' <=> Held)
    BY <1>0, <1>3, <1>6, <2>1, <2>2 DEF SentDeferred, Status
  <2>6. unsent' \in Seq(Buffers) /\ Once(unsent') /\ Len(unsent') <= NumBuffers
    <3>1. unsent' = Handed(cons_i) /\ unsent \in Seq(Buffers) /\ Once(unsent)
      BY <1>6 DEF SentDeferred, Base, TXTypeOK
    <3>2. unsent' \in Seq(Buffers) /\ Once(unsent')
      BY <3>1, HandedMembers
    <3> QED BY <3>2, OnceLen
  <2>7. cons_i' \in Buffers /\ cons_i' # Invalid
    BY <1>6, <2>2 DEF SentDeferred, Invalid, Buffers
  <2>8. TXTypeOK'
    BY <1>6, <2>3, <2>5, <2>6, <2>7 DEF SentDeferred, Base, TXTypeOK, SharedTypeOK, workerVars
  <2>9. Slots'
    BY <1>0, <2>4, <2>5, <2>7 DEF Base, Slots, Invalid
  <2> QED BY <2>6, <2>8, <2>9 DEF Base
<1> QED BY <1>1, <1>2, <1>4, <1>5, <1>6

\* The end of advance_tx_buffer.
LEMMA AdvanceFrame ==
  ASSUME Base, AdvanceTX
  PROVE  /\ prod_i' \in Buffers /\ prod_i' = NextBuffer(prod_i)
         /\ state' \in {"BUFFER_READY", "CHECK_WORKER"}
         /\ state' = "BUFFER_READY" => status'[prod_i'] = "EMPTY"
         /\ apc' \in {"none", "run"} /\ timed' \in BOOLEAN
<1>1. prod_i \in Buffers /\ NextBuffer(prod_i) \in Buffers /\ timed \in BOOLEAN
  BY NextBufferType DEF Base, TXTypeOK, SharedTypeOK
<1>2. apc' \in {"none", "run"}
  BY DEF AdvanceTX
<1>3. timed' \in BOOLEAN
  <2>1. timed' = FALSE \/ timed' = timed
    BY DEF AdvanceTX
  <2> QED BY <1>1, <2>1
<1> QED BY <1>1, <1>2, <1>3 DEF AdvanceTX

\* Filling a buffer.
LEMMA BaseFill ==
  ASSUME Base, FillPartly \/ FillUp
  PROVE  Base'
<1> USE SyncAssumption
<1>0. /\ SharedTypeOK /\ status \in [Buffers -> Status] /\ prod_i \in Buffers
      /\ unsent \in Seq(Buffers) /\ Once(unsent)
  BY DEF Base, TXTypeOK, SharedTypeOK
<1>1. PICK n \in 0 .. SamplesPerBuffer : Copy(n)
  BY DEF FillPartly, FillUp
<1>2. partial_off' \in 0 .. SamplesPerBuffer /\ left' \in Nat
  BY <1>0, <1>1 DEF Copy, SharedTypeOK
<1>3. UNCHANGED <<cons_i, workerVars, streamVars, faults, late, submitter>>
  BY <1>1 DEF Copy
<1>4. CASE FillPartly
  <2>1. apc' = "none" /\ timed' = FALSE /\ UNCHANGED <<status, prod_i, state, unsent>>
    BY <1>4 DEF FillPartly
  <2>2. apc' \in ApiPoints /\ timed' \in BOOLEAN /\ ~Held'
    BY <2>1 DEF ApiPoints, Held
  <2> QED BY <1>2, <1>3, <2>1, <2>2 DEF Base, TXTypeOK, SharedTypeOK, Slots, Invalid, workerVars,
             streamVars
<1>5. CASE FillUp
  <2>1. status' \in [Buffers -> Status]
    BY <1>0, <1>5 DEF FillUp, Status
  <2>2. unsent' \in Seq(Buffers) /\ Once(unsent') /\ Len(unsent') <= NumBuffers
    <3>1. unsent' = unsent \/ unsent' = Filled(prod_i)
      BY <1>5 DEF FillUp
    <3>2. unsent' \in Seq(Buffers) /\ Once(unsent')
      BY <1>0, <3>1, FilledMembers
    <3> QED BY <3>2, OnceLen
  <2>3. /\ prod_i' \in Buffers /\ state' \in States
        /\ apc' \in ApiPoints /\ timed' \in BOOLEAN /\ ~Held'
    <3>1. CASE apc' = "submit" /\ UNCHANGED <<prod_i, state, timed>>
      BY <1>0, <3>1 DEF SharedTypeOK, ApiPoints, InCall, Held
    <3>2. CASE AdvanceTX
      BY <3>2, AdvanceFrame DEF States, ApiPoints, InCall, Held
    <3> QED BY <1>5, <3>1, <3>2 DEF FillUp
  <2> QED BY <1>2, <1>3, <2>1, <2>2, <2>3 DEF Base, TXTypeOK, SharedTypeOK, Slots, Invalid,
             workerVars, streamVars
<1> QED BY <1>4, <1>5

\* The other states of sync_tx, and SHUTDOWN.
LEMMA BaseCaller ==
  ASSUME Base, \/ WaitForBuffer \/ Woken \/ BufferReady \/ Submit \/ SubmitTimeout
               \/ HandOver \/ Submitted \/ Defer \/ SubmitFailed \/ SubmitShutdown
  PROVE  Base'
<1> USE SyncAssumption
<1>0. /\ SharedTypeOK /\ status \in [Buffers -> Status] /\ prod_i \in Buffers
      /\ unsent \in Seq(Buffers) /\ Once(unsent)
      /\ inflight \in Seq(Buffers) /\ Len(inflight) \in Nat /\ Len(inflight) <= NumXfers
  BY LenProperties DEF Base, TXTypeOK, SharedTypeOK
<1>1. CASE WaitForBuffer
  BY <1>1 DEF WaitForBuffer, Base, TXTypeOK, SharedTypeOK, Slots, Held, Invalid, States, ApiPoints,
     InCall, bufVars, workerVars, streamVars, txVars
<1>2. CASE Woken \/ SubmitTimeout
  BY <1>2 DEF Woken, SubmitTimeout, Base, TXTypeOK, SharedTypeOK, Slots, Held, Invalid, ApiPoints,
     InCall, bufVars, workerVars, streamVars, txVars
<1>3. CASE BufferReady
  <2>1. status' \in [Buffers -> Status]
    BY <1>0, <1>3 DEF BufferReady, Status
  <2> QED BY <1>3, <2>1 DEF BufferReady, Base, TXTypeOK, SharedTypeOK, Slots, Held, Invalid, States,
             workerVars, streamVars, txVars
<1>4. CASE Submit
  <2>1. apc' \in ApiPoints /\ (Held' => Len(inflight) < NumXfers)
    BY <1>0, <1>4 DEF Submit, ApiPoints, InCall, Held
  <2> QED BY <1>4, <2>1 DEF Submit, Base, TXTypeOK, SharedTypeOK, Slots, Invalid, bufVars,
             workerVars, streamVars, txVars
<1>5. CASE HandOver
  <2>1. inflight' \in Seq(Buffers) /\ Len(inflight') <= NumXfers
    <3>1. Len(inflight) < NumXfers
      BY <1>5 DEF HandOver, Base, Slots, Held
    <3>2. CASE inflight' = Append(inflight, prod_i)
      BY <1>0, <3>1, <3>2, AppendProperties
    <3> QED BY <1>0, <1>5, <3>2 DEF HandOver
  <2>2. unsent' \in Seq(Buffers) /\ Once(unsent') /\ Len(unsent') <= NumBuffers
    <3>1. unsent' = unsent \/ unsent' = Handed(prod_i)
      BY <1>5 DEF HandOver
    <3>2. unsent' \in Seq(Buffers) /\ Once(unsent')
      BY <1>0, <3>1, HandedMembers
    <3> QED BY <3>2, OnceLen
  <2>3. faults' \in 0 .. MaxFaults
    BY <1>0, <1>5 DEF HandOver, SharedTypeOK
  <2>4. apc' \in ApiPoints /\ ~Held'
    BY <1>5 DEF HandOver, ApiPoints, InCall, Held
  <2> QED BY <1>5, <2>1, <2>2, <2>3, <2>4 DEF HandOver, Base, TXTypeOK, SharedTypeOK, Slots,
             Invalid, bufVars, workerVars
<1>6. CASE Submitted \/ Defer
  <2>1. /\ prod_i' \in Buffers /\ state' \in States
        /\ apc' \in ApiPoints /\ timed' \in BOOLEAN /\ ~Held'
    BY <1>6, AdvanceFrame DEF Submitted, Defer, States, ApiPoints, InCall, Held
  <2>2. status' \in [Buffers -> Status]
    BY <1>0, <1>6 DEF Submitted, Defer, Status
  <2>3. /\ cons_i' \in Buffers \cup {Invalid} /\ submitter' \in {"FN", "CALLBACK"}
        /\ submitter' = "CALLBACK" => cons_i' # Invalid
    BY <1>0, <1>6 DEF Submitted, Defer, Base, TXTypeOK, Slots, txVars, Invalid, Buffers
  <2>4. UNCHANGED <<left, partial_off, workerVars, streamVars, faults, late, unsent>>
    BY <1>6 DEF Submitted, Defer, txVars
  <2> QED BY <2>1, <2>2, <2>3, <2>4 DEF Base, TXTypeOK, SharedTypeOK, Slots, Invalid, workerVars,
             streamVars
<1>7. CASE SubmitFailed
  <2>1. apc' \in ApiPoints /\ left' \in Nat /\ timed' \in BOOLEAN /\ ~Held'
    BY <1>7 DEF SubmitFailed, Return, ApiPoints, Held
  <2>2. status' \in [Buffers -> Status]
    BY <1>0, <1>7 DEF SubmitFailed, Status
  <2> QED BY <1>7, <2>1, <2>2 DEF SubmitFailed, Base, TXTypeOK, SharedTypeOK, Slots, Invalid,
             workerVars, streamVars, txVars
<1>8. CASE SubmitShutdown
  BY <1>8 DEF SubmitShutdown, Base, TXTypeOK, SharedTypeOK, Slots, Held, Invalid, ApiPoints,
     InDeinit, bufVars, workerVars, txVars
<1> QED BY <1>1, <1>2, <1>3, <1>4, <1>5, <1>6, <1>7, <1>8

\* Every step keeps the types and the count of transfers.
LEMMA BasePreserved ==
  ASSUME Base, [TXNext]_vars
  PROVE  Base'
<1>1. CASE TXWorker
  BY <1>1, BaseShared, BaseWorker DEF TXWorker, WorkerStep
<1>2. CASE TXCaller \/ TXEnv
  BY <1>2, BaseShared, BaseFill, BaseCaller DEF TXCaller, TXEnv, CallerStep
<1>3. CASE Closed \/ UNCHANGED vars
  BY <1>3 DEF Closed, vars, bufVars, apiVars, workerVars, streamVars, txVars, Base, TXTypeOK,
     SharedTypeOK, Slots, Held, Invalid
<1> QED BY <1>1, <1>2, <1>3 DEF TXNext

\* sync_init sets up a well-typed ring.
LEMMA BaseInit ==
  ASSUME TXInit
  PROVE  Base
<1>1. status \in [Buffers -> Status] /\ prod_i \in Buffers
  BY SyncAssumption DEF TXInit, Buffers, Status
<1>2. SharedTypeOK
  BY <1>1, SharedInitTypes DEF TXInit
<1>3. unsent \in Seq(Buffers) /\ Len(unsent) <= NumBuffers /\ Once(unsent)
  BY EmptySeq, SyncAssumption DEF TXInit, Once
<1> QED BY <1>2, <1>3 DEF TXInit, SharedInit, Base, TXTypeOK, Slots, Held

\* Type correctness of bladerf_sync_tx: in particular no more than NumXfers
\* transfers are ever out, although the caller takes one, drops the lock and
\* submits it while callbacks submit others.
THEOREM TXTypeCorrect == TXSpec => []TXTypeOK
<1>1. TXInit => Base
  BY BaseInit
<1>2. Base /\ [TXNext]_vars => Base'
  BY BasePreserved
<1>3. Base => TXTypeOK
  BY DEF Base
<1> QED BY <1>1, <1>2, <1>3, PTL DEF TXSpec

-----------------------------------------------------------------------------
(* Order.                                                                  *)

\* A buffer is FULL only when its block still waits, the caller is not about
\* to submit, and it is clear who will take it: the next callback, or the
\* next call of sync_tx.
FullWaits ==
    \A b \in Buffers : status[b] = "FULL" =>
        /\ b \in SetOf(unsent)
        /\ apc \notin Submitting
        /\ \/ submitter = "CALLBACK" /\ b = cons_i
           \/ submitter = "FN" /\ b = prod_i /\ state = "USING_BUFFER"

\* A complete buffer that the caller still holds is its own to submit, and
\* its block waits until it is handed over.
CompleteWaits ==
    state = "USING_BUFFER" /\ partial_off = SamplesPerBuffer =>
        /\ submitter = "FN"
        /\ apc # "submitted" => prod_i \in SetOf(unsent)

\* What the caller's place says of s->state.
CallPoints ==
    /\ apc \in Submitting => state = "USING_BUFFER" /\ partial_off = SamplesPerBuffer
    /\ apc = "starting" => state = "START_WORKER"

\* The caller never fills the buffer it has left to the callback.
NotDeferred == state = "USING_BUFFER" /\ submitter = "CALLBACK" => status[prod_i] # "FULL"

Order == FullWaits /\ CompleteWaits /\ CallPoints /\ NotDeferred

\* The steps shared with sync_rx, and those of the worker that leave FULL
\* buffers and the queue alone.
LEMMA OrderShared ==
  ASSUME Base, Order, WorkerStep \/ CallerStep, UNCHANGED txVars
  PROVE  Order'
<1>1. CASE WorkerStep
  <2>1. /\ UNCHANGED <<bufVars, state>>
        /\ apc' = apc \/ (apc = "waiting" /\ apc' = "woken")
    BY <1>1, WorkerFrame
  <2> QED BY <2>1 DEF Order, FullWaits, CompleteWaits, CallPoints, NotDeferred, Submitting, SetOf,
             bufVars, txVars
<1>2. CASE CallerStep
  <2>1. /\ UNCHANGED bufVars
        /\ apc \notin Submitting /\ apc' \notin Submitting
        /\ state' \in {state, "START_WORKER", "WAIT_FOR_BUFFER"}
        /\ state' = state \/ state # "USING_BUFFER"
        /\ apc' = "starting" => state' = "START_WORKER"
    BY <1>2, CallerFrame DEF Order, CallPoints
  <2> QED BY <2>1 DEF Order, FullWaits, CompleteWaits, CallPoints, NotDeferred, Submitting, SetOf,
             bufVars, txVars
<1> QED BY <1>1, <1>2

\* exec_idle_state, lusb_stream and tx_callback.
LEMMA OrderWorker ==
  ASSUME Base, Order, Prepare \/ SetupTransfers \/ Sent \/ SentDeferred \/ SentLast
  PROVE  Order'
<1>0. /\ SharedTypeOK /\ status \in [Buffers -> Status] /\ prod_i \in Buffers
      /\ cons_i \in Buffers \cup {Invalid}
      /\ submitter = "CALLBACK" => cons_i \in Buffers
  BY DEF Base, TXTypeOK, SharedTypeOK, Slots
<1>1. ASSUME UNCHANGED <<prod_i, partial_off, state, txVars>>, UNCHANGED cons_i,
             \A b \in Buffers : status'[b] = "FULL" => status[b] = "FULL",
             SignalBufReady \/ UNCHANGED apc
      PROVE  Order'
  <2>1. apc' = apc \/ (apc = "waiting" /\ apc' = "woken")
    BY <1>1 DEF SignalBufReady
  <2> QED BY <1>0, <1>1, <2>1 DEF Order, FullWaits, CompleteWaits, CallPoints, NotDeferred,
             Submitting, SetOf, txVars
<1>2. CASE Prepare
  BY <1>0, <1>1, <1>2 DEF Prepare
<1>3. CASE SetupTransfers
  BY <1>1, <1>3 DEF SetupTransfers, bufVars, apiVars
<1>4. CASE Sent
  BY <1>0, <1>1, <1>4 DEF Sent
<1>5. CASE SentDeferred
  <2>1. /\ submitter = "CALLBACK" /\ cons_i \in Buffers /\ status[cons_i] = "FULL"
        /\ status' = [status EXCEPT ![Head(inflight)] = "EMPTY", ![cons_i] = "IN_FLIGHT"]
        /\ UNCHANGED <<prod_i, partial_off, state, submitter>>
    BY <1>0, <1>5 DEF SentDeferred
  <2>2. apc' = apc \/ (apc = "waiting" /\ apc' = "woken")
    BY <1>5 DEF SentDeferred, SignalBufReady
  <2>3. \A b \in Buffers : status[b] = "FULL" => b = cons_i
    BY <2>1 DEF Order, FullWaits
  <2>4. \A b \in Buffers : status'[b] # "FULL"
    BY <1>0, <2>1, <2>3
  <2>5. FullWaits' /\ NotDeferred'
    BY <1>0, <2>1, <2>4 DEF FullWaits, NotDeferred
  <2>6. CompleteWaits' /\ CallPoints'
    BY <2>1, <2>2 DEF Order, CompleteWaits, CallPoints, Submitting
  <2> QED BY <2>5, <2>6 DEF Order
<1>6. CASE SentLast
  <2>1. /\ submitter = "CALLBACK" /\ cons_i \in Buffers /\ status'[cons_i] # "FULL"
        /\ status' = [status EXCEPT ![Head(inflight)] = "EMPTY"]
        /\ submitter' = "FN"
        /\ UNCHANGED <<prod_i, partial_off, state, unsent>>
    BY <1>0, <1>6 DEF SentLast
  <2>2. apc' = apc \/ (apc = "waiting" /\ apc' = "woken")
    BY <1>6 DEF SentLast, SignalBufReady
  <2>3. \A b \in Buffers : status[b] = "FULL" => b = cons_i
    BY <2>1 DEF Order, FullWaits
  <2>4. \A b \in Buffers : status'[b] # "FULL"
    BY <1>0, <2>1, <2>3
  <2>5. FullWaits' /\ NotDeferred'
    BY <1>0, <2>1, <2>4 DEF FullWaits, NotDeferred
  <2>6. CompleteWaits' /\ CallPoints'
    BY <2>1, <2>2 DEF Order, CompleteWaits, CallPoints, Submitting
  <2> QED BY <2>5, <2>6 DEF Order
<1> QED BY <1>2, <1>3, <1>4, <1>5, <1>6

\* The caller fills a buffer.
LEMMA OrderFill ==
  ASSUME Base, Order, FillPartly \/ FillUp
  PROVE  Order'
<1>0. /\ SharedTypeOK /\ status \in [Buffers -> Status] /\ prod_i \in Buffers
      /\ unsent \in Seq(Buffers) /\ Once(unsent) /\ submitter \in {"FN", "CALLBACK"}
      /\ partial_off \in Nat /\ SamplesPerBuffer \in Nat
  BY SyncAssumption DEF Base, TXTypeOK, SharedTypeOK
<1>1. CASE FillPartly
  <2>1. /\ partial_off' < SamplesPerBuffer /\ apc' = "none"
        /\ UNCHANGED <<status, prod_i, state, unsent, cons_i, submitter>>
    BY <1>1 DEF FillPartly, Copy
  <2>2. partial_off' # SamplesPerBuffer
    BY <1>0, <1>1 DEF FillPartly, Copy
  <2> QED BY <2>1, <2>2 DEF Order, FullWaits, CompleteWaits, CallPoints, NotDeferred, Submitting,
             SetOf
<1>2. CASE FillUp
  <2>1. PICK n \in 0 .. SamplesPerBuffer :
            /\ Copy(n) /\ partial_off' = SamplesPerBuffer
            /\ status' = [status EXCEPT ![prod_i] = "IN_FLIGHT"]
            /\ unsent' = IF n = 0 THEN unsent ELSE Filled(prod_i)
            /\ \/ submitter = "FN" /\ apc' = "submit" /\ UNCHANGED <<prod_i, state, timed>>
               \/ submitter = "CALLBACK" /\ AdvanceTX
    BY <1>2 DEF FillUp
  <2>2. apc = "run" /\ state = "USING_BUFFER" /\ UNCHANGED <<cons_i, submitter>>
    BY <2>1 DEF Copy
  <2>3. SetOf(unsent) \subseteq SetOf(unsent') /\ prod_i \in SetOf(unsent')
    <3>1. CASE n = 0
      <4>1. partial_off = SamplesPerBuffer
        BY <1>0, <2>1, <3>1 DEF Copy
      <4> QED BY <2>1, <2>2, <3>1, <4>1 DEF Order, CompleteWaits
    <3>2. CASE n # 0
      BY <1>0, <2>1, <3>2, FilledMembers
    <3> QED BY <3>1, <3>2
  <2>4. /\ status'[prod_i] = "IN_FLIGHT"
        /\ \A b \in Buffers : status'[b] = "FULL" => b # prod_i /\ status[b] = "FULL"
    BY <1>0, <2>1
  <2>5. \A b \in Buffers : status'[b] = "FULL" =>
            b \in SetOf(unsent') /\ submitter = "CALLBACK" /\ b = cons_i
    BY <2>3, <2>4 DEF Order, FullWaits
  <2>6. CASE submitter = "FN" /\ apc' = "submit" /\ UNCHANGED <<prod_i, state, timed>>
    BY <1>0, <2>1, <2>2, <2>3, <2>4, <2>5, <2>6 DEF Order, FullWaits, CompleteWaits, CallPoints,
       NotDeferred, Submitting
  <2>7. CASE submitter = "CALLBACK" /\ AdvanceTX
    <3>1. state' \in {"BUFFER_READY", "CHECK_WORKER"} /\ apc' \in {"none", "run"}
      BY <2>7, AdvanceFrame
    <3> QED BY <2>2, <2>5, <2>7, <3>1 DEF Order, FullWaits, CompleteWaits, CallPoints, NotDeferred,
               Submitting
  <2> QED BY <2>1, <2>6, <2>7
<1> QED BY <1>1, <1>2

\* The other states of sync_tx, and SHUTDOWN.
LEMMA OrderCaller ==
  ASSUME Base, Order,
         \/ WaitForBuffer \/ Woken \/ BufferReady \/ Submit \/ SubmitTimeout
         \/ HandOver \/ Submitted \/ Defer \/ SubmitFailed \/ SubmitShutdown
  PROVE  Order'
<1>0. /\ status \in [Buffers -> Status] /\ prod_i \in Buffers
      /\ SamplesPerBuffer \in Nat \ {0}
  BY SyncAssumption DEF Base, TXTypeOK, SharedTypeOK
<1>1. CASE WaitForBuffer \/ Woken \/ Submit \/ SubmitTimeout \/ SubmitShutdown
  <2>1. UNCHANGED <<bufVars, txVars>>
    BY <1>1 DEF WaitForBuffer, Woken, Submit, SubmitTimeout, SubmitShutdown
  <2>2. /\ apc' # "starting" /\ apc' # "submitted"
        /\ (apc' \in Submitting) <=> (apc \in Submitting)
        /\ apc # "submitted"
    BY <1>1 DEF WaitForBuffer, Woken, Submit, SubmitTimeout, SubmitShutdown, Submitting
  <2>3. state' = state \/ (state = "WAIT_FOR_BUFFER" /\ state' = "BUFFER_READY" /\ apc' = "run")
    BY <1>1 DEF WaitForBuffer, Woken, Submit, SubmitTimeout, SubmitShutdown
  <2> QED BY <2>1, <2>2, <2>3 DEF Order, FullWaits, CompleteWaits, CallPoints, NotDeferred,
             Submitting, SetOf, bufVars, txVars
<1>2. CASE BufferReady
  <2>1. /\ apc = "run" /\ apc' = "run" /\ partial_off' # SamplesPerBuffer
        /\ state = "BUFFER_READY" /\ status'[prod_i] = "PARTIAL"
        /\ \A b \in Buffers : status'[b] = "FULL" => status[b] = "FULL"
        /\ UNCHANGED <<prod_i, cons_i, txVars>>
    BY <1>0, <1>2 DEF BufferReady
  <2> QED BY <1>0, <2>1 DEF Order, FullWaits, CompleteWaits, CallPoints, NotDeferred, Submitting,
             SetOf, txVars
<1>3. ASSUME apc \in Submitting
      PROVE  /\ \A b \in Buffers : status[b] # "FULL"
             /\ state = "USING_BUFFER" /\ partial_off = SamplesPerBuffer /\ submitter = "FN"
             /\ apc # "submitted" => prod_i \in SetOf(unsent)
  BY <1>3 DEF Order, FullWaits, CompleteWaits, CallPoints
<1>4. CASE HandOver
  <2>1. /\ apc = "submitting" /\ UNCHANGED <<bufVars, state, submitter>>
        /\ apc' = "submitted" \/ (apc' = "failed" /\ UNCHANGED unsent)
    BY <1>4 DEF HandOver
  <2> QED BY <1>3, <2>1 DEF Order, FullWaits, CompleteWaits, CallPoints, NotDeferred, Submitting,
             bufVars
<1>5. CASE Submitted
  <2>1. /\ apc = "submitted" /\ UNCHANGED status
        /\ state' \in {"BUFFER_READY", "CHECK_WORKER"} /\ apc' \in {"none", "run"}
    BY <1>5, AdvanceFrame DEF Submitted
  <2> QED BY <1>3, <2>1 DEF Order, FullWaits, CompleteWaits, CallPoints, NotDeferred, Submitting
<1>6. CASE Defer
  <2>1. /\ apc = "defer" /\ status' = [status EXCEPT ![prod_i] = "FULL"]
        /\ submitter' = "CALLBACK" /\ cons_i' = prod_i /\ UNCHANGED unsent
        /\ state' \in {"BUFFER_READY", "CHECK_WORKER"} /\ apc' \in {"none", "run"}
    BY <1>6, AdvanceFrame DEF Defer
  <2>2. prod_i \in SetOf(unsent) /\ \A b \in Buffers : status'[b] = "FULL" => b = prod_i
    BY <1>0, <1>3, <2>1 DEF Submitting
  <2> QED BY <1>0, <2>1, <2>2 DEF Order, FullWaits, CompleteWaits, CallPoints, NotDeferred,
             Submitting
<1>7. CASE SubmitFailed
  <2>1. /\ apc = "failed" /\ status' = [status EXCEPT ![prod_i] = "FULL"] /\ apc' = "none"
        /\ UNCHANGED <<prod_i, cons_i, partial_off, state, txVars>>
    BY <1>7 DEF SubmitFailed, Return
  <2>2. prod_i \in SetOf(unsent) /\ \A b \in Buffers : status'[b] = "FULL" => b = prod_i
    BY <1>0, <1>3, <2>1 DEF Submitting
  <2> QED BY <1>0, <1>3, <2>1, <2>2 DEF Order, FullWaits, CompleteWaits, CallPoints, NotDeferred,
             Submitting, txVars
<1> QED BY <1>1, <1>2, <1>4, <1>5, <1>6, <1>7

\* Every step keeps the order.
LEMMA OrderPreserved ==
  ASSUME Base, Order, [TXNext]_vars
  PROVE  Order'
<1>1. CASE TXWorker
  BY <1>1, OrderShared, OrderWorker DEF TXWorker, WorkerStep
<1>2. CASE TXCaller \/ TXEnv
  BY <1>2, OrderShared, OrderFill, OrderCaller DEF TXCaller, TXEnv, CallerStep
<1>3. CASE Closed \/ UNCHANGED vars
  BY <1>3 DEF Closed, vars, bufVars, apiVars, txVars, Order, FullWaits, CompleteWaits, CallPoints,
     NotDeferred, Submitting, SetOf
<1> QED BY <1>1, <1>2, <1>3 DEF TXNext

\* Nothing is FULL at first.
LEMMA OrderInit ==
  ASSUME TXInit
  PROVE  Order
<1>1. \A b \in Buffers : status[b] = "EMPTY"
  BY DEF TXInit
<1> QED BY <1>1 DEF TXInit, SharedInit, Order, FullWaits, CompleteWaits, CallPoints, NotDeferred,
           Submitting

\* What a step adds to the transfers was waiting.
LEMMA NewTransferWaited ==
  ASSUME Base, Order, [TXNext]_vars
  PROVE  \A b \in Members(inflight') \ Members(inflight) : b \in SetOf(unsent)
<1>0. inflight \in Seq(Buffers) /\ prod_i \in Buffers
  BY DEF Base, TXTypeOK, SharedTypeOK
<1>1. ASSUME inflight # <<>> PROVE Members(Tail(inflight)) \subseteq Members(inflight)
  BY <1>0, <1>1, TailMembers
<1>2. ASSUME WorkerStep PROVE Members(inflight') \subseteq Members(inflight)
  BY <1>1, <1>2, WorkerFrame
<1>3. CASE TXWorker
  <2>1. CASE Sent \/ SentLast
    BY <1>1, <2>1 DEF Sent, SentLast, NoData, Completes
  <2>2. CASE SentDeferred
    <3>1. /\ cons_i \in Buffers /\ status[cons_i] = "FULL" /\ inflight # <<>>
          /\ inflight' \in {Append(Tail(inflight), cons_i), Tail(inflight)}
      BY <2>2 DEF SentDeferred, Completes, Resubmit, ShutDown, Base, TXTypeOK, Slots
    <3>2. cons_i \in SetOf(unsent)
      BY <3>1 DEF Order, FullWaits
    <3>3. Tail(inflight) \in Seq(Buffers)
      BY <3>1, TailType DEF Base, TXTypeOK
    <3>4. Members(Append(Tail(inflight), cons_i)) = Members(Tail(inflight)) \cup {cons_i}
      BY <3>1, <3>3, AppendMembers
    <3> QED BY <1>1, <3>1, <3>2, <3>4
  <2>3. CASE Prepare \/ SetupTransfers
    BY <2>3 DEF Prepare, SetupTransfers, streamVars
  <2> QED BY <1>2, <1>3, <2>1, <2>2, <2>3 DEF TXWorker, WorkerStep
<1>4. CASE TXCaller \/ TXEnv
  <2>1. CASE CallerStep
    BY <2>1, CallerFrame DEF streamVars
  <2>2. CASE HandOver
    <3>1. prod_i \in SetOf(unsent)
      BY <2>2 DEF HandOver, Order, CallPoints, CompleteWaits, Submitting
    <3>2. Members(Append(inflight, prod_i)) = Members(inflight) \cup {prod_i}
      BY <1>0, AppendMembers
    <3> QED BY <2>2, <3>1, <3>2 DEF HandOver
  <2>3. CASE FillPartly \/ FillUp
    BY <2>3 DEF FillPartly, FillUp, Copy, streamVars
  <2>4. CASE \/ WaitForBuffer \/ Woken \/ BufferReady \/ Submit \/ SubmitTimeout
             \/ Submitted \/ Defer \/ SubmitFailed \/ SubmitShutdown
    BY <2>4 DEF WaitForBuffer, Woken, BufferReady, Submit, SubmitTimeout, Submitted, Defer,
       SubmitFailed, SubmitShutdown, streamVars
  <2> QED BY <1>4, <2>1, <2>2, <2>3, <2>4 DEF TXCaller, TXEnv, CallerStep
<1>5. CASE Closed \/ UNCHANGED vars
  BY <1>5 DEF Closed, vars, streamVars
<1> QED BY <1>3, <1>4, <1>5 DEF TXNext

\* bladerf_sync_tx gives USB the blocks in the order they were written, none
\* twice, whoever submits them, the caller or the callback: for every size of
\* the ring, through deferrals, failed submissions, retries and restarts, and
\* whether or not the worker answers in time.
THEOREM TXInOrderHolds == TXSpec => TXInOrder
<1>1. TXInit => Base /\ Order
  BY BaseInit, OrderInit
<1>2. Base /\ Order /\ [TXNext]_vars => (Base /\ Order)'
  BY BasePreserved, OrderPreserved
<1>3. Base /\ Order /\ [TXNext]_vars =>
        [\A b \in {inflight'[k] : k \in DOMAIN inflight'} \ InFlight : b \in SetOf(unsent)]_vars
  BY NewTransferWaited DEF Members, InFlight
<1> QED BY <1>1, <1>2, <1>3, PTL DEF TXSpec, TXInOrder

-----------------------------------------------------------------------------
(* Ownership.                                                              *)

\* A transfer is out, or taken by the caller, only in a stream that has
\* begun and not ended.
StreamShape ==
    /\ streamState = "DONE" => inflight = <<>> /\ ~Held
    /\ inflight # <<>> \/ Held => wpc \in {"setup", "events"}
    /\ streamState = "RUNNING" => wpc \in {"setup", "events", "cancelled"}
    /\ wpc = "cancelled" => apc \in {"freeing", "closed"}

\* The buffer the caller is about to fill is empty, the one it is about to
\* submit is marked as in flight.
ReadyOrMarked ==
    /\ state = "BUFFER_READY" => status[prod_i] = "EMPTY"
    /\ apc \in Submitting \ {"submitted"} => status[prod_i] = "IN_FLIGHT"

\* The transfers of TXOwned.
Transferred ==
    /\ \A b \in Members(inflight) : status[b] = "IN_FLIGHT"
    /\ Once(inflight)
    /\ state = "USING_BUFFER" /\ apc # "submitted" => prod_i \notin Members(inflight)

Safe == StartAnswered /\ StreamShape /\ ReadyOrMarked /\ Transferred

\* The counter of late answers never goes back.
LEMMA LateGrows ==
  ASSUME Base, [TXNext]_vars, late' = 0
  PROVE  late = 0
<1>1. late \in Nat
  BY SyncAssumption DEF Base, TXTypeOK, SharedTypeOK
<1>2. late' = late \/ late' = late + 1
  <2>1. CASE TXWorker
    BY <2>1, WorkerFrame DEF TXWorker, WorkerStep, Prepare, SetupTransfers, Sent, SentDeferred,
       SentLast
  <2>2. CASE TXCaller
    BY <2>2 DEF TXCaller, CheckWorker, StartWorker, WorkerStarted, StartTimeout, WaitTimeout,
       RequestStop, Deinit, WorkerJoined, CancelWorker, FreeStream, WaitForBuffer, Woken,
       BufferReady, FillPartly, FillUp, Copy, Submit, SubmitTimeout, HandOver, Submitted, Defer,
       SubmitFailed
  <2>3. CASE TXEnv \/ Closed \/ UNCHANGED vars
    BY <2>3 DEF TXEnv, BeginCall, SpuriousWake, SubmitShutdown, Closed, vars
  <2> QED BY <2>1, <2>2, <2>3 DEF TXNext
<1> QED BY <1>1, <1>2

\* The worker's steps that are shared with sync_rx.
LEMMA SafeWorkerStep ==
  ASSUME Base, Safe, WorkerStep
  PROVE  Safe'
<1>0. SharedTypeOK /\ inflight \in Seq(Buffers)
  BY DEF Base, TXTypeOK, SharedTypeOK
<1>1. StartAnswered'
  BY <1>0, WorkerHandshake DEF Safe, WorkerStep
<1>2. /\ UNCHANGED <<bufVars, state>> /\ (Held' <=> Held)
      /\ apc' = apc \/ (apc = "waiting" /\ apc' = "woken")
      /\ inflight' = inflight \/ (inflight # <<>> /\ inflight' = Tail(inflight))
  BY WorkerFrame DEF Held
<1>3. StreamShape'
  <2>1. CASE WorkerControl
    <3>1. inflight' = inflight
      BY <2>1 DEF WorkerControl, ExecIdle, ExecShutdown, RunStream, StreamEnds, SaveResult,
         WakeCaller, ReturnToIdle, streamVars
    <3>2. CASE RunStream
      BY <1>2, <3>1, <3>2 DEF RunStream, Safe, StreamShape
    <3>3. CASE ExecIdle \/ ExecShutdown \/ StreamEnds \/ SaveResult \/ WakeCaller \/ ReturnToIdle
      <4>1. /\ UNCHANGED streamState /\ wpc' \notin {"setup", "events", "cancelled"}
            /\ wpc \in {"setup", "events", "cancelled"} => streamState = "DONE"
        BY <3>3 DEF ExecIdle, ExecShutdown, StreamEnds, SaveResult, WakeCaller, ReturnToIdle,
           streamVars
      <4> QED BY <1>2, <3>1, <4>1 DEF Safe, StreamShape
    <3> QED BY <2>1, <3>2, <3>3 DEF WorkerControl
  <2>2. CASE TransferEnds(Held) \/ CallbackStops(Held)
    <3>1. /\ wpc' = "events" /\ streamState' # "RUNNING"
          /\ streamState' = "DONE" => inflight' = <<>> /\ ~Held
      BY <2>2 DEF TransferEnds, CallbackStops, ShutDown, workerVars
    <3> QED BY <1>2, <3>1 DEF StreamShape
  <2> QED BY <2>1, <2>2 DEF WorkerStep
<1>4. ReadyOrMarked'
  BY <1>2 DEF Safe, ReadyOrMarked, Submitting, bufVars
<1>5. Transferred'
  <2>1. Members(inflight') \subseteq Members(inflight) /\ (Once(inflight) => Once(inflight'))
    BY <1>0, <1>2, TailMembers
  <2> QED BY <1>2, <2>1 DEF Safe, Transferred, bufVars
<1> QED BY <1>1, <1>3, <1>4, <1>5 DEF Safe

\* The caller's steps that are shared with sync_rx.
LEMMA SafeCallerStep ==
  ASSUME Base, Order, Safe, CallerStep, late' = late
  PROVE  Safe'
<1>0. SharedTypeOK /\ late + 1 # late
  BY SyncAssumption DEF Base, TXTypeOK, SharedTypeOK
<1>1. StartAnswered'
  BY <1>0, CallerHandshake DEF Safe, CallerStep
<1>2. /\ UNCHANGED <<bufVars, streamVars>>
      /\ apc \notin Submitting /\ apc' \notin Submitting
      /\ state' \in {state, "START_WORKER", "WAIT_FOR_BUFFER"}
  BY CallerFrame
<1>3. StreamShape'
  <2>1. CASE CancelWorker
    BY <1>0, <1>2, <2>1 DEF CancelWorker, WorkerStuck, Safe, StreamShape, Held, Submitting,
       streamVars
  <2>2. CASE FreeStream
    BY <1>2, <2>2 DEF FreeStream, Safe, StreamShape, Held, Submitting, streamVars, workerVars
  <2>3. CASE \/ CheckWorker("START_WORKER") \/ StartWorker \/ WorkerStarted
             \/ StartTimeout \/ WaitTimeout \/ RequestStop("shutdown") \/ WorkerJoined
             \/ BeginCall \/ SpuriousWake
    <3>1. wpc' = wpc /\ apc \notin {"freeing", "closed"}
      BY <2>3 DEF CheckWorker, StartWorker, WorkerStarted, StartTimeout, WaitTimeout,
         RequestStop, WorkerJoined, BeginCall, SpuriousWake, workerVars
    <3> QED BY <1>2, <3>1 DEF Safe, StreamShape, Held, Submitting, streamVars
  <2> QED BY <2>1, <2>2, <2>3 DEF CallerStep, Deinit
<1>4. ReadyOrMarked'
  BY <1>2 DEF Safe, ReadyOrMarked, bufVars
<1>5. Transferred'
  BY <1>2 DEF Safe, Transferred, bufVars, streamVars, Members, Once, Submitting
<1> QED BY <1>1, <1>3, <1>4, <1>5 DEF Safe

\* exec_idle_state and the start of the stream.
LEMMA SafeStart ==
  ASSUME Base, Order, Safe, Prepare \/ SetupTransfers
  PROVE  Safe'
<1>0. prod_i \in Buffers /\ status \in [Buffers -> Status]
  BY DEF Base, TXTypeOK, SharedTypeOK
<1>1. CASE Prepare
  <2>1. /\ wpc = "prepare" /\ wpc' = "run" /\ apc = "starting" /\ apc' = "starting"
        /\ state = "START_WORKER" /\ inflight = <<>>
        /\ UNCHANGED <<state, streamState, inflight, prod_i>>
    BY <1>1 DEF Prepare, SignalBufReady, Safe, StartAnswered, StreamShape, streamVars
  <2>2. StartAnswered'
    BY <1>1, <2>1 DEF Prepare, Safe, StartAnswered, WorkerHonest
  <2>3. StreamShape' /\ ReadyOrMarked'
    BY <2>1 DEF Safe, StreamShape, ReadyOrMarked, Held, Submitting
  <2>4. Transferred'
    BY <2>1 DEF Transferred, Members, Once
  <2> QED BY <2>2, <2>3, <2>4 DEF Safe
<1>2. CASE SetupTransfers
  <2>1. /\ wpc = "setup" /\ wpc' = "events"
        /\ UNCHANGED <<bufVars, apiVars, wstate, requests, inflight>>
    BY <1>2 DEF SetupTransfers
  <2>2. "STOP" \in requests => ~Held
    BY DEF Safe, StartAnswered, Held
  <2>3. StreamShape'
    BY <1>2, <2>1, <2>2 DEF SetupTransfers, Safe, StreamShape, Held, apiVars
  <2>4. StartAnswered'
    BY <2>1 DEF Safe, StartAnswered, WorkerHonest, apiVars
  <2>5. ReadyOrMarked' /\ Transferred'
    BY <2>1 DEF Safe, ReadyOrMarked, Transferred, Members, Once, bufVars, apiVars
  <2> QED BY <2>3, <2>4, <2>5 DEF Safe
<1> QED BY <1>1, <1>2

\* tx_callback.
LEMMA SafeSent ==
  ASSUME Base, Order, Safe, Sent \/ SentDeferred \/ SentLast
  PROVE  Safe'
<1>0. /\ SharedTypeOK /\ inflight \in Seq(Buffers) /\ status \in [Buffers -> Status]
      /\ prod_i \in Buffers
  BY DEF Base, TXTypeOK, SharedTypeOK
<1>1. /\ Completes /\ SignalBufReady
      /\ UNCHANGED <<prod_i, partial_off, state, left, timed, workerVars, late>>
  BY DEF Sent, SentDeferred, SentLast
<1>2. /\ inflight # <<>> /\ wpc = "events" /\ streamState = "RUNNING"
      /\ apc' = apc \/ (apc = "waiting" /\ apc' = "woken")
      /\ Held' <=> Held
  BY <1>1 DEF Completes, SignalBufReady, Held
<1>3. StartAnswered'
  BY <1>1, <1>2 DEF Safe, StartAnswered, WorkerHonest, workerVars
<1> DEFINE rest == Tail(inflight)  h == Head(inflight)
<1>4. /\ rest \in Seq(Buffers) /\ h \in Buffers
      /\ Members(rest) \subseteq Members(inflight) /\ h \in Members(inflight)
      /\ Once(rest) /\ h \notin Members(rest)
      /\ \A b \in Members(inflight) : b \in Buffers /\ status[b] = "IN_FLIGHT"
  BY <1>0, <1>2, TailType, TailMembers, ElementsType DEF Safe, Transferred, Members
<1>5. /\ state = "USING_BUFFER" /\ apc # "submitted" => prod_i # h /\ prod_i \notin Members(rest)
      /\ apc \in Submitting => state = "USING_BUFFER"
  BY <1>4 DEF Safe, Transferred, Order, CallPoints
<1> HIDE DEF rest, h
<1>6. CASE Sent \/ SentLast
  <2>1. /\ inflight' = rest /\ streamState' = streamState
        /\ status' = [status EXCEPT ![h] = "EMPTY"]
    BY <1>6 DEF Sent, SentLast, NoData, rest, h
  <2>2. StreamShape'
    BY <1>1, <1>2, <2>1 DEF Safe, StreamShape, workerVars
  <2>3. ReadyOrMarked'
    BY <1>0, <1>1, <1>2, <1>5, <2>1 DEF Safe, ReadyOrMarked, Submitting
  <2>4. Transferred'
    BY <1>0, <1>1, <1>2, <1>4, <1>5, <2>1 DEF Transferred
  <2> QED BY <1>3, <2>2, <2>3, <2>4 DEF Safe
<1>7. CASE SentDeferred
  <2>1. /\ submitter = "CALLBACK" /\ status[cons_i] = "FULL" /\ cons_i \in Buffers
        /\ Resubmit(cons_i, Held)
        /\ status' = [status EXCEPT ![h] = "EMPTY", ![cons_i] = "IN_FLIGHT"]
    BY <1>7 DEF SentDeferred, Base, TXTypeOK, Slots, h
  <2>2. /\ cons_i \notin Members(inflight)
        /\ state = "USING_BUFFER" => prod_i # cons_i
        /\ state = "BUFFER_READY" => prod_i # cons_i
    BY <1>4, <2>1 DEF Order, NotDeferred, Safe, ReadyOrMarked
  <2>3. /\ Members(inflight') \subseteq Members(rest) \cup {cons_i} /\ Once(inflight')
        /\ streamState' = "DONE" => inflight' = <<>> /\ ~Held
    <3>1. CASE inflight' = Append(rest, cons_i) /\ UNCHANGED streamState
      BY <1>2, <1>4, <2>1, <2>2, <3>1, AppendMembers
    <3>2. CASE ShutDown(rest, Held)
      BY <1>4, <3>2 DEF ShutDown
    <3> QED BY <2>1, <3>1, <3>2 DEF Resubmit, rest
  <2>4. StreamShape'
    BY <1>1, <1>2, <2>3 DEF Safe, StreamShape, workerVars
  <2>5. ReadyOrMarked'
    BY <1>0, <1>1, <1>2, <1>5, <2>1, <2>2 DEF Safe, ReadyOrMarked, Submitting
  <2>6. \A b \in Members(inflight') : status'[b] = "IN_FLIGHT"
    BY <1>0, <1>4, <2>1, <2>3
  <2>7. Transferred'
    BY <1>1, <1>2, <1>5, <2>2, <2>3, <2>6 DEF Transferred
  <2> QED BY <1>3, <2>4, <2>5, <2>7 DEF Safe
<1> QED BY <1>6, <1>7

\* A step of sync_tx leaves the handshake alone.
LEMMA TXHandshake ==
  ASSUME StartAnswered, UNCHANGED workerVars,
         apc \in InCall \cup {"none"}, apc # "starting",
         apc' \in (InCall \cup {"none", "shutdown"}) \ {"starting"},
         state' \in {state, "BUFFER_READY", "CHECK_WORKER", "USING_BUFFER"}
  PROVE  StartAnswered'
BY DEF StartAnswered, WorkerHonest, InCall, workerVars

\* The caller fills a buffer: it is not with USB.
LEMMA SafeFill ==
  ASSUME Base, Order, Safe, FillPartly \/ FillUp
  PROVE  Safe'
<1>0. status \in [Buffers -> Status] /\ prod_i \in Buffers
  BY DEF Base, TXTypeOK, SharedTypeOK
<1>1. /\ apc = "run" /\ state = "USING_BUFFER"
      /\ UNCHANGED <<workerVars, streamVars>>
  BY DEF FillPartly, FillUp, Copy
<1>2. prod_i \notin Members(inflight)
  BY <1>1 DEF Safe, Transferred
<1>3. CASE FillPartly
  <2>1. apc' = "none" /\ UNCHANGED <<status, prod_i, state>>
    BY <1>3 DEF FillPartly
  <2>2. StartAnswered'
    BY <1>1, <2>1, TXHandshake DEF Safe, InCall
  <2> QED BY <1>1, <1>2, <2>1, <2>2 DEF Safe, StreamShape, ReadyOrMarked, Transferred, Held,
             Submitting, Members, Once, workerVars, streamVars
<1>4. CASE FillUp
  <2>1. status' = [status EXCEPT ![prod_i] = "IN_FLIGHT"]
    BY <1>4 DEF FillUp
  <2>2. \/ apc' = "submit" /\ UNCHANGED <<prod_i, state>>
        \/ /\ apc' \in {"none", "run"} /\ state' \in {"BUFFER_READY", "CHECK_WORKER"}
           /\ state' = "BUFFER_READY" => status'[prod_i'] = "EMPTY"
    BY <1>4, AdvanceFrame DEF FillUp
  <2>3. StartAnswered'
    BY <1>1, <2>2, TXHandshake DEF Safe, InCall
  <2>4. StreamShape'
    BY <1>1, <2>2 DEF Safe, StreamShape, Held, workerVars, streamVars
  <2>5. ReadyOrMarked'
    BY <1>0, <1>1, <2>1, <2>2 DEF ReadyOrMarked, Submitting
  <2>6. Members(inflight') = Members(inflight) /\ Once(inflight') = Once(inflight)
    BY <1>1 DEF streamVars
  <2>7. \A b \in Members(inflight) : b \in Buffers /\ status'[b] = "IN_FLIGHT"
    BY <1>0, <2>1, ElementsType DEF Safe, Transferred, Members, Base, TXTypeOK, SharedTypeOK
  <2>8. Transferred'
    BY <1>1, <1>2, <2>2, <2>6, <2>7 DEF Safe, Transferred
  <2> QED BY <2>3, <2>4, <2>5, <2>8 DEF Safe
<1> QED BY <1>3, <1>4

\* The states of sync_tx that leave the buffers alone, and SHUTDOWN.
LEMMA SafeControl ==
  ASSUME Base, Order, Safe,
         WaitForBuffer \/ Woken \/ Submit \/ SubmitTimeout \/ SubmitShutdown
  PROVE  Safe'
<1>1. /\ apc \in {"run", "woken", "submit", "none"}
      /\ apc' \in {"run", "waiting", "submitting", "defer", "failed", "shutdown"}
      /\ (apc' \in Submitting) <=> (apc \in Submitting)
      /\ UNCHANGED <<bufVars, workerVars, inflight>>
      /\ \/ state' = state
         \/ state' = "BUFFER_READY" /\ status[prod_i] = "EMPTY"
  BY DEF WaitForBuffer, Woken, Submit, SubmitTimeout, SubmitShutdown, Submitting, streamVars
<1>2. StartAnswered'
  BY <1>1, TXHandshake DEF Safe, InCall
<1>3. StreamShape'
  <2>1. CASE SubmitShutdown
    BY <1>1, <2>1 DEF SubmitShutdown, Safe, StreamShape, Held, workerVars
  <2>2. CASE Submit
    BY <1>1, <2>2 DEF Submit, Safe, StreamShape, Held, workerVars, streamVars
  <2>3. CASE WaitForBuffer \/ Woken \/ SubmitTimeout
    <3>1. UNCHANGED streamState /\ ~Held' /\ apc \notin {"freeing", "closed"}
      BY <2>3 DEF WaitForBuffer, Woken, SubmitTimeout, Held, streamVars
    <3> QED BY <1>1, <3>1 DEF Safe, StreamShape, workerVars
  <2> QED BY <2>1, <2>2, <2>3
<1>4. ReadyOrMarked'
  BY <1>1 DEF Safe, ReadyOrMarked, Submitting, bufVars
<1>5. Transferred'
  BY <1>1 DEF Safe, Transferred, bufVars, Members, Once
<1> QED BY <1>2, <1>3, <1>4, <1>5 DEF Safe

\* The caller takes a buffer, hands one over, leaves one to the callback or
\* gives up.
LEMMA SafeBuffer ==
  ASSUME Base, Order, Safe, BufferReady \/ HandOver \/ Submitted \/ Defer \/ SubmitFailed
  PROVE  Safe'
<1>0. /\ status \in [Buffers -> Status] /\ prod_i \in Buffers
      /\ inflight \in Seq(Buffers)
      /\ \A b \in Members(inflight) : b \in Buffers /\ status[b] = "IN_FLIGHT"
      /\ Once(inflight)
  BY ElementsType DEF Base, TXTypeOK, SharedTypeOK, Safe, Transferred, Members
<1>1. UNCHANGED <<workerVars, streamState>>
  BY DEF BufferReady, HandOver, Submitted, Defer, SubmitFailed, streamVars
<1>2. CASE BufferReady
  <2>1. /\ apc = "run" /\ apc' = "run" /\ state' = "USING_BUFFER" /\ status[prod_i] = "EMPTY"
        /\ status' = [status EXCEPT ![prod_i] = "PARTIAL"] /\ UNCHANGED <<prod_i, inflight>>
    BY <1>2 DEF BufferReady, Safe, ReadyOrMarked, streamVars
  <2>2. StartAnswered'
    BY <1>1, <2>1, TXHandshake DEF Safe, InCall
  <2>3. StreamShape' /\ ReadyOrMarked'
    BY <1>1, <2>1 DEF Safe, StreamShape, ReadyOrMarked, Held, Submitting, workerVars
  <2>4. prod_i \notin Members(inflight)
    BY <1>0, <2>1
  <2>5. Transferred'
    BY <1>0, <2>1, <2>4 DEF Transferred
  <2> QED BY <2>2, <2>3, <2>5 DEF Safe
<1>3. CASE HandOver
  <2>1. /\ apc = "submitting" /\ state = "USING_BUFFER" /\ status[prod_i] = "IN_FLIGHT"
        /\ UNCHANGED <<status, prod_i, state>>
        /\ wpc \in {"setup", "events"} /\ streamState # "DONE"
        /\ prod_i \notin Members(inflight)
    BY <1>3 DEF HandOver, Safe, ReadyOrMarked, StreamShape, Transferred, Held, Order, CallPoints,
       Submitting, bufVars
  <2>2. apc' \in {"submitted", "failed"}
    BY <1>3 DEF HandOver
  <2>3. StartAnswered'
    BY <1>1, <2>1, <2>2, TXHandshake DEF Safe, InCall
  <2>4. StreamShape' /\ ReadyOrMarked'
    BY <1>1, <2>1, <2>2 DEF Safe, StreamShape, ReadyOrMarked, Held, Submitting, workerVars
  <2>5. CASE inflight' = Append(inflight, prod_i) /\ apc' = "submitted"
    <3>1. Members(inflight') = Members(inflight) \cup {prod_i} /\ Once(inflight')
      BY <1>0, <2>1, <2>5, AppendMembers
    <3>2. Transferred'
      BY <1>0, <2>1, <2>5, <3>1 DEF Transferred
    <3> QED BY <2>3, <2>4, <3>2 DEF Safe
  <2>6. CASE UNCHANGED inflight
    BY <1>0, <2>1, <2>3, <2>4, <2>6 DEF Safe, Transferred
  <2> QED BY <1>3, <2>5, <2>6 DEF HandOver
<1>4. CASE Submitted \/ Defer
  <2>1. /\ apc \in {"submitted", "defer"} /\ apc' \in {"none", "run"}
        /\ state' \in {"BUFFER_READY", "CHECK_WORKER"}
        /\ state' = "BUFFER_READY" => status'[prod_i'] = "EMPTY"
        /\ UNCHANGED inflight
    BY <1>4, AdvanceFrame DEF Submitted, Defer, streamVars
  <2>2. StartAnswered'
    BY <1>1, <2>1, TXHandshake DEF Safe, InCall
  <2>3. StreamShape' /\ ReadyOrMarked'
    BY <1>1, <2>1 DEF Safe, StreamShape, ReadyOrMarked, Held, Submitting, workerVars
  <2>4. \A b \in Members(inflight) : status'[b] = "IN_FLIGHT"
    <3>1. CASE Submitted
      BY <1>0, <3>1 DEF Submitted
    <3>2. CASE Defer
      <4>1. prod_i \notin Members(inflight)
        BY <3>2 DEF Defer, Safe, Transferred, Order, CallPoints, Submitting
      <4> QED BY <1>0, <3>2, <4>1 DEF Defer
    <3> QED BY <1>4, <3>1, <3>2
  <2>5. Transferred'
    BY <1>0, <2>1, <2>4 DEF Transferred
  <2> QED BY <2>2, <2>3, <2>5 DEF Safe
<1>5. CASE SubmitFailed
  <2>1. /\ apc = "failed" /\ apc' = "none" /\ state = "USING_BUFFER"
        /\ UNCHANGED <<prod_i, state, inflight>>
        /\ status' = [status EXCEPT ![prod_i] = "FULL"]
        /\ prod_i \notin Members(inflight)
    BY <1>5 DEF SubmitFailed, Return, Safe, Transferred, Order, CallPoints, Submitting, streamVars
  <2>2. StartAnswered'
    BY <1>1, <2>1, TXHandshake DEF Safe, InCall
  <2>3. StreamShape' /\ ReadyOrMarked'
    BY <1>1, <2>1 DEF Safe, StreamShape, ReadyOrMarked, Held, Submitting, workerVars
  <2>4. Transferred'
    BY <1>0, <2>1 DEF Transferred
  <2> QED BY <2>2, <2>3, <2>4 DEF Safe
<1> QED BY <1>2, <1>3, <1>4, <1>5

-----------------------------------------------------------------------------

TXInv == Base /\ Order /\ (late = 0 => Safe)

\* sync_init sets up a safe ring.
LEMMA TXInvInit ==
  ASSUME TXInit
  PROVE  TXInv
<1>1. Base
  BY BaseInit
<1>2. Order
  BY OrderInit
<1>3. Safe
  BY DEF TXInit, SharedInit, Safe, StartAnswered, WorkerHonest, StreamShape, ReadyOrMarked,
     Transferred, Held, Submitting, Members, Once
<1> QED BY <1>1, <1>2, <1>3 DEF TXInv

\* Every step keeps the invariant.
LEMMA TXInvPreserved ==
  ASSUME TXInv, [TXNext]_vars
  PROVE  TXInv'
<1>0. Base /\ Order
  BY DEF TXInv
<1>1. Base' /\ Order'
  BY <1>0, BasePreserved, OrderPreserved
<1>2. ASSUME late' = 0 PROVE Safe'
  <2>1. Safe /\ late' = late
    BY <1>0, <1>2, LateGrows DEF TXInv
  <2>2. CASE TXWorker
    BY <1>0, <2>1, <2>2, SafeWorkerStep, SafeStart, SafeSent DEF TXWorker, WorkerStep
  <2>3. CASE TXCaller \/ TXEnv
    BY <1>0, <2>1, <2>3, SafeCallerStep, SafeFill, SafeControl, SafeBuffer
       DEF TXCaller, TXEnv, CallerStep
  <2>4. CASE Closed \/ UNCHANGED vars
    <3>1. UNCHANGED <<bufVars, apiVars, workerVars, streamVars>>
      BY <2>4 DEF Closed, vars
    <3> QED BY <2>1, <3>1 DEF bufVars, apiVars, workerVars, streamVars, Safe, StartAnswered,
               WorkerHonest, StreamShape, ReadyOrMarked, Transferred, Held, Submitting, Members,
               Once
  <2> QED BY <2>2, <2>3, <2>4 DEF TXNext
<1> QED BY <1>1, <1>2 DEF TXInv

\* bladerf_sync_tx never writes to a buffer USB still reads, never submits a
\* buffer twice and never more than NumXfers at once, and tx_callback's
\* assertion on IN_FLIGHT holds: for every size of the ring, through
\* deferrals, failures, retries and restarts, as long as the worker answers
\* START in time.
THEOREM TXOwnershipHolds == TXSpec => []TXOwnership
<1>1. TXInit => TXInv
  BY TXInvInit
<1>2. TXInv /\ [TXNext]_vars => TXInv'
  BY TXInvPreserved
<1>3. TXInv => TXOwnership
  <2> SUFFICES ASSUME TXInv, late = 0 PROVE TXOwned
    BY DEF TXOwnership
  <2>1. Base /\ Safe /\ Len(inflight) \in Nat /\ Len(inflight) <= NumXfers
    BY LenProperties DEF TXInv, Base, TXTypeOK, SharedTypeOK
  <2>2. Len(inflight) + (IF Held THEN 1 ELSE 0) <= NumXfers
    BY <2>1, SyncAssumption DEF Base, Slots
  <2> QED BY <2>1, <2>2 DEF TXOwned, Base, Slots, Safe, Transferred, Members, Once, InFlight
<1> QED BY <1>1, <1>2, <1>3, PTL DEF TXSpec
===============================================================================
