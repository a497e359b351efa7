------------------------------ MODULE SampleFifo ------------------------------
(***************************************************************************)
(* What the ring of sync_rx promises: a bounded queue of blocks of         *)
(* samples. Blocks are numbered as they are accepted, modulo Modulus, and  *)
(* leave in that order, none lost and none repeated. The promise ends with *)
(* the first fault of the stream.                                          *)
(***************************************************************************)
EXTENDS Integers, Sequences

CONSTANTS Capacity, Modulus

VARIABLES queue, put, broken

fifoVars == <<queue, put, broken>>

FifoInit == queue = <<>> /\ put = 0 /\ broken = FALSE

Put ==
    /\ ~broken /\ Len(queue) < Capacity
    /\ queue' = Append(queue, put)
    /\ put' = (put + 1) % Modulus
    /\ UNCHANGED broken

Get ==
    /\ ~broken /\ queue # <<>>
    /\ queue' = Tail(queue)
    /\ UNCHANGED <<put, broken>>

Break == broken' = TRUE

FifoNext == Put \/ Get \/ Break

FifoSpec == FifoInit /\ [][FifoNext]_fifoVars
===============================================================================
