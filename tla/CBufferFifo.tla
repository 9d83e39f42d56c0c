---------------------------- MODULE CBufferFifo -----------------------------
(***************************************************************************)
(* cbuffer.c used by one caller, as its test (test_cbuffer.c) does: every  *)
(* sequence of cbuffer_enqueue and cbuffer_dequeue on a buffer of any      *)
(* size.  It implements a bounded FIFO of size - 1 bytes.                  *)
(***************************************************************************)
EXTENDS CBuffer

CONSTANTS
  BufferSize,   (* the argument of cbuffer_init                            *)
  Bytes,        (* the bytes enqueued                                      *)
  NoData        (* no byte was dequeued                                    *)

ASSUME CBufferFifoAssumption ==
  /\ BufferSize \in Nat \ {0}
  /\ NoData \notin Bytes

VARIABLES
  cb,       (* the buffer                                                  *)
  status,   (* what the last call returned                                 *)
  data      (* what the last call stored through its data pointer          *)

callerVars == <<cb, status, data>>

CallerInit ==
  /\ cb = cbuffer_init(BufferSize)
  /\ status = 0
  /\ data = NoData

CallEnqueue(byte) ==
  \/ /\ cbuffer_is_full(cb)
     /\ status' = 1
     /\ data' = NoData
     /\ UNCHANGED cb
  \/ /\ ~cbuffer_is_full(cb)
     /\ cb' = cbuffer_enqueue(cb, byte)
     /\ status' = 0
     /\ data' = NoData

CallDequeue ==
  \/ /\ cbuffer_is_empty(cb)
     /\ status' = 1
     /\ data' = NoData
     /\ UNCHANGED cb
  \/ /\ ~cbuffer_is_empty(cb)
     /\ data' = Oldest(cb)
     /\ cb' = cbuffer_dequeue(cb)
     /\ status' = 0

CallerNext == (\E byte \in Bytes : CallEnqueue(byte)) \/ CallDequeue

CallerSpec == CallerInit /\ [][CallerNext]_callerVars

-----------------------------------------------------------------------------
(* The type of the variables.                                              *)
CallerTypeOK ==
  /\ cb \in Buffers(BufferSize, Bytes)
  /\ status \in {0, 1}
  /\ data \in Bytes \cup {NoData}

(* The slots the buffer holds were written by an enqueue and not yet       *)
(* erased by a dequeue.                                                    *)
HeldAreBytes ==
  \A i \in 1 .. cbuffer_current_size(cb) : Contents(cb)[i] \in Bytes

(* cbuffer_current_size and cbuffer_space_left share out the size - 1      *)
(* usable slots, wherever head and tail are, and agree with the tests for  *)
(* empty and full.                                                         *)
SpaceAccounted ==
  /\ cbuffer_current_size(cb) + cbuffer_space_left(cb) = BufferSize - 1
  /\ cbuffer_is_empty(cb) <=> cbuffer_current_size(cb) = 0
  /\ cbuffer_is_full(cb) <=> cbuffer_space_left(cb) = 0

Fifo == INSTANCE BoundedFifo WITH
  Byte <- Bytes, NoByte <- NoData, Capacity <- BufferSize - 1, OK <- 0, FAILED <- 1,
  queue <- Contents(cb), out <- data

(* Bytes come out in the order they went in, none lost, none twice, and    *)
(* the calls fail exactly when a FIFO of size - 1 bytes is full or empty.  *)
FifoSpec == Fifo!Spec

=============================================================================
