---------------------------- MODULE BoundedFifo -----------------------------
(* A first-in first-out queue of at most Capacity bytes, whose operations  *)
(* fail, and change nothing, when it is full and when it is empty.         *)
EXTENDS Naturals, Sequences

CONSTANTS Byte, Capacity, OK, FAILED, NoByte

VARIABLES
  queue,   (* the bytes, oldest first                                      *)
  status,  (* what the last operation returned                             *)
  out      (* the byte the last operation took, or NoByte                  *)

vars == <<queue, status, out>>

Init == queue = <<>> /\ status = OK /\ out = NoByte

Put(data) ==
  /\ Len(queue) < Capacity
  /\ queue' = Append(queue, data)
  /\ status' = OK
  /\ out' = NoByte

PutFails ==
  /\ Len(queue) = Capacity
  /\ status' = FAILED
  /\ out' = NoByte
  /\ UNCHANGED queue

Take ==
  /\ queue # <<>>
  /\ out' = Head(queue)
  /\ queue' = Tail(queue)
  /\ status' = OK

TakeFails ==
  /\ queue = <<>>
  /\ status' = FAILED
  /\ out' = NoByte
  /\ UNCHANGED queue

Next == (\E data \in Byte : Put(data)) \/ PutFails \/ Take \/ TakeFails

Spec == Init /\ [][Next]_vars

=============================================================================
