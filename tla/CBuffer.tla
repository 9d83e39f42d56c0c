------------------------------ MODULE CBuffer -------------------------------
(***************************************************************************)
(* The circular buffer of the rs232 driver (cbuffer.c), as operators on    *)
(* its structure [size, head, tail, cbuff].  The two halves of an enqueue  *)
(* and of a dequeue are operators of their own: the driver shares its      *)
(* buffers with an interrupt routine that may run between them.            *)
(***************************************************************************)
EXTENDS Integers, Sequences

CONSTANTS
  Blank,   (* 0x20: what cbuffer_init fills the buffer with                *)
  Erased   (* 0xFF: what a dequeue leaves in the slot it reads             *)

Indices(size) == 0 .. size - 1

cbuffer_init(size) ==
  [size |-> size, head |-> 0, tail |-> 0, cbuff |-> [i \in Indices(size) |-> Blank]]

NextMod(cb, i) == (i + 1) % cb.size

cbuffer_is_empty(cb) == cb.head = cb.tail

FullAtTheLast(cb) == cb.head = cb.size - 1    \* mutant: no wrap in the test

cbuffer_is_full(cb) == NextMod(cb, cb.head) = cb.tail

(* The slot at the head is written, then the head moves.                   *)
Stored(cb, data) == [cb EXCEPT !.cbuff[cb.head] = data]
HeadMoved(cb) == [cb EXCEPT !.head = NextMod(cb, @)]

Newest(cb) == cb.cbuff[(cb.head - 1 + cb.size) % cb.size]   \* mutant: reads at the head

(* The slot at the tail is read and erased, then the tail moves.           *)
Oldest(cb) == cb.cbuff[cb.tail]
OldestErased(cb) == [cb EXCEPT !.cbuff[cb.tail] = Erased]

MovedUnwrapped(cb) == [cb EXCEPT !.tail = IF @ < cb.size THEN @ + 1 ELSE 0]  \* mutant: off by one

TailMoved(cb) == [cb EXCEPT !.tail = NextMod(cb, @)]

cbuffer_enqueue(cb, data) == HeadMoved(Stored(cb, data))
cbuffer_dequeue(cb) == TailMoved(OldestErased(cb))

cbuffer_current_size(cb) == (cb.head - cb.tail + cb.size) % cb.size

cbuffer_space_left(cb) ==
  IF cbuffer_is_empty(cb) THEN cb.size - 1
  ELSE IF cbuffer_is_full(cb) THEN 0
  ELSE cb.size - cbuffer_current_size(cb) - 1

(* What the buffer holds, oldest first.                                    *)
Contents(cb) ==
  [i \in 1 .. cbuffer_current_size(cb) |-> cb.cbuff[(cb.tail + i - 1) % cb.size]]

(* The structures the operations keep to.                                  *)
Buffers(size, Byte) ==
  [size : {size}, head : Indices(size), tail : Indices(size),
   cbuff : [Indices(size) -> Byte \cup {Blank, Erased}]]

=============================================================================
