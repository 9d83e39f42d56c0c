------------------------------- MODULE Rs232 --------------------------------
(***************************************************************************)
(* The rs232 driver of the first assignment (rs232_tp.c): the open,        *)
(* release, read and write routines that processes call, the interrupt     *)
(* routine, and the UART they drive, without its FIFO.                     *)
(*                                                                         *)
(* The kernel it was built for has one processor and is preemptible, and   *)
(* the driver takes no lock: a process may lose the processor to another   *)
(* process or to the interrupt routine between any two accesses to shared  *)
(* data, so each access is a step.  (The ++ and -- of uart_initialized are *)
(* one access each: one instruction, as compiled for the one processor.)   *)
(* No process runs while the interrupt routine does: each turn of its loop *)
(* is one action.                                                          *)
(*                                                                         *)
(* Only open runs under a lock, the kernel's big one, which the kernel     *)
(* lets go while an allocation sleeps.                                     *)
(***************************************************************************)
EXTENDS CBuffer, FiniteSets

CONSTANTS
  Writers,   (* the processes that write                                   *)
  Readers,   (* the processes that read                                    *)
  Files,     (* the open files of the device                               *)
  FileOf,    (* FileOf[p]: the file that process p uses                    *)
  Byte,
  Heard,     (* the bytes that arrive: all of them, or a few to bound    *)
  SizeIn,    (* the slots of cbuf_in: 80 in the code                       *)
  SizeOut,   (* the slots of cbuf_out: 40 in the code                      *)
  MaxSize,   (* bound: the largest size of a call                          *)
  NoByte,    (* an empty register                                          *)
  Freed,     (* a buffer that is not allocated                             *)
  MaySleep   (* kmalloc may have to sleep                                  *)

Processes == Writers \cup Readers

ASSUME Rs232Assumption ==
  /\ SizeIn \in Nat \ {0}
  /\ SizeOut \in Nat \ {0}
  /\ MaxSize \in Nat
  /\ NoByte \notin Byte
  /\ Heard \subseteq Byte
  /\ Freed \notin Buffers(SizeIn, Byte) \cup Buffers(SizeOut, Byte)
  /\ IsFiniteSet(Files)
  /\ Writers \cap Readers = {}
  /\ FileOf \in [Processes -> Files]
  /\ MaySleep \in BOOLEAN

VARIABLES
  file,               (* where each file is, in its open, release or between *)
  uart_initialized,   (* how many times the device is open                 *)
  cbuf_in, cbuf_out,
  empty_thr_from_isr,
  pc,                 (* where each process is in its call                 *)
  left,               (* maximum_size - size: the bytes still to do        *)
  byte,               (* char_to_enqueue, received_character               *)
  to_send,            (* character_to_send                                 *)
  given,              (* the buffer that a routine of cbuffer.c works on   *)
                      (* for p: the driver's, or one replaced or freed     *)
  ier,                (* the UART may interrupt                            *)
  thr,                (* Transmitter Holding Register                      *)
  thr_pending,        (* the interrupt of an empty THR is pending          *)
  line,               (* the last byte the UART sent                       *)
  rbr,                (* Receive Buffer Register                           *)
  overrun,            (* the interrupt of a line error is pending          *)
  got,                (* the last byte a read gave to its user             *)
  crashed             (* the driver has accessed a wild address or freed   *)
                      (* memory, or taken the divisor latch for the THR or *)
                      (* the RBR: nothing is defined after                 *)

shared == <<file, uart_initialized, cbuf_in, cbuf_out, empty_thr_from_isr>>
locals == <<left, byte, to_send, given>>
transmitter == <<ier, thr, thr_pending, line>>
receiver == <<rbr, overrun, got, crashed>>

vars == <<shared, pc, locals, transmitter, receiver>>

Goto(p, label) == pc' = [pc EXCEPT ![p] = label]

(* A step that only tests, and goes from one label to another.             *)
Branch(p, from, to) ==
  /\ pc[p] = from
  /\ Goto(p, to)
  /\ UNCHANGED <<shared, locals, transmitter, receiver>>

NobodyWoken == pc   \* mutant: the interrupt routine wakes nobody

(* wake_up_interruptible: whoever sleeps tests its condition again.        *)
Woken ==
  [p \in Processes |->
     IF pc[p] = "write_asleep" THEN "write_wait"
     ELSE IF pc[p] = "read_asleep" THEN "read_wait"
     ELSE pc[p]]

-----------------------------------------------------------------------------
(* The places of an open after its first access to the count, and of a     *)
(* release that has found nobody left.                                     *)
Allocating == {"alloc_in", "alloc_out"}
Initialising == Allocating \cup {"clear_rbr", "set_speed", "set_line", "enable"}
Opening == {"counted", "opening"} \cup Initialising
Closing == {"masking", "free_in", "free_out"}

FileGoes(f, from, to) ==
  /\ file[f] = from
  /\ file' = [file EXCEPT ![f] = to]

(* The big lock, which an open holds unless an allocation of it sleeps.    *)
LockFreeFor(f) ==
  \A g \in Files \ {f} : file[g] \in Opening => MaySleep /\ file[g] \in Allocating

(* A step of an open or release that neither allocates nor sets the UART.  *)
OnlyCounts == UNCHANGED <<cbuf_in, cbuf_out, empty_thr_from_isr, pc, locals,
                          transmitter, receiver>>

(* rs232_tut_open: the count is incremented, then tested.  An open that    *)
(* finds itself alone initialises the device, also when the files that     *)
(* used it were released just before the test.                             *)
Count(f) ==
  /\ FileGoes(f, "closed", "counted")
  /\ LockFreeFor(f)
  /\ uart_initialized' = uart_initialized + 1
  /\ OnlyCounts

TestFirst(f) ==
  /\ FileGoes(f, "counted", IF uart_initialized = 1 THEN "alloc_in" ELSE "open")
  /\ UNCHANGED uart_initialized
  /\ OnlyCounts

(* Whoever is in a routine of cbuffer.c goes on with the buffer it has.    *)
LeftWith(places, fate) ==
  given' = [p \in Processes |->
           IF pc[p] \in places /\ given[p] = "current" THEN fate ELSE given[p]]

InRoutineIn == {"read_move"}
InRoutineOut == {"store", "move_head", "force_move", "push_move"}

AllocateIn(f) ==
  /\ FileGoes(f, "alloc_in", "alloc_out")
  /\ LockFreeFor(f)
  /\ cbuf_in' = cbuffer_init(SizeIn)
  /\ LeftWith(InRoutineIn, "replaced")
  /\ UNCHANGED <<uart_initialized, cbuf_out, empty_thr_from_isr, pc, left, byte,
                 to_send, transmitter, receiver>>

AllocateOut(f) ==
  /\ FileGoes(f, "alloc_out", "clear_rbr")
  /\ LockFreeFor(f)
  /\ cbuf_out' = cbuffer_init(SizeOut)
  /\ LeftWith(InRoutineOut, "replaced")
  /\ UNCHANGED <<uart_initialized, cbuf_in, empty_thr_from_isr, pc, left, byte,
                 to_send, transmitter, receiver>>

(* Then the UART: what was received is dropped; the divisor latch replaces *)
(* the THR, the RBR and the IER while the speed is set; the interrupts are *)
(* enabled, which reports the empty THR.                                   *)
ClearRbr(f) ==
  /\ FileGoes(f, "clear_rbr", "set_speed")
  /\ rbr' = NoByte
  /\ UNCHANGED <<uart_initialized, cbuf_in, cbuf_out, empty_thr_from_isr, pc, locals,
                 transmitter, overrun, got, crashed>>

SetSpeed(f) ==
  /\ FileGoes(f, "set_speed", "set_line") \/ FileGoes(f, "set_line", "enable")
  /\ UNCHANGED uart_initialized
  /\ OnlyCounts

DivisorLatch == \E f \in Files : file[f] = "set_line"

EnableInterrupts(f) ==
  /\ FileGoes(f, "enable", "opening")
  /\ ier' = TRUE
  /\ thr_pending' = IF ier THEN thr_pending ELSE thr = NoByte
  /\ UNCHANGED <<uart_initialized, cbuf_in, cbuf_out, empty_thr_from_isr, pc, locals,
                 thr, line, receiver>>

(* Other ports are accessed, the LSR among them; the interrupt is taken.   *)
OpenReturns(f) ==
  /\ FileGoes(f, "opening", "open")
  /\ ~thr_pending
  /\ overrun' = FALSE
  /\ UNCHANGED <<uart_initialized, cbuf_in, cbuf_out, empty_thr_from_isr, pc, locals,
                 transmitter, rbr, got, crashed>>

OpenStep(f) ==
  \/ Count(f) \/ TestFirst(f) \/ AllocateIn(f) \/ AllocateOut(f)
  \/ ClearRbr(f) \/ SetSpeed(f) \/ EnableInterrupts(f) \/ OpenReturns(f)

(* rs232_tut_release, which the kernel calls without a lock once no call   *)
(* uses the file: the count is decremented, then tested; the last release  *)
(* masks the interrupts, then frees the buffers.                           *)
Release(f) ==
  /\ FileGoes(f, "open", "testing")
  /\ \A p \in Processes : FileOf[p] = f => pc[p] = "idle"
  /\ uart_initialized' = uart_initialized - 1
  /\ OnlyCounts

TestsTooSoon(f) ==   \* mutant: the last but one release takes itself for the last
  /\ FileGoes(f, "testing", IF uart_initialized <= 1 THEN "masking" ELSE "closed")
  /\ UNCHANGED uart_initialized
  /\ OnlyCounts

TestLast(f) ==
  /\ FileGoes(f, "testing", IF uart_initialized = 0 THEN "masking" ELSE "closed")
  /\ UNCHANGED uart_initialized
  /\ OnlyCounts

MaskInterrupts(f) ==
  /\ FileGoes(f, "masking", "free_in")
  /\ ier' = (ier /\ DivisorLatch)
  /\ thr_pending' = (thr_pending /\ DivisorLatch)
  /\ UNCHANGED <<uart_initialized, cbuf_in, cbuf_out, empty_thr_from_isr, pc, locals,
                 thr, line, receiver>>

FreeIn(f) ==
  /\ FileGoes(f, "free_in", "free_out")
  /\ cbuf_in' = Freed
  /\ LeftWith(InRoutineIn, "freed")
  /\ crashed' = (cbuf_in = Freed)
  /\ UNCHANGED <<uart_initialized, cbuf_out, empty_thr_from_isr, pc, left, byte,
                 to_send, transmitter, rbr, overrun, got>>

FreeOut(f) ==
  /\ FileGoes(f, "free_out", "closed")
  /\ cbuf_out' = Freed
  /\ LeftWith(InRoutineOut, "freed")
  /\ crashed' = (cbuf_out = Freed)
  /\ UNCHANGED <<uart_initialized, cbuf_in, empty_thr_from_isr, pc, left, byte,
                 to_send, transmitter, rbr, overrun, got>>

FileStep(f) ==
  OpenStep(f) \/ Release(f) \/ TestLast(f) \/ MaskInterrupts(f) \/ FreeIn(f) \/ FreeOut(f)

(* A call of read or write begins, for n bytes.                            *)
Call(p, n, label) ==
  /\ pc[p] = "idle"
  /\ file[FileOf[p]] = "open"
  /\ Goto(p, label)
  /\ left' = [left EXCEPT ![p] = n]
  /\ UNCHANGED <<shared, byte, to_send, given, transmitter, receiver>>

(* A call returns, size or an error.  Its locals are dead: they get one    *)
(* value.                                                                  *)
Return(p, from) ==
  /\ pc[p] = from
  /\ Goto(p, "idle")
  /\ left' = [left EXCEPT ![p] = 0]
  /\ byte' = [byte EXCEPT ![p] = NoByte]
  /\ to_send' = [to_send EXCEPT ![p] = NoByte]
  /\ UNCHANGED <<shared, given, transmitter, receiver>>

(* What a routine of cbuffer.c that p is in makes of buf, if buf is still  *)
(* the buffer that it was given.                                           *)
WorkedOn(p, buf, result) == IF given[p] = "current" THEN result ELSE buf

RoutineReturns(p) == given' = [given EXCEPT ![p] = "current"]

(* The next access of p is to a buffer that is not there, cbuffer_info's   *)
(* included, or to the divisor latch in place of the THR.                  *)
Astray(p) ==
  /\ \/ given[p] = "freed"
     \/ cbuf_in = Freed /\ pc[p] \in {"read_test", "read_wait", "read_loop", "read_load"}
     \/ cbuf_out = Freed /\ pc[p] \in {"copy_from_user", "test_full", "force_load",
                                      "write_wait", "enqueue", "push_load"}
     \/ DivisorLatch /\ pc[p] \in {"force_out", "push_out"}
  /\ crashed' = TRUE
  /\ UNCHANGED <<shared, pc, locals, transmitter, rbr, overrun, got>>

-----------------------------------------------------------------------------
(* rs232_tut_write.                                                        *)

(* A turn of the loop begins: copy_from_user gives a byte.                 *)
CopyFromUser(p) ==
  /\ pc[p] = "copy_from_user"
  /\ left[p] # 0
  /\ \E b \in Byte : byte' = [byte EXCEPT ![p] = b]
  /\ Goto(p, "test_full")
  /\ UNCHANGED <<shared, left, to_send, given, transmitter, receiver>>

EndsUnpushed(p) == Branch(p, "copy_from_user", "pushed")   \* mutant: no push at the end

(* The loop ends: no byte is left, or copy_from_user faults.               *)
EndOfBytes(p) == cbuf_out # Freed /\ Branch(p, "copy_from_user", "push")

TestFull(p) ==
  /\ cbuf_out # Freed
  /\ Branch(p, "test_full", IF cbuffer_is_full(cbuf_out) THEN "test_flag" ELSE "enqueue")

TestFlag(p) ==
  Branch(p, "test_flag", IF empty_thr_from_isr THEN "force_clear" ELSE "write_wait")

TestPush(p) == empty_thr_from_isr /\ Branch(p, "push", "push_load")

(* wait_event_interruptible on the space in cbuf_out.                      *)
WriteWait(p) ==
  /\ cbuf_out # Freed
  /\ Branch(p, "write_wait",
            IF cbuffer_is_full(cbuf_out) THEN "write_asleep" ELSE "enqueue")

EnqueueUntested(p) ==   \* mutant: trusts the wait
  cbuf_out # Freed /\ Branch(p, "enqueue", "store")

(* cbuffer_enqueue in three accesses: the test, the slot, the head.  When  *)
(* a signal ended the wait, the buffer may still be full: the loop breaks. *)
Enqueue(p) ==
  /\ cbuf_out # Freed
  /\ Branch(p, "enqueue", IF cbuffer_is_full(cbuf_out) THEN "push" ELSE "store")

StoreByte(p) ==
  /\ pc[p] = "store" /\ given[p] # "freed"
  /\ cbuf_out' = WorkedOn(p, cbuf_out, Stored(cbuf_out, byte[p]))
  /\ Goto(p, "move_head")
  /\ UNCHANGED <<file, uart_initialized, cbuf_in, empty_thr_from_isr, locals,
                 transmitter, receiver>>

MoveHead(p) ==
  /\ pc[p] = "move_head" /\ given[p] # "freed"
  /\ cbuf_out' = WorkedOn(p, cbuf_out, HeadMoved(cbuf_out))
  /\ RoutineReturns(p)
  /\ left' = [left EXCEPT ![p] = @ - 1]
  /\ byte' = [byte EXCEPT ![p] = NoByte]
  /\ Goto(p, "copy_from_user")
  /\ UNCHANGED <<file, uart_initialized, cbuf_in, empty_thr_from_isr, to_send,
                 transmitter, receiver>>

FlagKept(p, from, to) == Branch(p, from, to)   \* mutant: the flag stays up

(* Nothing is being sent: the writer gives the UART a byte itself, and its *)
(* interrupts start again.  When the buffer is full it clears the flag     *)
(* first; at the end of the write it clears it once it has the byte.       *)
ClearFlag(p, from, to) ==
  /\ pc[p] = from
  /\ empty_thr_from_isr' = FALSE
  /\ Goto(p, to)
  /\ UNCHANGED <<file, uart_initialized, cbuf_in, cbuf_out, locals, transmitter, receiver>>

LoadByte(p, from, to) ==
  /\ pc[p] = from /\ cbuf_out # Freed
  /\ ~cbuffer_is_empty(cbuf_out)
  /\ to_send' = [to_send EXCEPT ![p] = Oldest(cbuf_out)]
  /\ cbuf_out' = OldestErased(cbuf_out)
  /\ Goto(p, to)
  /\ UNCHANGED <<file, uart_initialized, cbuf_in, empty_thr_from_isr, left, byte,
                 given, transmitter, receiver>>

MoveTail(p, from, to) ==
  /\ pc[p] = from /\ given[p] # "freed"
  /\ cbuf_out' = WorkedOn(p, cbuf_out, TailMoved(cbuf_out))
  /\ RoutineReturns(p)
  /\ Goto(p, to)
  /\ UNCHANGED <<file, uart_initialized, cbuf_in, empty_thr_from_isr, left, byte,
                 to_send, transmitter, receiver>>

(* outb to the THR, which also clears the pending interrupt.               *)
OutThr(p, from, to) ==
  /\ pc[p] = from /\ ~DivisorLatch
  /\ thr' = to_send[p]
  /\ thr_pending' = FALSE
  /\ to_send' = [to_send EXCEPT ![p] = NoByte]
  /\ Goto(p, to)
  /\ UNCHANGED <<shared, left, byte, given, ier, line, receiver>>

(* cbuffer_dequeue found the buffer empty.                                 *)
NothingToSend(p, from) ==
  /\ Return(p, from) /\ cbuf_out # Freed
  /\ cbuffer_is_empty(cbuf_out)

ForceFirst(p) ==
  \/ ClearFlag(p, "force_clear", "force_load")
  \/ LoadByte(p, "force_load", "force_move")
  \/ NothingToSend(p, "force_load")
  \/ MoveTail(p, "force_move", "force_out")
  \/ OutThr(p, "force_out", "write_wait")

PushClearsFirst(p) ==   \* mutant: in the order of a forced push
  \/ empty_thr_from_isr /\ Branch(p, "push", "push_clear")
  \/ ClearFlag(p, "push_clear", "push_load")
  \/ LoadByte(p, "push_load", "push_move")
  \/ NothingToSend(p, "push_load")
  \/ MoveTail(p, "push_move", "push_out")
  \/ OutThr(p, "push_out", "pushed")

PushFirst(p) ==
  \/ TestPush(p)
  \/ LoadByte(p, "push_load", "push_move")
  \/ NothingToSend(p, "push_load")
  \/ MoveTail(p, "push_move", "push_clear")
  \/ ClearFlag(p, "push_clear", "push_out")
  \/ OutThr(p, "push_out", "pushed")

WriteReturns(p) ==
  \/ ~empty_thr_from_isr /\ Return(p, "push")
  \/ Return(p, "pushed")

WriteStep(p) ==
  \/ Astray(p)
  \/ CopyFromUser(p) \/ EndOfBytes(p)
  \/ TestFull(p) \/ TestFlag(p) \/ ForceFirst(p) \/ WriteWait(p)
  \/ Enqueue(p) \/ StoreByte(p) \/ MoveHead(p)
  \/ PushFirst(p) \/ WriteReturns(p)

-----------------------------------------------------------------------------
(* rs232_tut_read.                                                         *)

(* The test and wait_event_interruptible, on the same condition.           *)
TestEmpty(p) ==
  /\ cbuf_in # Freed
  /\ Branch(p, "read_test", IF cbuffer_is_empty(cbuf_in) THEN "read_wait" ELSE "read_loop")

ReadWait(p) ==
  /\ cbuf_in # Freed
  /\ Branch(p, "read_wait",
            IF cbuffer_is_empty(cbuf_in) THEN "read_asleep" ELSE "read_loop")

(* A turn of the loop; cbuffer_dequeue in three accesses.                  *)
ReadLoop(p) ==
  /\ Branch(p, "read_loop", "read_load")
  /\ left[p] # 0 /\ cbuf_in # Freed
  /\ ~cbuffer_is_empty(cbuf_in)

ReadByte(p) ==
  /\ pc[p] = "read_load" /\ cbuf_in # Freed
  /\ ~cbuffer_is_empty(cbuf_in)
  /\ byte' = [byte EXCEPT ![p] = Oldest(cbuf_in)]
  /\ cbuf_in' = OldestErased(cbuf_in)
  /\ Goto(p, "read_move")
  /\ UNCHANGED <<file, uart_initialized, cbuf_out, empty_thr_from_isr, left,
                 to_send, given, transmitter, receiver>>

ReadMove(p) ==
  /\ pc[p] = "read_move" /\ given[p] # "freed"
  /\ cbuf_in' = WorkedOn(p, cbuf_in, TailMoved(cbuf_in))
  /\ RoutineReturns(p)
  /\ Goto(p, "copy_to_user")
  /\ UNCHANGED <<file, uart_initialized, cbuf_out, empty_thr_from_isr, left, byte,
                 to_send, transmitter, receiver>>

CopyToUser(p) ==
  /\ pc[p] = "copy_to_user"
  /\ got' = byte[p]
  /\ left' = [left EXCEPT ![p] = @ - 1]
  /\ byte' = [byte EXCEPT ![p] = NoByte]
  /\ Goto(p, "read_loop")
  /\ UNCHANGED <<shared, to_send, given, transmitter, rbr, overrun, crashed>>

(* A fault of copy_to_user: the byte was dequeued, and is lost.            *)
CopyToUserFault(p) ==
  /\ pc[p] = "copy_to_user"
  /\ got' = NoByte
  /\ byte' = [byte EXCEPT ![p] = NoByte]
  /\ Goto(p, "read_end")
  /\ UNCHANGED <<shared, left, to_send, given, transmitter, rbr, overrun, crashed>>

ReadReturns(p) ==
  \/ Return(p, "read_loop") /\ left[p] = 0
  \/ Return(p, "read_loop") /\ cbuf_in # Freed /\ cbuffer_is_empty(cbuf_in)
  \/ Return(p, "read_load") /\ cbuf_in # Freed /\ cbuffer_is_empty(cbuf_in)
  \/ Return(p, "read_end")

ReadStep(p) ==
  \/ Astray(p)
  \/ TestEmpty(p) \/ ReadWait(p) \/ ReadLoop(p) \/ ReadByte(p) \/ ReadMove(p)
  \/ CopyToUser(p) \/ CopyToUserFault(p) \/ ReadReturns(p)

(* A signal ends a wait; neither routine looks at what the wait returned.  *)
Signal(p) ==
  \/ Branch(p, "write_asleep", "enqueue")
  \/ Branch(p, "read_asleep", "read_loop")

-----------------------------------------------------------------------------
(* rs232_tut_isr: one turn of its loop, on the interrupt of the highest    *)
(* priority.                                                               *)
IsrError ==
  /\ ier /\ overrun
  /\ overrun' = FALSE
  /\ UNCHANGED <<shared, pc, locals, transmitter, rbr, got, crashed>>

EnqueueAnyway ==   \* mutant: no test of a full buffer
  /\ ier /\ ~overrun /\ rbr # NoByte
  /\ ~DivisorLatch /\ cbuf_in # Freed
  /\ cbuf_in' = cbuffer_enqueue(cbuf_in, rbr)
  /\ rbr' = NoByte
  /\ pc' = Woken
  /\ UNCHANGED <<file, uart_initialized, cbuf_out, empty_thr_from_isr, locals,
                 transmitter, overrun, got, crashed>>

IsrDataAvail ==
  /\ ier /\ ~overrun /\ rbr # NoByte
  /\ ~DivisorLatch /\ cbuf_in # Freed
  /\ ~cbuffer_is_full(cbuf_in)
  /\ cbuf_in' = cbuffer_enqueue(cbuf_in, rbr)
  /\ rbr' = NoByte
  /\ pc' = Woken
  /\ UNCHANGED <<file, uart_initialized, cbuf_out, empty_thr_from_isr, locals,
                 transmitter, overrun, got, crashed>>

(* The buffer is full: the oldest byte is dequeued through a character     *)
(* that was never given a value, taken for an address.                     *)
IsrOverwrite ==
  /\ ier /\ ~overrun /\ rbr # NoByte
  /\ ~DivisorLatch /\ cbuf_in # Freed
  /\ cbuffer_is_full(cbuf_in)
  /\ crashed' = TRUE
  /\ rbr' = NoByte
  /\ UNCHANGED <<shared, pc, locals, transmitter, overrun, got>>

(* Reading the IIR clears the interrupt.                                   *)
IsrEmptyThr ==
  /\ ier /\ ~overrun /\ rbr = NoByte /\ thr_pending
  /\ cbuf_out # Freed
  /\ pc' = Woken
  /\ \/ /\ ~cbuffer_is_empty(cbuf_out) /\ ~DivisorLatch
        /\ thr' = Oldest(cbuf_out)
        /\ cbuf_out' = cbuffer_dequeue(cbuf_out)
        /\ UNCHANGED empty_thr_from_isr
     \/ /\ cbuffer_is_empty(cbuf_out)
        /\ empty_thr_from_isr' = TRUE
        /\ UNCHANGED <<thr, cbuf_out>>
  /\ thr_pending' = FALSE
  /\ UNCHANGED <<file, uart_initialized, cbuf_in, locals, ier, line, receiver>>

(* The buffer is not there; or the divisor latch is in place of the RBR,   *)
(* and the loop never ends, or of the THR, and the speed of the line is    *)
(* lost.                                                                   *)
IsrAstray ==
  /\ ier /\ ~overrun
  /\ \/ rbr # NoByte /\ (DivisorLatch \/ cbuf_in = Freed)
     \/ /\ rbr = NoByte /\ thr_pending
        /\ \/ cbuf_out = Freed
           \/ DivisorLatch /\ cbuf_out # Freed /\ ~cbuffer_is_empty(cbuf_out)
  /\ crashed' = TRUE
  /\ UNCHANGED <<shared, pc, locals, transmitter, rbr, overrun, got>>

Isr == IsrError \/ IsrDataAvail \/ IsrOverwrite \/ IsrEmptyThr \/ IsrAstray

(* The UART sends the byte of the THR, and interrupts if it may.           *)
Shift ==
  /\ thr # NoByte
  /\ line' = thr
  /\ thr' = NoByte
  /\ thr_pending' = ier
  /\ UNCHANGED <<shared, pc, locals, ier, receiver>>

(* A byte arrives; the one before it is lost if nobody has read it.        *)
Arrive(b) ==
  /\ overrun' = (overrun \/ rbr # NoByte)
  /\ rbr' = b
  /\ UNCHANGED <<shared, pc, locals, transmitter, got, crashed>>

-----------------------------------------------------------------------------
Init ==
  /\ file = [f \in Files |-> "closed"]
  /\ uart_initialized = 0
  /\ cbuf_in = Freed
  /\ cbuf_out = Freed
  /\ empty_thr_from_isr = FALSE
  /\ pc = [p \in Processes |-> "idle"]
  /\ left = [p \in Processes |-> 0]
  /\ byte = [p \in Processes |-> NoByte]
  /\ to_send = [p \in Processes |-> NoByte]
  /\ given = [p \in Processes |-> "current"]
  /\ ier = FALSE
  /\ thr = NoByte
  /\ thr_pending = FALSE
  /\ line = NoByte
  /\ rbr = NoByte
  /\ overrun = FALSE
  /\ got = NoByte
  /\ crashed = FALSE

Next ==
  /\ ~crashed
  /\ \/ \E f \in Files : FileStep(f)
     \/ \E p \in Processes : Signal(p)
     \/ \E p \in Writers :
          (\E n \in 0 .. MaxSize : Call(p, n, "copy_from_user")) \/ WriteStep(p)
     \/ \E p \in Readers :
          (\E n \in 0 .. MaxSize : Call(p, n, "read_test")) \/ ReadStep(p)
     \/ Isr
     \/ Shift
     \/ \E b \in Heard : Arrive(b)

Spec == Init /\ [][Next]_vars

(* The kernel schedules every process that can run, also in the middle of  *)
(* an open or a release; the UART sends what it has, and its interrupts    *)
(* are served: at 9600 bauds a byte takes far longer to arrive than the    *)
(* loop of the interrupt routine to empty, so the interrupts of high       *)
(* priority do not keep the others waiting for ever.  Nobody has to open,  *)
(* to close, to call, or to receive anything.                              *)
Fairness ==
  /\ \A p \in Writers : WF_vars(~crashed /\ WriteStep(p))
  /\ \A p \in Readers : WF_vars(~crashed /\ ReadStep(p))
  /\ \A f \in Files : WF_vars(~crashed /\ file[f] \notin {"closed", "open"} /\ FileStep(f))
  /\ WF_vars(~crashed /\ Isr)
  /\ SF_vars(~crashed /\ (IsrDataAvail \/ IsrOverwrite))
  /\ SF_vars(~crashed /\ IsrEmptyThr)
  /\ WF_vars(~crashed /\ Shift)

FairSpec == Spec /\ Fairness

-----------------------------------------------------------------------------
Labels ==
  {"idle", "copy_from_user", "test_full", "test_flag", "force_clear",
   "force_load", "force_move", "force_out", "write_wait", "write_asleep", "enqueue",
   "store", "move_head", "push", "push_load", "push_move", "push_clear", "push_out",
   "pushed", "read_test", "read_wait", "read_asleep", "read_loop", "read_load",
   "read_move", "copy_to_user", "read_end"}

(* The type of every variable: in particular no blank and no erased slot   *)
(* is ever taken for a byte.                                               *)
TypeOK ==
  /\ file \in [Files -> {"closed", "open"} \cup Opening \cup {"testing"} \cup Closing]
  /\ uart_initialized \in 0 .. Cardinality(Files)
  /\ cbuf_in \in Buffers(SizeIn, Byte) \cup {Freed}
  /\ cbuf_out \in Buffers(SizeOut, Byte) \cup {Freed}
  /\ empty_thr_from_isr \in BOOLEAN
  /\ pc \in [Processes -> Labels]
  /\ left \in [Processes -> 0 .. MaxSize]
  /\ byte \in [Processes -> Byte \cup {NoByte}]
  /\ to_send \in [Processes -> Byte \cup {NoByte}]
  /\ given \in [Processes -> {"current", "replaced", "freed"}]
  /\ ier \in BOOLEAN
  /\ thr \in Byte \cup {NoByte}
  /\ thr_pending \in BOOLEAN
  /\ line \in Byte \cup {NoByte}
  /\ rbr \in Byte \cup {NoByte}
  /\ overrun \in BOOLEAN
  /\ got \in Byte \cup {NoByte}
  /\ crashed \in BOOLEAN

(* With one writer, the flag says what its name says to the routine that   *)
(* acts on it: once open has returned, no byte is in the THR and none is   *)
(* about to be put there by the interrupt routine.                         *)
FlagMeansIdle ==
  empty_thr_from_isr /\ (\A f \in Files : file[f] # "opening")
    => thr = NoByte /\ ~thr_pending

(* The transmitter is dead: the UART may interrupt but has nothing to send *)
(* and nothing to interrupt for, no writer is about to give it a byte, and *)
(* the flag does not tell the next one to.                                 *)
Dead ==
  /\ ier
  /\ thr = NoByte
  /\ ~thr_pending
  /\ ~empty_thr_from_isr
  /\ \A p \in Writers : pc[p] \notin {"force_load", "force_move", "force_out", "push_out"}

(* Whatever the order of the accesses to the flag, the buffer and the THR  *)
(* on both sides, as long as the UART may interrupt, the transmitter dies  *)
(* in one place only: a forced push that clears the flag, then finds the   *)
(* buffer it saw full empty.                                               *)
DiesOnlyInForce ==
  [][Dead' => Dead \/ \E p \in Writers : pc[p] = "force_load" /\ pc'[p] = "idle"]_vars

(* uart_initialized is the "Statut du pilote": when it says that the       *)
(* device is open, no open is about to initialise it and no release is     *)
(* putting it out of use, the buffers are there and the UART may interrupt. *)
StatusIsTrue ==
  /\ uart_initialized # 0
  /\ \A f \in Files : file[f] = "counted" => uart_initialized # 1
  /\ \A f \in Files : file[f] \notin Initialising \cup Closing
  => ier /\ cbuf_in # Freed /\ cbuf_out # Freed

(* A write returns, even on a full buffer, as long as the transmitter      *)
(* lives and no late release takes the device away.                        *)
WriteTerminates ==
  [](~Dead /\ StatusIsTrue) =>
    \A p \in Writers : pc[p] = "copy_from_user" ~> pc[p] = "idle" \/ crashed

(* And every byte a write took goes on its way, unless the device is       *)
(* closed or initialised: no other write has to come and push it.          *)
BufferDrains ==
  [](~Dead /\ StatusIsTrue) =>
    (uart_initialized # 0 /\ cbuf_out # Freed /\ ~cbuffer_is_empty(cbuf_out)
       ~> \/ thr # NoByte \/ crashed
          \/ uart_initialized = 0 \/ \E f \in Files : file[f] \in Allocating)

(* A read waits for nothing but a byte: it returns, or it has nothing to   *)
(* read.                                                                   *)
ReadTerminates ==
  \A p \in Readers :
    pc[p] # "idle" ~>
      \/ pc[p] = "idle" \/ crashed
      \/ /\ pc[p] \in {"read_test", "read_wait", "read_asleep"}
         /\ cbuf_in = Freed \/ cbuffer_is_empty(cbuf_in)

-----------------------------------------------------------------------------
InHand(b) == IF b = NoByte THEN <<>> ELSE <<b>>

Kept(buf) == IF buf = Freed THEN <<>> ELSE Contents(buf)

(* What a process holds, then what the buffer holds; between the two       *)
(* halves of its dequeue the byte it holds is also the buffer's oldest.    *)
Stream(procs, hand, moving, buf) ==
  LET movers == {p \in procs : pc[p] \in moving /\ given[p] = "current"}
      holders == {p \in procs : hand[p] # NoByte}
  IN  IF movers # {}
        THEN InHand(hand[CHOOSE p \in movers : TRUE]) \o Tail(Contents(buf))
        ELSE IF holders # {}
               THEN InHand(hand[CHOOSE p \in holders : TRUE]) \o Kept(buf)
               ELSE Kept(buf)

Port == INSTANCE SerialPort WITH
  opens <- uart_initialized,
  starting <- \E f \in Files : file[f] \in Allocating,
  closing <- \E f \in Files : file[f] \in Closing,
  outgoing <- InHand(thr) \o Stream(Writers, to_send, {"force_move", "push_move"}, cbuf_out),
  incoming <- Stream(Readers, byte, {"read_move"}, cbuf_in)

(* With one writer and one reader, as in the chat program, the driver is   *)
(* two byte streams: whatever the interrupt routine, the writer and the    *)
(* reader do between each other's accesses, no byte is lost, duplicated or *)
(* overtaken between a write and the line, nor between an interrupt and a  *)
(* read.                                                                   *)
SerialPortSpec == Port!Spec

(* A release takes the device from the others in one way only: it found    *)
(* nobody left, and an open came before it was done.  It is then done      *)
(* after that open has begun, or has freed a buffer of that open before    *)
(* the open is done.                                                       *)
OnlyLateOpenLosesDevice ==
  [][/\ \A f \in Files :
          file[f] = "testing" /\ file'[f] = "masking"
            => \A g \in Files : file[g] \notin Opening \cup {"open"}
     /\ StatusIsTrue /\ ~StatusIsTrue'
          => \/ \E f, g \in Files : file[f] = "free_out" /\ file[g] \in Opening \cup {"open"}
             \/ /\ \E g \in Files : file[g] = "enable"
                /\ cbuf_in = Freed \/ cbuf_out = Freed]_vars

=============================================================================
