---------------------------- MODULE Rs232Proofs ----------------------------
(***************************************************************************)
(* For buffers of every size, any number of files and calls of any length: *)
(* the driver of the first assignment with at most one writer and one      *)
(* reader, as in the chat program, and no open while another one sleeps in *)
(* an allocation: either allocations do not sleep, or there is one file.   *)
(*                                                                         *)
(* The invariant says, for each place of the write and read routines, what *)
(* the process that is there may count on while the interrupt routine runs *)
(* between its accesses: who may touch the THR, which byte is in whose     *)
(* hands, and what of the buffer is still as the process saw it.           *)
(***************************************************************************)
EXTENDS Rs232, CBufferProofs, FiniteSetTheorems

(* The hypotheses of the theorems.                                         *)
OneWriter == \A p, q \in Writers : p = q
OneReader == \A p, q \in Readers : p = q
OpensAlone == MaySleep => \A f, g \in Files : f = g

WriteLabels ==
  {"idle", "copy_from_user", "test_full", "test_flag", "force_clear",
   "force_load", "force_move", "force_out", "write_wait", "write_asleep", "enqueue",
   "store", "move_head", "push", "push_load", "push_move", "push_clear", "push_out",
   "pushed"}

ReadLabels ==
  {"idle", "read_test", "read_wait", "read_asleep", "read_loop", "read_load",
   "read_move", "copy_to_user", "read_end"}

(* A writer holds a byte of its user; is between the two halves of its     *)
(* dequeue; holds a byte for the UART.                                     *)
Carrying ==
  {"test_full", "test_flag", "force_clear", "force_load", "force_move", "force_out",
   "write_wait", "write_asleep", "enqueue", "store", "move_head"}
WriteMoving == {"force_move", "push_move"}
Sending == {"force_move", "force_out", "push_move", "push_clear", "push_out"}

(* A writer has found the flag up and not cleared it; it has cleared it    *)
(* and not yet given its byte to the UART.                                 *)
FlagUp == {"force_clear", "push_load", "push_move", "push_clear"}
FlagDown == {"force_load", "force_move", "force_out", "push_out"}

ReadMoving == {"read_move"}

InUse == Opening \cup {"open"}
Users == {f \in Files : file[f] \in InUse}

(* Where an open is once it has found itself alone; and has its buffers.   *)
Started == {"clear_rbr", "set_speed", "set_line", "enable", "opening"}
Alone == Allocating \cup Started

(* The count is the number of files in use, opens come one at a time, one  *)
(* that found itself alone is alone, and a call holds its file open.       *)
FilesCounted ==
  /\ uart_initialized = Cardinality(Users)
  /\ \A f, g \in Files : file[f] \in Opening /\ file[g] \in Opening => f = g
  /\ \A f, g \in Files : file[f] \in Alone /\ file[g] \in InUse => f = g
  /\ \A p \in Processes : pc[p] # "idle" => file[FileOf[p]] = "open"

(* The flag and the pending interrupt both say that the THR is empty; only *)
(* an open may find both, and then nothing is in the buffer.               *)
ThrIdle ==
  /\ empty_thr_from_isr => thr = NoByte
  /\ thr_pending => thr = NoByte
  /\ empty_thr_from_isr /\ thr_pending => \E f \in Files : file[f] = "opening"

StartedEmpty ==
  \A f \in Files : file[f] \in Started /\ cbuf_out # Freed => cbuffer_is_empty(cbuf_out)

(* What a writer at l counts on.                                           *)
WriterAt(p, l) ==
  /\ l \in WriteLabels
  /\ l \in FlagUp => empty_thr_from_isr
  /\ l \in FlagDown => ~empty_thr_from_isr /\ ~thr_pending /\ thr = NoByte
  /\ l \in Sending <=> to_send[p] # NoByte
  /\ l \in Carrying => byte[p] # NoByte /\ left[p] # 0
  /\ l \in InRoutineOut /\ cbuf_out = Freed => given[p] = "freed"
  /\ l \notin InRoutineOut \/ cbuf_out # Freed => given[p] = "current"
  /\ cbuf_out # Freed =>
       /\ l \in {"store", "move_head"} => ~cbuffer_is_full(cbuf_out)
       /\ l = "move_head" => cbuf_out.cbuff[cbuf_out.head] = byte[p]
       /\ l \in WriteMoving => ~cbuffer_is_empty(cbuf_out)

(* What a reader at l counts on.                                           *)
ReaderAt(p, l) ==
  /\ l \in ReadLabels
  /\ l \in {"read_move", "copy_to_user"} <=> byte[p] # NoByte
  /\ l \in {"read_load", "read_move", "copy_to_user"} => left[p] # 0
  /\ l \in InRoutineIn /\ cbuf_in = Freed => given[p] = "freed"
  /\ l \notin InRoutineIn \/ cbuf_in # Freed => given[p] = "current"
  /\ cbuf_in # Freed /\ l \in ReadMoving => ~cbuffer_is_empty(cbuf_in)

(* The held slots hold bytes, but for the oldest while it is being taken.  *)
Held(buf, moving) ==
  buf # Freed =>
    /\ moving => Tail(Contents(buf)) \in Seq(Byte)
    /\ ~moving => Contents(buf) \in Seq(Byte)

Writing == \A p \in Writers : WriterAt(p, pc[p])
Reading == \A p \in Readers : ReaderAt(p, pc[p])

NotSending == \A p \in Readers : to_send[p] = NoByte

BytesHeld ==
  /\ Held(cbuf_out, \E p \in Writers : pc[p] \in WriteMoving)
  /\ Held(cbuf_in, \E p \in Readers : pc[p] \in ReadMoving)

IInv ==
  /\ OneWriter
  /\ OneReader
  /\ OpensAlone
  /\ TypeOK
  /\ FilesCounted
  /\ ThrIdle
  /\ StartedEmpty
  /\ Writing
  /\ Reading
  /\ NotSending
  /\ BytesHeld

(* Every file closed, nobody in a call: the invariant holds at first.      *)
LEMMA InitInv == OneWriter /\ OneReader /\ OpensAlone /\ Init => IInv
<1> SUFFICES ASSUME OneWriter, OneReader, OpensAlone, Init PROVE IInv
  OBVIOUS
<1>1. TypeOK
  <2>1. IsFiniteSet(Files) /\ Cardinality(Files) \in Nat
    BY Rs232Assumption, FS_CardinalityType
  <2>2. MaxSize \in Nat
    BY Rs232Assumption
  <2>3. 0 \in 0 .. Cardinality(Files) /\ 0 \in 0 .. MaxSize
    BY <2>1, <2>2
  <2>4. /\ file \in [Files -> {"closed", "open"} \cup Opening \cup {"testing"} \cup Closing]
        /\ pc \in [Processes -> Labels]
        /\ given \in [Processes -> {"current", "replaced", "freed"}]
    BY DEF Init, Labels
  <2>5. left \in [Processes -> 0 .. MaxSize]
    BY <2>3 DEF Init
  <2> QED BY <2>3, <2>4, <2>5 DEF Init, TypeOK
<1>2. FilesCounted
  <2>1. Users = {}
    BY DEF Init, Users, InUse, Opening, Initialising, Allocating
  <2>2. Cardinality(Users) = 0
    BY <2>1, FS_EmptySet
  <2> QED BY <2>2 DEF Init, FilesCounted, Opening, Alone, Initialising, Allocating, Started
<1>3. ThrIdle /\ StartedEmpty
  BY DEF Init, ThrIdle, StartedEmpty
<1>4. Writing
  BY DEF Init, Writing, WriterAt, WriteLabels, FlagUp, FlagDown, Sending, Carrying,
         WriteMoving, InRoutineOut, Processes
<1>5. Reading
  BY DEF Init, Reading, ReaderAt, ReadLabels, ReadMoving, InRoutineIn, Processes
<1>6. NotSending
  BY DEF Init, NotSending, Processes
<1>7. BytesHeld
  BY DEF Init, BytesHeld, Held
<1> QED BY <1>1, <1>2, <1>3, <1>4, <1>5, <1>6, <1>7 DEF IInv

-----------------------------------------------------------------------------
(* A step of a writer, which goes to l: all it leaves alone.               *)
OnlyWriter(p, l) ==
  /\ UNCHANGED <<file, uart_initialized, cbuf_in, ier, line, rbr, overrun, got, crashed>>
  /\ pc' = [pc EXCEPT ![p] = l]
  /\ \A q \in Processes \ {p} :
       /\ left'[q] = left[q]
       /\ byte'[q] = byte[q]
       /\ to_send'[q] = to_send[q]
       /\ given'[q] = given[q]
  /\ left' \in [Processes -> 0 .. MaxSize]
  /\ byte' \in [Processes -> Byte \cup {NoByte}]
  /\ to_send' \in [Processes -> Byte \cup {NoByte}]
  /\ given' \in [Processes -> {"current", "replaced", "freed"}]
  /\ cbuf_out' \in Buffers(SizeOut, Byte) \cup {Freed}
  /\ empty_thr_from_isr' \in BOOLEAN
  /\ thr' \in Byte \cup {NoByte}
  /\ thr_pending' \in BOOLEAN

(* A step of a reader, which goes to l.                                    *)
OnlyReader(p, l) ==
  /\ UNCHANGED <<file, uart_initialized, cbuf_out, empty_thr_from_isr, to_send, ier,
                 thr, thr_pending, line, rbr, overrun, crashed>>
  /\ pc' = [pc EXCEPT ![p] = l]
  /\ \A q \in Processes \ {p} :
       /\ left'[q] = left[q]
       /\ byte'[q] = byte[q]
       /\ given'[q] = given[q]
  /\ left' \in [Processes -> 0 .. MaxSize]
  /\ byte' \in [Processes -> Byte \cup {NoByte}]
  /\ given' \in [Processes -> {"current", "replaced", "freed"}]
  /\ cbuf_in' \in Buffers(SizeIn, Byte) \cup {Freed}
  /\ got' \in Byte \cup {NoByte}

(* No buffer is the mark of a buffer that is not allocated.                *)
LEMMA BuffersAreNotFreed ==
  /\ \A c \in Buffers(SizeIn, Byte) : c # Freed
  /\ \A c \in Buffers(SizeOut, Byte) : c # Freed
  BY Rs232Assumption

(* While a file is open, no open initialises the device.                   *)
LEMMA NobodyStarts ==
  ASSUME IInv, NEW p \in Processes, pc[p] # "idle" \/ file[FileOf[p]] = "open"
  PROVE  /\ \A f \in Files : file[f] \notin Alone
         /\ ~DivisorLatch
<1>1. FileOf[p] \in Files /\ file[FileOf[p]] = "open"
  BY Rs232Assumption DEF IInv, FilesCounted
<1>2. \A f \in Files : file[f] \notin Alone
  BY <1>1 DEF IInv, FilesCounted, InUse, Alone, Allocating, Started
<1> QED BY <1>2 DEF DivisorLatch, Alone, Started

(* No interrupt is pending under the flag while a file is open.            *)
LEMMA FlagOrPending ==
  ASSUME IInv, NEW p \in Processes, pc[p] # "idle" \/ file[FileOf[p]] = "open"
  PROVE  ~(empty_thr_from_isr /\ thr_pending)
  BY NobodyStarts DEF IInv, ThrIdle, Alone, Started

(* A step of a writer that keeps what concerns the THR and the writer's    *)
(* place keeps the rest.                                                   *)
LEMMA WriterStepKeeps ==
  ASSUME IInv, NEW p \in Writers, NEW l, OnlyWriter(p, l),
         pc[p] # "idle" \/ file[FileOf[p]] = "open",
         ThrIdle',
         WriterAt(p, l)',
         Held(cbuf_out, l \in WriteMoving)'
  PROVE  IInv'
<1> p \in Processes /\ p \notin Readers
  BY Rs232Assumption DEF Processes
<1>1. l \in WriteLabels
  BY DEF WriterAt
<1>2. pc \in [Processes -> Labels]
  BY DEF IInv, TypeOK
<1>3. pc'[p] = l /\ \A q \in Processes \ {p} : pc'[q] = pc[q]
  BY <1>2 DEF OnlyWriter
<1>4. TypeOK'
  <2>1. l \in Labels
    BY <1>1 DEF WriteLabels, Labels
  <2>2. pc' \in [Processes -> Labels]
    BY <1>2, <2>1 DEF OnlyWriter
  <2>3. TypeOK
    BY DEF IInv
  <2> QED BY <2>2, <2>3 DEF TypeOK, OnlyWriter
<1>5. FilesCounted'
  <2>1. FilesCounted /\ file' = file /\ uart_initialized' = uart_initialized
    BY DEF IInv, OnlyWriter
  <2>2. Users' = Users
    BY <2>1 DEF Users
  <2>3. \A q \in Processes : pc'[q] # "idle" => file[FileOf[q]] = "open"
    BY <1>3, <2>1 DEF FilesCounted
  <2> QED BY <2>1, <2>2, <2>3 DEF FilesCounted
<1>11. StartedEmpty'
  <2>1. file' = file
    BY DEF OnlyWriter
  <2> QED BY NobodyStarts, <2>1 DEF StartedEmpty, Alone
<1>6. Writing'
  <2> SUFFICES ASSUME NEW q \in Writers PROVE WriterAt(q, pc[q])'
    BY DEF Writing
  <2>1. q = p
    BY DEF IInv, OneWriter
  <2>2. WriterAt(q, l)'
    BY <2>1
  <2>3. pc'[q] = l
    BY <1>3, <2>1
  <2> QED BY <2>2, <2>3 DEF WriterAt
<1>7. Reading'
  <2> SUFFICES ASSUME NEW q \in Readers PROVE ReaderAt(q, pc[q])'
    BY DEF Reading
  <2>1. q \in Processes \ {p}
    BY DEF Processes
  <2>2. ReaderAt(q, pc[q])
    BY DEF IInv, Reading
  <2>3. /\ pc'[q] = pc[q]
        /\ byte'[q] = byte[q]
        /\ left'[q] = left[q]
         /\ given'[q] = given[q]
        /\ cbuf_in' = cbuf_in
    BY <1>3, <2>1 DEF OnlyWriter
  <2> QED BY <2>2, <2>3 DEF ReaderAt
<1>8. NotSending'
  BY DEF IInv, NotSending, OnlyWriter, Processes
<1>9. BytesHeld'
  <2>1. (\E q \in Writers : pc'[q] \in WriteMoving) <=> l \in WriteMoving
    BY <1>3 DEF IInv, OneWriter
  <2>2. Held(cbuf_out, \E q \in Writers : pc[q] \in WriteMoving)'
    BY <2>1 DEF Held
  <2>3. (\E q \in Readers : pc'[q] \in ReadMoving) <=> (\E q \in Readers : pc[q] \in ReadMoving)
    BY <1>3 DEF Processes
  <2>4. Held(cbuf_in, \E q \in Readers : pc[q] \in ReadMoving)'
    <3>1. Held(cbuf_in, \E q \in Readers : pc[q] \in ReadMoving)
      BY DEF IInv, BytesHeld
    <3>2. cbuf_in' = cbuf_in
      BY DEF OnlyWriter
    <3> QED BY <2>3, <3>1, <3>2 DEF Held
  <2> QED BY <2>2, <2>4 DEF BytesHeld
<1>10. OneWriter /\ OneReader /\ OpensAlone
  BY DEF IInv
<1> QED BY <1>4, <1>5, <1>6, <1>7, <1>8, <1>9, <1>10, <1>11
        DEF IInv, OneWriter, OneReader, OpensAlone

(* So does a step of a reader that keeps what concerns its place.          *)
LEMMA ReaderStepKeeps ==
  ASSUME IInv, NEW p \in Readers, NEW l, OnlyReader(p, l),
         pc[p] # "idle" \/ file[FileOf[p]] = "open",
         ReaderAt(p, l)',
         Held(cbuf_in, l \in ReadMoving)'
  PROVE  IInv'
<1> p \in Processes /\ p \notin Writers
  BY Rs232Assumption DEF Processes
<1>1. l \in ReadLabels
  BY DEF ReaderAt
<1>2. pc \in [Processes -> Labels]
  BY DEF IInv, TypeOK
<1>3. pc'[p] = l /\ \A q \in Processes \ {p} : pc'[q] = pc[q]
  BY <1>2 DEF OnlyReader
<1>4. TypeOK'
  <2>1. l \in Labels
    BY <1>1 DEF ReadLabels, Labels
  <2>2. pc' \in [Processes -> Labels]
    BY <1>2, <2>1 DEF OnlyReader
  <2>3. TypeOK
    BY DEF IInv
  <2> QED BY <2>2, <2>3 DEF TypeOK, OnlyReader
<1>5. FilesCounted'
  <2>1. FilesCounted /\ file' = file /\ uart_initialized' = uart_initialized
    BY DEF IInv, OnlyReader
  <2>2. Users' = Users
    BY <2>1 DEF Users
  <2>3. \A q \in Processes : pc'[q] # "idle" => file[FileOf[q]] = "open"
    BY <1>3, <2>1 DEF FilesCounted
  <2> QED BY <2>1, <2>2, <2>3 DEF FilesCounted
<1>6. Reading'
  <2> SUFFICES ASSUME NEW q \in Readers PROVE ReaderAt(q, pc[q])'
    BY DEF Reading
  <2>1. q = p
    BY DEF IInv, OneReader
  <2>2. ReaderAt(q, l)'
    BY <2>1
  <2>3. pc'[q] = l
    BY <1>3, <2>1
  <2> QED BY <2>2, <2>3 DEF ReaderAt
<1>7. Writing'
  <2> SUFFICES ASSUME NEW q \in Writers PROVE WriterAt(q, pc[q])'
    BY DEF Writing
  <2>1. q \in Processes \ {p}
    BY DEF Processes
  <2>2. WriterAt(q, pc[q])
    BY DEF IInv, Writing
  <2>3. /\ pc'[q] = pc[q]
        /\ byte'[q] = byte[q]
        /\ left'[q] = left[q]
         /\ given'[q] = given[q]
        /\ UNCHANGED <<empty_thr_from_isr, thr, thr_pending, to_send, cbuf_out>>
    BY <1>3, <2>1 DEF OnlyReader
  <2> QED BY <2>2, <2>3 DEF WriterAt
<1>8. NotSending'
  BY DEF IInv, NotSending, OnlyReader
<1>9. BytesHeld'
  <2>1. (\E q \in Readers : pc'[q] \in ReadMoving) <=> l \in ReadMoving
    BY <1>3 DEF IInv, OneReader
  <2>2. Held(cbuf_in, \E q \in Readers : pc[q] \in ReadMoving)'
    BY <2>1 DEF Held
  <2>3. (\E q \in Writers : pc'[q] \in WriteMoving) <=> (\E q \in Writers : pc[q] \in WriteMoving)
    BY <1>3 DEF Processes
  <2>4. Held(cbuf_out, \E q \in Writers : pc[q] \in WriteMoving)'
    <3>1. Held(cbuf_out, \E q \in Writers : pc[q] \in WriteMoving)
      BY DEF IInv, BytesHeld
    <3>2. cbuf_out' = cbuf_out
      BY DEF OnlyReader
    <3> QED BY <2>3, <3>1, <3>2 DEF Held
  <2> QED BY <2>2, <2>4 DEF BytesHeld
<1>10. OneWriter /\ OneReader /\ OpensAlone /\ ThrIdle' /\ StartedEmpty'
  BY DEF IInv, ThrIdle, StartedEmpty, OnlyReader
<1> QED BY <1>4, <1>5, <1>6, <1>7, <1>8, <1>9, <1>10
        DEF IInv, OneWriter, OneReader, OpensAlone

-----------------------------------------------------------------------------
(* The two streams of the refinement mapping.                              *)
Outgoing == InHand(thr) \o Stream(Writers, to_send, {"force_move", "push_move"}, cbuf_out)
Incoming == Stream(Readers, byte, {"read_move"}, cbuf_in)

(* What one process and a buffer hold.                                     *)
OneStream(buf, hand, moving) ==
  IF moving /\ buf # Freed
    THEN InHand(hand) \o Tail(Contents(buf))
    ELSE InHand(hand) \o Kept(buf)

(* Nothing in hand leaves the sequence of a buffer as it is.               *)
LEMMA NothingInHand ==
  ASSUME NEW S, NEW s \in Seq(S)
  PROVE  InHand(NoByte) \o s = s
  BY ConcatEmptySeq DEF InHand

(* A sequence that is not empty is its head, then its tail.                *)
LEMMA HeadAndTail ==
  ASSUME NEW S, NEW s \in Seq(S), s # <<>>
  PROVE  /\ Head(s) \in S
         /\ Tail(s) \in Seq(S)
         /\ <<Head(s)>> \o Tail(s) = s
<1>1. Head(s) \in S /\ Tail(s) \in Seq(S) /\ Len(s) \in Nat /\ Len(s) > 0
  BY HeadTailProperties, EmptySeq
<1> QED BY <1>1, HeadTailAppend, SMTT(20)

(* What is appended to the buffer is appended to the stream.               *)
LEMMA AppendToStream ==
  ASSUME NEW S, NEW s \in Seq(S), NEW t \in Seq(S), NEW b \in S
  PROVE  s \o Append(t, b) = Append(s \o t, b)
<1>1. Append(t, b) = t \o <<b>> /\ <<b>> \in Seq(S)
  BY AppendIsConcat
<1>2. s \o t \in Seq(S) /\ Append(s \o t, b) = (s \o t) \o <<b>>
  BY AppendIsConcat, ConcatProperties
<1>3. (s \o t) \o <<b>> = s \o (t \o <<b>>)
  BY <1>1, ConcatAssociative
<1> QED BY <1>1, <1>2, <1>3

(* A byte in front of a sequence is its head.                              *)
LEMMA FirstOfStream ==
  ASSUME NEW S, NEW s \in Seq(S), NEW b \in S
  PROVE  /\ <<b>> \o s # <<>>
         /\ <<b>> \o s \in Seq(S)
         /\ Head(<<b>> \o s) = b
         /\ Tail(<<b>> \o s) = s
<1>1. <<b>> \in Seq(S) /\ Len(<<b>>) = 1 /\ <<b>>[1] = b
  OBVIOUS
<1>2. /\ <<b>> \o s \in Seq(S)
      /\ Len(<<b>> \o s) = 1 + Len(s)
      /\ \A i \in 1 .. 1 + Len(s) :
           (<<b>> \o s)[i] = IF i <= 1 THEN <<b>>[i] ELSE s[i - 1]
  BY <1>1, ConcatProperties
<1> DEFINE u == <<b>> \o s
<1>3. u \in Seq(S) /\ Len(u) = 1 + Len(s) /\ Len(s) \in Nat
  BY <1>2, LenProperties
<1>4. u[1] = b /\ \A i \in 1 .. Len(s) : u[i + 1] = s[i]
  <2>1. u[1] = b
    BY <1>1, <1>2, <1>3
  <2>2. ASSUME NEW i \in 1 .. Len(s) PROVE u[i + 1] = s[i]
    <3>1. i + 1 \in 1 .. 1 + Len(s) /\ ~(i + 1 <= 1) /\ (i + 1) - 1 = i
      BY <1>3
    <3> QED BY <1>2, <3>1
  <2> QED BY <2>1, <2>2
<1> HIDE DEF u
<1>5. u # <<>>
  BY <1>3, EmptySeq
<1>6. /\ Head(u) = u[1]
      /\ Tail(u) \in Seq(S)
      /\ Len(Tail(u)) = Len(u) - 1
      /\ \A i \in 1 .. Len(Tail(u)) : Tail(u)[i] = u[i + 1]
  BY <1>3, <1>5, HeadTailProperties
<1>7. Tail(u) = s
  <2>1. Len(Tail(u)) = Len(s)
    BY <1>3, <1>6
  <2>2. \A i \in 1 .. Len(s) : Tail(u)[i] = s[i]
    BY <1>4, <1>6, <2>1
  <2> QED BY <1>6, <2>1, <2>2, SeqEqual
<1> QED BY <1>3, <1>4, <1>5, <1>6, <1>7 DEF u

-----------------------------------------------------------------------------
Slots == Byte \cup {Blank, Erased}

(* What is in a hand is a sequence of at most one byte.                    *)
LEMMA InHandType == \A b \in Byte \cup {NoByte} : InHand(b) \in Seq(Slots)
<1> SUFFICES ASSUME NEW b \in Byte \cup {NoByte} PROVE InHand(b) \in Seq(Slots)
  OBVIOUS
<1>1. CASE b = NoByte
  <2>1. InHand(b) = <<>>
    BY <1>1 DEF InHand
  <2> QED BY <2>1, EmptySeq
<1>2. CASE b # NoByte
  <2>1. InHand(b) = <<b>> /\ b \in Slots
    BY <1>2 DEF InHand, Slots
  <2> HIDE DEF Slots
  <2>2. <<b>> \in Seq(Slots)
    BY <2>1
  <2> QED BY <2>1, <2>2
<1> QED BY <1>1, <1>2

(* The streams of a writer and of a reader, and of nobody.                 *)
WriterStreamIs ==
  \A p \in Writers :
    Outgoing = InHand(thr) \o OneStream(cbuf_out, to_send[p], pc[p] \in WriteMoving)

ReaderStreamIs ==
  \A p \in Readers : Incoming = OneStream(cbuf_in, byte[p], pc[p] \in ReadMoving)

QuietStreamIs ==
  (\A p \in Writers : to_send[p] = NoByte /\ pc[p] \notin WriteMoving)
    => Outgoing = InHand(thr) \o Kept(cbuf_out)

UnreadStreamIs ==
  (\A p \in Readers : byte[p] = NoByte /\ pc[p] \notin ReadMoving)
    => Incoming = Kept(cbuf_in)

(* What is kept of a buffer is a sequence, and its contents if it is there. *)
LEMMA KeptType ==
  ASSUME NEW size_ \in Nat \ {0}, NEW buf \in Buffers(size_, Byte) \cup {Freed}
  PROVE  /\ Kept(buf) \in Seq(Slots)
         /\ buf # Freed => Kept(buf) = Contents(buf)
<1>1. CASE buf = Freed
  <2>1. Kept(buf) = <<>>
    BY <1>1 DEF Kept
  <2> QED BY <1>1, <2>1, EmptySeq
<1>2. CASE buf # Freed
  <2>1. Kept(buf) = Contents(buf)
    BY <1>2 DEF Kept
  <2>2. Contents(buf) \in Seq(Slots)
    BY <1>2, ContentsAre DEF Slots
  <2> QED BY <2>1, <2>2
<1> QED BY <1>1, <1>2

(* With one writer, the outgoing stream is the THR, then the byte in the   *)
(* writer's hands, then the buffer.                                        *)
LEMMA WriterStream == IInv => WriterStreamIs
<1> SUFFICES ASSUME IInv, NEW p \in Writers
             PROVE  Outgoing = InHand(thr)
                      \o OneStream(cbuf_out, to_send[p], pc[p] \in WriteMoving)
  BY DEF WriterStreamIs
<1>1. \A q \in Writers : q = p
  BY DEF IInv, OneWriter
<1>2. Kept(cbuf_out) \in Seq(Slots)
  BY Rs232Assumption, KeptType DEF IInv, TypeOK
<1>4. \A q \in Writers : (pc[q] \in WriteMoving /\ given[q] = "current")
                       <=> (pc[q] \in WriteMoving /\ cbuf_out # Freed)
  BY DEF IInv, Writing, WriterAt, WriteMoving, InRoutineOut
<1>3. Stream(Writers, to_send, WriteMoving, cbuf_out)
        = OneStream(cbuf_out, to_send[p], pc[p] \in WriteMoving)
  <2>1. CASE pc[p] \in WriteMoving /\ cbuf_out # Freed
    <3> DEFINE M == {q \in Writers : pc[q] \in WriteMoving /\ given[q] = "current"}
               c == CHOOSE q \in M : TRUE
    <3>1. c \in Writers /\ pc[c] \in WriteMoving
      BY <1>4, <2>1
    <3>2. c = p
      BY <1>1, <3>1
    <3>3. M # {}
      BY <1>4, <2>1
    <3> QED BY <2>1, <3>2, <3>3 DEF Stream, OneStream
  <2>2. CASE ~(pc[p] \in WriteMoving /\ cbuf_out # Freed)
    <3>1. {q \in Writers : pc[q] \in WriteMoving /\ given[q] = "current"} = {}
      BY <1>1, <1>4, <2>2
    <3>2. CASE to_send[p] # NoByte
      <4> DEFINE H == {q \in Writers : to_send[q] # NoByte}
                 c == CHOOSE q \in H : TRUE
      <4>1. c \in Writers /\ to_send[c] # NoByte
        BY <3>2
      <4>2. c = p
        BY <1>1, <4>1
      <4>3. H # {}
        BY <3>2
      <4> QED BY <2>2, <3>1, <4>2, <4>3 DEF Stream, OneStream
    <3>3. CASE to_send[p] = NoByte
      <4>1. {q \in Writers : to_send[q] # NoByte} = {}
        BY <1>1, <3>3
      <4>2. InHand(to_send[p]) \o Kept(cbuf_out) = Kept(cbuf_out)
        BY <1>2, <3>3, NothingInHand
      <4> QED BY <2>2, <3>1, <4>1, <4>2 DEF Stream, OneStream
    <3> QED BY <3>2, <3>3
  <2> QED BY <2>1, <2>2
<1> QED BY <1>3 DEF Outgoing, WriteMoving

(* With no byte in a writer's hands, it is the THR, then the buffer.       *)
LEMMA QuietStream == QuietStreamIs
  BY DEF QuietStreamIs, Outgoing, Stream, WriteMoving

(* With one reader, the incoming stream is the byte in its hands, then     *)
(* the buffer.                                                             *)
LEMMA ReaderStream == IInv => ReaderStreamIs
<1> SUFFICES ASSUME IInv, NEW p \in Readers
             PROVE  Incoming = OneStream(cbuf_in, byte[p], pc[p] \in ReadMoving)
  BY DEF ReaderStreamIs
<1>1. \A q \in Readers : q = p
  BY DEF IInv, OneReader
<1>2. Kept(cbuf_in) \in Seq(Slots)
  BY Rs232Assumption, KeptType DEF IInv, TypeOK
<1>4. \A q \in Readers : (pc[q] \in ReadMoving /\ given[q] = "current")
                       <=> (pc[q] \in ReadMoving /\ cbuf_in # Freed)
  BY DEF IInv, Reading, ReaderAt, ReadMoving, InRoutineIn
<1>3. Stream(Readers, byte, ReadMoving, cbuf_in)
        = OneStream(cbuf_in, byte[p], pc[p] \in ReadMoving)
  <2>1. CASE pc[p] \in ReadMoving /\ cbuf_in # Freed
    <3> DEFINE M == {q \in Readers : pc[q] \in ReadMoving /\ given[q] = "current"}
               c == CHOOSE q \in M : TRUE
    <3>1. c \in Readers /\ pc[c] \in ReadMoving
      BY <1>4, <2>1
    <3>2. c = p
      BY <1>1, <3>1
    <3>3. M # {}
      BY <1>4, <2>1
    <3> QED BY <2>1, <3>2, <3>3 DEF Stream, OneStream
  <2>2. CASE ~(pc[p] \in ReadMoving /\ cbuf_in # Freed)
    <3>1. {q \in Readers : pc[q] \in ReadMoving /\ given[q] = "current"} = {}
      BY <1>1, <1>4, <2>2
    <3>2. CASE byte[p] # NoByte
      <4> DEFINE H == {q \in Readers : byte[q] # NoByte}
                 c == CHOOSE q \in H : TRUE
      <4>1. c \in Readers /\ byte[c] # NoByte
        BY <3>2
      <4>2. c = p
        BY <1>1, <4>1
      <4>3. H # {}
        BY <3>2
      <4> QED BY <2>2, <3>1, <4>2, <4>3 DEF Stream, OneStream
    <3>3. CASE byte[p] = NoByte
      <4>1. {q \in Readers : byte[q] # NoByte} = {}
        BY <1>1, <3>3
      <4>2. InHand(byte[p]) \o Kept(cbuf_in) = Kept(cbuf_in)
        BY <1>2, <3>3, NothingInHand
      <4> QED BY <2>2, <3>1, <4>1, <4>2 DEF Stream, OneStream
    <3> QED BY <3>2, <3>3
  <2> QED BY <2>1, <2>2
<1> QED BY <1>3 DEF Incoming, ReadMoving

(* With no byte in a reader's hands, it is the buffer.                     *)
LEMMA UnreadStream == UnreadStreamIs
  BY DEF UnreadStreamIs, Incoming, Stream, ReadMoving

(* The same of the next state.                                             *)
LEMMA StreamsNext ==
  (IInv => WriterStreamIs)' /\ (IInv => ReaderStreamIs)' /\ QuietStreamIs' /\ UnreadStreamIs'
<1>1. IInv => WriterStreamIs
  BY WriterStream
<1>2. IInv => ReaderStreamIs
  BY ReaderStream
<1>3. QuietStreamIs /\ UnreadStreamIs
  BY QuietStream, UnreadStream
<1> QED BY <1>1, <1>2, <1>3, PTL

(* A stream stays as it is when the buffer, what its processes hold and    *)
(* which of them moves a byte stay.                                        *)
LEMMA IncomingKept ==
  ASSUME cbuf_in' = cbuf_in,
         \A q \in Readers : /\ pc'[q] \in ReadMoving <=> pc[q] \in ReadMoving
                           /\ byte'[q] = byte[q] /\ given'[q] = given[q]
  PROVE  Incoming' = Incoming
<1> DEFINE M == {q \in Readers : pc[q] \in ReadMoving /\ given[q] = "current"}
           H == {q \in Readers : byte[q] # NoByte}
           m == CHOOSE q \in M : TRUE
           h == CHOOSE q \in H : TRUE
           s == IF M # {} THEN InHand(byte[m]) \o Tail(Contents(cbuf_in))
                ELSE IF H # {} THEN InHand(byte[h]) \o Kept(cbuf_in)
                ELSE Kept(cbuf_in)
<1>1. Incoming = s
  BY DEF Incoming, Stream, ReadMoving
<1>2. (Incoming = s)'
  BY DEF Incoming, Stream, ReadMoving
<1>3. M' = M /\ H' = H
  OBVIOUS
<1>4. /\ M # {} => m \in Readers
      /\ H # {} => h \in Readers
  OBVIOUS
<1>5. m' = m /\ h' = h
  BY <1>3
<1> HIDE DEF M, H, m, h
<1>6. s' = s
  BY <1>3, <1>4, <1>5 DEF Kept
<1> QED BY <1>1, <1>2, <1>6, Zenon

LEMMA OutgoingKept ==
  ASSUME cbuf_out' = cbuf_out, thr' = thr,
         \A q \in Writers : /\ pc'[q] \in WriteMoving <=> pc[q] \in WriteMoving
                           /\ to_send'[q] = to_send[q] /\ given'[q] = given[q]
  PROVE  Outgoing' = Outgoing
<1> DEFINE M == {q \in Writers : pc[q] \in WriteMoving /\ given[q] = "current"}
           H == {q \in Writers : to_send[q] # NoByte}
           m == CHOOSE q \in M : TRUE
           h == CHOOSE q \in H : TRUE
           s == IF M # {} THEN InHand(to_send[m]) \o Tail(Contents(cbuf_out))
                ELSE IF H # {} THEN InHand(to_send[h]) \o Kept(cbuf_out)
                ELSE Kept(cbuf_out)
<1>1. Outgoing = InHand(thr) \o s
  BY DEF Outgoing, Stream, WriteMoving
<1>2. (Outgoing = InHand(thr) \o s)'
  BY DEF Outgoing, Stream, WriteMoving
<1>3. M' = M /\ H' = H
  OBVIOUS
<1>4. /\ M # {} => m \in Writers
      /\ H # {} => h \in Writers
  OBVIOUS
<1>5. m' = m /\ h' = h
  BY <1>3
<1> HIDE DEF M, H, m, h
<1>6. s' = s
  BY <1>3, <1>4, <1>5 DEF Kept
<1> HIDE DEF s
<1> QED BY <1>1, <1>2, <1>6

(* A step of a writer leaves the other stream alone.                       *)
LEMMA WriterStreams ==
  ASSUME IInv, NEW p \in Writers, NEW l, OnlyWriter(p, l), IInv'
  PROVE  /\ UNCHANGED <<uart_initialized, file, line, Incoming, got>>
         /\ Outgoing = InHand(thr) \o OneStream(cbuf_out, to_send[p], pc[p] \in WriteMoving)
         /\ Outgoing' = InHand(thr') \o OneStream(cbuf_out', to_send'[p], l \in WriteMoving)
<1>1. pc \in [Processes -> Labels] /\ p \in Processes /\ p \notin Readers
  BY Rs232Assumption DEF IInv, TypeOK, Processes
<1>2. /\ pc'[p] = l
      /\ \A q \in Readers : pc'[q] = pc[q] /\ byte'[q] = byte[q] /\ given'[q] = given[q]
  BY <1>1 DEF OnlyWriter, Processes
<1>3. Incoming' = Incoming
  BY <1>2, IncomingKept DEF OnlyWriter
<1>5. Outgoing' = InHand(thr') \o OneStream(cbuf_out', to_send'[p], pc'[p] \in WriteMoving)
  <2>1. WriterStreamIs'
    BY StreamsNext
  <2> QED BY <2>1 DEF WriterStreamIs
<1>6. Outgoing = InHand(thr) \o OneStream(cbuf_out, to_send[p], pc[p] \in WriteMoving)
  BY WriterStream DEF WriterStreamIs
<1> QED BY <1>2, <1>3, <1>5, <1>6 DEF OnlyWriter

(* A step of a reader leaves the outgoing stream alone.                    *)
LEMMA ReaderStreams ==
  ASSUME IInv, NEW p \in Readers, NEW l, OnlyReader(p, l), IInv'
  PROVE  /\ UNCHANGED <<uart_initialized, file, line, Outgoing>>
         /\ Incoming = OneStream(cbuf_in, byte[p], pc[p] \in ReadMoving)
         /\ Incoming' = OneStream(cbuf_in', byte'[p], l \in ReadMoving)
<1>1. pc \in [Processes -> Labels] /\ p \in Processes /\ p \notin Writers
  BY Rs232Assumption DEF IInv, TypeOK, Processes
<1>2. pc'[p] = l /\ \A q \in Writers : pc'[q] = pc[q] /\ given'[q] = given[q]
  BY <1>1 DEF OnlyReader, Processes
<1>3. Outgoing' = Outgoing
  BY <1>2, OutgoingKept DEF OnlyReader
<1>5. Incoming' = OneStream(cbuf_in', byte'[p], pc'[p] \in ReadMoving)
  <2>1. ReaderStreamIs'
    BY StreamsNext
  <2> QED BY <2>1 DEF ReaderStreamIs
<1>6. Incoming = OneStream(cbuf_in, byte[p], pc[p] \in ReadMoving)
  BY ReaderStream DEF ReaderStreamIs
<1> QED BY <1>2, <1>3, <1>5, <1>6 DEF OnlyReader

(* A step that leaves the streams and the last bytes alone is no step of   *)
(* the serial port.                                                        *)
LEMMA PortKept ==
  ASSUME UNCHANGED <<uart_initialized, file, Outgoing, line, Incoming, got>>
  PROVE  UNCHANGED Port!vars
  BY DEF Port!vars, Outgoing, Incoming

(* Nothing that matters changes with the receiver, nor when an access      *)
(* leaves nothing defined.                                                 *)
LEMMA Breaks ==
  ASSUME IInv, UNCHANGED <<shared, pc, locals, transmitter, got>>,
         rbr' \in Byte \cup {NoByte}, overrun' \in BOOLEAN, crashed' \in BOOLEAN
  PROVE  IInv' /\ UNCHANGED Port!vars
<1> USE DEF shared, locals, transmitter
<1>1. TypeOK'
  BY DEF IInv, TypeOK
<1>2. FilesCounted' /\ ThrIdle' /\ StartedEmpty'
  <2>1. Users' = Users
    BY DEF Users
  <2> QED BY <2>1 DEF IInv, FilesCounted, ThrIdle, StartedEmpty
<1>3. Writing' /\ Reading'
  BY DEF IInv, Writing, Reading, WriterAt, ReaderAt
<1>4. NotSending' /\ BytesHeld'
  BY DEF IInv, NotSending, BytesHeld, Held
<1>5. IInv'
  BY <1>1, <1>2, <1>3, <1>4 DEF IInv, OneWriter, OneReader, OpensAlone
<1>6. Outgoing' = Outgoing /\ Incoming' = Incoming
  BY IncomingKept, OutgoingKept
<1> QED BY <1>5, <1>6, PortKept

(* A step of a writer that moves no byte from one stream to another.       *)
LEMMA WriterStutters ==
  ASSUME IInv, NEW p \in Writers, NEW l, OnlyWriter(p, l), IInv',
         InHand(thr') \o OneStream(cbuf_out', to_send'[p], l \in WriteMoving)
           = InHand(thr) \o OneStream(cbuf_out, to_send[p], pc[p] \in WriteMoving)
  PROVE  UNCHANGED Port!vars
<1>1. Outgoing' = Outgoing
  <2>1. Outgoing = InHand(thr) \o OneStream(cbuf_out, to_send[p], pc[p] \in WriteMoving)
    BY WriterStreams
  <2>2. Outgoing' = InHand(thr') \o OneStream(cbuf_out', to_send'[p], l \in WriteMoving)
    BY WriterStreams
  <2> QED BY <2>1, <2>2, Zenon
<1>2. UNCHANGED <<uart_initialized, file, line, Incoming, got>>
  BY WriterStreams
<1> QED BY <1>1, <1>2, PortKept

(* So is a step of a reader that moves no byte.                            *)
LEMMA ReaderStutters ==
  ASSUME IInv, NEW p \in Readers, NEW l, OnlyReader(p, l), IInv',
         got' = got,
         OneStream(cbuf_in', byte'[p], l \in ReadMoving)
           = OneStream(cbuf_in, byte[p], pc[p] \in ReadMoving)
  PROVE  UNCHANGED Port!vars
<1>1. Incoming' = Incoming
  <2>1. Incoming = OneStream(cbuf_in, byte[p], pc[p] \in ReadMoving)
    BY ReaderStreams
  <2>2. Incoming' = OneStream(cbuf_in', byte'[p], l \in ReadMoving)
    BY ReaderStreams
  <2> QED BY <2>1, <2>2, Zenon
<1>2. UNCHANGED <<uart_initialized, file, line, Outgoing>>
  BY ReaderStreams
<1> QED BY <1>1, <1>2, PortKept

-----------------------------------------------------------------------------
(* The steps of a writer: each keeps the invariant and is a step of the    *)
(* serial port, or none.                                                   *)

(* What a writer knows in its routine, or as it enters it.                 *)
LEMMA WriterKnows ==
  ASSUME IInv, NEW p \in Writers, pc[p] # "idle" \/ file[FileOf[p]] = "open"
  PROVE  /\ WriterAt(p, pc[p])
         /\ p \in Processes
         /\ SizeOut \in Nat \ {0}
         /\ cbuf_out \in Buffers(SizeOut, Byte) \cup {Freed}
         /\ cbuf_out # Freed =>
              /\ cbuf_out \in Buffers(SizeOut, Byte)
              /\ Kept(cbuf_out) = Contents(cbuf_out)
              /\ pc[p] \in WriteMoving => Tail(Contents(cbuf_out)) \in Seq(Byte)
              /\ pc[p] \notin WriteMoving => Contents(cbuf_out) \in Seq(Byte)
         /\ pc[p] \notin WriteMoving => Kept(cbuf_out) \in Seq(Byte)
         /\ ~(empty_thr_from_isr /\ thr_pending)
         /\ uart_initialized # 0
         /\ uart_initialized \in Nat
<1>1. p \in Processes
  BY DEF Processes
<1>2. cbuf_out \in Buffers(SizeOut, Byte) \cup {Freed}
  BY DEF IInv, TypeOK
<1>3. (\E q \in Writers : pc[q] \in WriteMoving) <=> pc[p] \in WriteMoving
  BY DEF IInv, OneWriter
<1>4. Held(cbuf_out, pc[p] \in WriteMoving)
  BY <1>3 DEF IInv, BytesHeld, Held
<1>5. uart_initialized # 0 /\ uart_initialized \in Nat
  <2>1. FileOf[p] \in Users
    BY <1>1, Rs232Assumption DEF IInv, FilesCounted, Users, InUse
  <2>2. IsFiniteSet(Users)
    BY Rs232Assumption, FS_Subset DEF Users
  <2>3. Cardinality(Users) # 0 /\ Cardinality(Users) \in Nat
    BY <2>1, <2>2, FS_EmptySet, FS_CardinalityType
  <2> QED BY <2>3 DEF IInv, FilesCounted
<1>6. ~(empty_thr_from_isr /\ thr_pending)
  BY <1>1, FlagOrPending
<1>7. /\ cbuf_out # Freed => Kept(cbuf_out) = Contents(cbuf_out)
      /\ pc[p] \notin WriteMoving => Kept(cbuf_out) \in Seq(Byte)
  BY <1>4, EmptySeq DEF Kept, Held
<1>8. WriterAt(p, pc[p])
  BY DEF IInv, Writing
<1> QED BY <1>1, <1>2, <1>4, <1>5, <1>6, <1>7, <1>8, Rs232Assumption DEF Held

(* A writer in a routine of cbuffer.c that can go on works on the buffer.  *)
LEMMA WriterHasBuffer ==
  ASSUME IInv, NEW p \in Writers, pc[p] \in InRoutineOut, given[p] # "freed"
  PROVE  /\ given[p] = "current"
         /\ cbuf_out # Freed
         /\ \A result : WorkedOn(p, cbuf_out, result) = result
<1>1. WriterAt(p, pc[p])
  BY DEF IInv, Writing
<1>2. given[p] = "current" /\ cbuf_out # Freed
  BY <1>1 DEF WriterAt
<1> QED BY <1>2 DEF WorkedOn

(* A test, and no more: it is enough that the writer may be where it goes. *)
LEMMA WriterBranch ==
  ASSUME IInv, NEW p \in Writers, NEW l, NEW m, Branch(p, l, m),
         l # "idle", l \notin WriteMoving, m \notin WriteMoving, WriterAt(p, m)
  PROVE  IInv' /\ UNCHANGED Port!vars
<1> pc[p] # "idle" /\ pc[p] = l
  BY DEF Branch
<1>0. /\ UNCHANGED <<shared, locals, transmitter, receiver>>
      /\ pc' = [pc EXCEPT ![p] = m]
  BY DEF Branch, Goto
<1>1. OnlyWriter(p, m)
  <2>1. TypeOK
    BY DEF IInv
  <2> QED BY <1>0, <2>1
          DEF OnlyWriter, TypeOK, shared, locals, transmitter, receiver
<1>2. ThrIdle'
  BY <1>0 DEF IInv, ThrIdle, shared, transmitter
<1>3. WriterAt(p, m)'
  BY <1>0 DEF WriterAt, shared, locals, transmitter
<1>4. Held(cbuf_out, m \in WriteMoving)'
  BY <1>0, WriterKnows DEF Held, shared
<1>5. IInv'
  BY <1>1, <1>2, <1>3, <1>4, WriterKnows, WriterStepKeeps
<1>6. InHand(thr') \o OneStream(cbuf_out', to_send'[p], m \in WriteMoving)
        = InHand(thr) \o OneStream(cbuf_out, to_send[p], pc[p] \in WriteMoving)
  BY <1>0 DEF OneStream, InHand, shared, locals, transmitter
<1> QED BY <1>1, <1>5, <1>6, WriterKnows, WriterStutters

(* The steps of a write that only test.                                    *)
LEMMA WriterTests ==
  ASSUME IInv, NEW p \in Writers,
         \/ EndOfBytes(p) \/ TestFull(p) \/ TestFlag(p) \/ TestPush(p) \/ WriteWait(p)
         \/ Enqueue(p) \/ Branch(p, "write_asleep", "enqueue")
  PROVE  IInv' /\ UNCHANGED Port!vars
<1> USE DEF WriterAt, WriteLabels, Carrying, WriteMoving, Sending, FlagUp, FlagDown,
            InRoutineOut
<1>1. CASE EndOfBytes(p)
  <2>1. Branch(p, "copy_from_user", "push") /\ pc[p] = "copy_from_user"
    BY <1>1 DEF EndOfBytes, Branch
  <2>2. WriterAt(p, "push")
    BY <2>1, WriterKnows
  <2> QED BY <2>1, <2>2, WriterBranch
<1>2. CASE TestFull(p)
  <2>1. pc[p] = "test_full"
    BY <1>2 DEF TestFull, Branch
  <2>2. WriterAt(p, "test_flag") /\ WriterAt(p, "enqueue")
    BY <2>1, WriterKnows
  <2>3. Branch(p, "test_full", "test_flag") \/ Branch(p, "test_full", "enqueue")
    BY <1>2 DEF TestFull
  <2> QED BY <2>1, <2>2, <2>3, WriterBranch
<1>3. CASE TestFlag(p)
  <2>1. pc[p] = "test_flag"
    BY <1>3 DEF TestFlag, Branch
  <2>2. WriterAt(p, "write_wait") /\ (empty_thr_from_isr => WriterAt(p, "force_clear"))
    BY <2>1, WriterKnows
  <2>3. \/ Branch(p, "test_flag", "write_wait")
        \/ empty_thr_from_isr /\ Branch(p, "test_flag", "force_clear")
    BY <1>3 DEF TestFlag
  <2> QED BY <2>1, <2>2, <2>3, WriterBranch
<1>4. CASE TestPush(p)
  <2>1. Branch(p, "push", "push_load") /\ empty_thr_from_isr /\ pc[p] = "push"
    BY <1>4 DEF TestPush, Branch
  <2>2. WriterAt(p, "push_load")
    BY <2>1, WriterKnows
  <2> QED BY <2>1, <2>2, WriterBranch
<1>5. CASE WriteWait(p)
  <2>1. pc[p] = "write_wait"
    BY <1>5 DEF WriteWait, Branch
  <2>2. WriterAt(p, "write_asleep") /\ WriterAt(p, "enqueue")
    BY <2>1, WriterKnows
  <2>3. Branch(p, "write_wait", "write_asleep") \/ Branch(p, "write_wait", "enqueue")
    BY <1>5 DEF WriteWait
  <2> QED BY <2>1, <2>2, <2>3, WriterBranch
<1>6. CASE Enqueue(p)
  <2>1. pc[p] = "enqueue"
    BY <1>6 DEF Enqueue, Branch
  <2>2. /\ WriterAt(p, "push")
        /\ cbuf_out # Freed /\ ~cbuffer_is_full(cbuf_out) => WriterAt(p, "store")
    BY <2>1, WriterKnows
  <2>3. \/ Branch(p, "enqueue", "push")
        \/ /\ cbuf_out # Freed /\ ~cbuffer_is_full(cbuf_out)
           /\ Branch(p, "enqueue", "store")
    BY <1>6 DEF Enqueue
  <2> QED BY <2>1, <2>2, <2>3, WriterBranch
<1>7. CASE Branch(p, "write_asleep", "enqueue")
  <2>1. pc[p] = "write_asleep"
    BY <1>7 DEF Branch
  <2>2. WriterAt(p, "enqueue")
    BY <2>1, WriterKnows
  <2> QED BY <1>7, <2>1, <2>2, WriterBranch
<1> QED BY <1>1, <1>2, <1>3, <1>4, <1>5, <1>6, <1>7

(* A call begins.                                                          *)
LEMMA WriterCalls ==
  ASSUME IInv, NEW p \in Writers, NEW n \in 0 .. MaxSize,
         Call(p, n, "copy_from_user")
  PROVE  IInv' /\ UNCHANGED Port!vars
<1> DEFINE l == "copy_from_user"
<1>0. /\ pc[p] = "idle" /\ file[FileOf[p]] = "open"
      /\ UNCHANGED <<shared, byte, to_send, given, transmitter, receiver>>
      /\ pc' = [pc EXCEPT ![p] = l]
      /\ left' = [left EXCEPT ![p] = n]
  BY DEF Call, Goto
<1>1. OnlyWriter(p, l)
  <2>1. left'[p] = n
    BY <1>0, WriterKnows DEF IInv, TypeOK
  <2>2. TypeOK /\ p \in Processes
    BY <1>0, WriterKnows DEF IInv
  <2> QED BY <1>0, <2>1, <2>2
          DEF OnlyWriter, TypeOK, shared, transmitter, receiver
<1>2. ThrIdle'
  BY <1>0 DEF IInv, ThrIdle, shared, transmitter
<1>3. WriterAt(p, l)'
  BY <1>0, WriterKnows
  DEF WriterAt, WriteLabels, Carrying, WriteMoving, Sending, FlagUp, FlagDown,
      InRoutineOut, shared, transmitter
<1>4. Held(cbuf_out, l \in WriteMoving)'
  BY <1>0, WriterKnows DEF Held, shared, WriteMoving
<1>5. IInv'
  BY <1>0, <1>1, <1>2, <1>3, <1>4, WriterKnows, WriterStepKeeps
<1>6. InHand(thr') \o OneStream(cbuf_out', to_send'[p], l \in WriteMoving)
        = InHand(thr) \o OneStream(cbuf_out, to_send[p], pc[p] \in WriteMoving)
  BY <1>0 DEF OneStream, InHand, WriteMoving, shared, transmitter
<1> QED BY <1>0, <1>1, <1>5, <1>6, WriterKnows, WriterStutters

(* A turn of the loop begins.                                              *)
LEMMA WriterCopies ==
  ASSUME IInv, NEW p \in Writers, CopyFromUser(p)
  PROVE  IInv' /\ UNCHANGED Port!vars
<1> DEFINE l == "test_full"
<1> PICK b \in Byte : byte' = [byte EXCEPT ![p] = b]
  BY DEF CopyFromUser
<1>0. /\ pc[p] = "copy_from_user" /\ left[p] # 0
      /\ UNCHANGED <<shared, left, to_send, given, transmitter, receiver>>
      /\ pc' = [pc EXCEPT ![p] = l]
  BY DEF CopyFromUser, Goto
<1>1. OnlyWriter(p, l)
  <2>1. TypeOK /\ p \in Processes
    BY <1>0, WriterKnows DEF IInv
  <2> QED BY <1>0, <2>1
          DEF OnlyWriter, TypeOK, shared, transmitter, receiver
<1>2. ThrIdle'
  BY <1>0 DEF IInv, ThrIdle, shared, transmitter
<1>3. WriterAt(p, l)'
  <2>1. byte'[p] = b /\ b # NoByte
    BY <1>0, WriterKnows, Rs232Assumption DEF IInv, TypeOK
  <2> QED BY <1>0, <2>1, WriterKnows
      DEF WriterAt, WriteLabels, Carrying, WriteMoving, Sending, FlagUp, FlagDown,
          InRoutineOut, shared, transmitter
<1>4. Held(cbuf_out, l \in WriteMoving)'
  BY <1>0, WriterKnows DEF Held, shared, WriteMoving
<1>5. IInv'
  BY <1>0, <1>1, <1>2, <1>3, <1>4, WriterKnows, WriterStepKeeps
<1>6. InHand(thr') \o OneStream(cbuf_out', to_send'[p], l \in WriteMoving)
        = InHand(thr) \o OneStream(cbuf_out, to_send[p], pc[p] \in WriteMoving)
  BY <1>0 DEF OneStream, InHand, WriteMoving, shared, transmitter
<1> QED BY <1>0, <1>1, <1>5, <1>6, WriterKnows, WriterStutters

(* The byte is in its slot before the head moves.                          *)
LEMMA WriterStores ==
  ASSUME IInv, NEW p \in Writers, StoreByte(p)
  PROVE  IInv' /\ UNCHANGED Port!vars
<1> DEFINE l == "move_head"
<1>g. cbuf_out # Freed /\ given[p] = "current" /\ p \in Processes
  BY WriterHasBuffer DEF StoreByte, Processes, InRoutineOut
<1>0. /\ pc[p] = "store"
      /\ UNCHANGED <<file, uart_initialized, cbuf_in, empty_thr_from_isr, locals,
                     transmitter, receiver>>
      /\ pc' = [pc EXCEPT ![p] = l]
      /\ cbuf_out' = Stored(cbuf_out, byte[p])
  BY <1>g DEF StoreByte, Goto, WorkedOn
<1>b. /\ byte[p] \in Byte
      /\ ~cbuffer_is_full(cbuf_out)
      /\ Contents(cbuf_out) \in Seq(Byte)
  BY <1>0, <1>g, WriterKnows
  DEF IInv, TypeOK, WriterAt, Carrying, WriteMoving
<1>s. /\ cbuf_out' \in Buffers(SizeOut, Byte)
      /\ cbuf_out'.head = cbuf_out.head
      /\ cbuf_out'.tail = cbuf_out.tail
      /\ cbuf_out'.cbuff[cbuf_out'.head] = byte[p]
      /\ Contents(cbuf_out') = Contents(cbuf_out)
  BY <1>0, <1>b, <1>g, WriterKnows, StoreKeepsContents
<1>k. /\ cbuf_out # Freed /\ Kept(cbuf_out) = Contents(cbuf_out)
      /\ cbuf_out' # Freed /\ Kept(cbuf_out') = Contents(cbuf_out')
  BY <1>g, <1>s, BuffersAreNotFreed DEF Kept
<1>f. ~cbuffer_is_full(cbuf_out')
  <2>1. cbuf_out'.size = cbuf_out.size
    BY <1>0, <1>g, <1>s, WriterKnows, BufferFields
  <2> QED BY <1>b, <1>s, <2>1 DEF cbuffer_is_full, NextMod
<1>1. OnlyWriter(p, l)
  <2>1. TypeOK /\ p \in Processes
    BY <1>0, WriterKnows DEF IInv
  <2> QED BY <1>0, <1>s, <2>1
          DEF OnlyWriter, TypeOK, locals, transmitter, receiver
<1>2. ThrIdle'
  BY <1>0, WriterKnows DEF IInv, ThrIdle, transmitter
<1>3. WriterAt(p, l)'
  <2>1. cbuffer_is_full(cbuf_out)' <=> cbuffer_is_full(cbuf_out')
    BY DEF cbuffer_is_full, NextMod
  <2> QED BY <1>0, <1>b, <1>g, <1>k, <1>s, <1>f, <2>1, WriterKnows
      DEF WriterAt, WriteLabels, Carrying, WriteMoving, Sending, FlagUp, FlagDown,
      InRoutineOut, locals,
          transmitter
<1>c. Contents(cbuf_out)' = Contents(cbuf_out')
  BY DEF Contents, cbuffer_current_size
<1>4. Held(cbuf_out, l \in WriteMoving)'
  BY <1>b, <1>c, <1>s DEF Held, WriteMoving
<1>5. IInv'
  BY <1>0, <1>1, <1>2, <1>3, <1>4, WriterKnows, WriterStepKeeps
<1>6. InHand(thr') \o OneStream(cbuf_out', to_send'[p], l \in WriteMoving)
        = InHand(thr) \o OneStream(cbuf_out, to_send[p], pc[p] \in WriteMoving)
  BY <1>0, <1>k, <1>s DEF OneStream, InHand, WriteMoving, locals, transmitter
<1> QED BY <1>0, <1>1, <1>5, <1>6, WriterKnows, WriterStutters

(* The head moves: the byte is written.                                    *)
LEMMA WriterMovesHead ==
  ASSUME IInv, NEW p \in Writers, MoveHead(p)
  PROVE  IInv' /\ Port!Write(byte[p]) /\ byte[p] \in Byte
<1> DEFINE l == "copy_from_user"
<1>g. cbuf_out # Freed /\ given[p] = "current" /\ p \in Processes
  BY WriterHasBuffer DEF MoveHead, Processes, InRoutineOut
<1>0. /\ pc[p] = "move_head"
      /\ UNCHANGED <<file, uart_initialized, cbuf_in, empty_thr_from_isr, to_send,
                     transmitter, receiver>>
      /\ pc' = [pc EXCEPT ![p] = l]
      /\ cbuf_out' = HeadMoved(cbuf_out)
      /\ left' = [left EXCEPT ![p] = left[p] - 1]
      /\ byte' = [byte EXCEPT ![p] = NoByte]
      /\ given' = [given EXCEPT ![p] = "current"]
  BY <1>g DEF MoveHead, Goto, WorkedOn, RoutineReturns
<1>b. /\ byte[p] \in Byte
      /\ ~cbuffer_is_full(cbuf_out)
      /\ cbuf_out.cbuff[cbuf_out.head] = byte[p]
      /\ Contents(cbuf_out) \in Seq(Byte)
      /\ to_send[p] = NoByte
      /\ left[p] # 0
  BY <1>0, <1>g, WriterKnows
  DEF IInv, TypeOK, WriterAt, Carrying, WriteMoving, Sending
<1>s. /\ cbuf_out' \in Buffers(SizeOut, Byte)
      /\ Contents(cbuf_out') = Append(Contents(cbuf_out), byte[p])
  BY <1>0, <1>b, <1>g, WriterKnows, HeadMovedAppends
<1>k. /\ cbuf_out # Freed /\ Kept(cbuf_out) = Contents(cbuf_out)
      /\ cbuf_out' # Freed /\ Kept(cbuf_out') = Contents(cbuf_out')
  BY <1>g, <1>s, BuffersAreNotFreed DEF Kept
<1>1. OnlyWriter(p, l)
  <2>1. /\ TypeOK /\ p \in Processes
        /\ given' \in [Processes -> {"current", "replaced", "freed"}]
    BY <1>0, <1>g DEF IInv, TypeOK
  <2>2. left[p] - 1 \in 0 .. MaxSize
    BY <1>b, <2>1, Rs232Assumption DEF TypeOK
  <2> QED BY <1>0, <1>s, <2>1, <2>2
          DEF OnlyWriter, TypeOK, transmitter, receiver
<1>2. ThrIdle'
  BY <1>0, WriterKnows DEF IInv, ThrIdle, transmitter
<1>3. WriterAt(p, l)'
  BY <1>0, <1>b, <1>k, WriterKnows
  DEF WriterAt, WriteLabels, Carrying, WriteMoving, Sending, FlagUp, FlagDown,
      InRoutineOut, transmitter
<1>c. Contents(cbuf_out)' = Contents(cbuf_out')
  BY DEF Contents, cbuffer_current_size
<1>4. Held(cbuf_out, l \in WriteMoving)'
  <2>1. Append(Contents(cbuf_out), byte[p]) \in Seq(Byte)
    BY <1>b, AppendProperties
  <2> QED BY <1>c, <1>s, <2>1 DEF Held, WriteMoving
<1>5. IInv'
  BY <1>0, <1>1, <1>2, <1>3, <1>4, WriterKnows, WriterStepKeeps
<1>6. Outgoing' = Append(Outgoing, byte[p])
  <2>1. Outgoing = InHand(thr) \o OneStream(cbuf_out, to_send[p], pc[p] \in WriteMoving)
    BY <1>0, <1>1, <1>5, WriterKnows, WriterStreams
  <2>2. Outgoing' = InHand(thr') \o OneStream(cbuf_out', to_send'[p], l \in WriteMoving)
    BY <1>0, <1>1, <1>5, WriterKnows, WriterStreams
  <2>3. Append(Contents(cbuf_out), byte[p]) \in Seq(Byte)
    BY <1>b, AppendProperties
  <2>4. /\ InHand(NoByte) \o Contents(cbuf_out) = Contents(cbuf_out)
        /\ InHand(NoByte) \o Append(Contents(cbuf_out), byte[p])
             = Append(Contents(cbuf_out), byte[p])
    BY <1>b, <2>3, NothingInHand
  <2>5. OneStream(cbuf_out, to_send[p], pc[p] \in WriteMoving) = Contents(cbuf_out)
    BY <1>0, <1>b, <1>k, <2>4 DEF OneStream, WriteMoving
  <2>6. OneStream(cbuf_out', to_send'[p], l \in WriteMoving)
          = Append(Contents(cbuf_out), byte[p])
    BY <1>0, <1>b, <1>k, <1>s, <2>4 DEF OneStream, WriteMoving
  <2>7. InHand(thr) \in Seq(Byte)
    BY DEF IInv, TypeOK, InHand
  <2>8. InHand(thr') = InHand(thr)
    BY <1>0 DEF transmitter, InHand
  <2>9. InHand(thr) \o Append(Contents(cbuf_out), byte[p])
          = Append(InHand(thr) \o Contents(cbuf_out), byte[p])
    BY <1>b, <2>7, AppendToStream
  <2>10. Outgoing = InHand(thr) \o Contents(cbuf_out)
    BY <2>1, <2>5, Zenon
  <2>11. Outgoing' = InHand(thr) \o Append(Contents(cbuf_out), byte[p])
    BY <2>2, <2>6, <2>8, Zenon
  <2> QED BY <2>9, <2>10, <2>11, Zenon
<1>7. UNCHANGED <<uart_initialized, file, line, Incoming, got>>
  BY <1>0, <1>1, <1>5, WriterKnows, WriterStreams
<1>8. uart_initialized > 0
  BY <1>0, WriterKnows
<1> QED BY <1>b, <1>5, <1>6, <1>7, <1>8 DEF Port!Write, Outgoing, Incoming

(* The flag is cleared, by a writer that will give the UART its byte.      *)
LEMMA WriterClears ==
  ASSUME IInv, NEW p \in Writers, NEW from, NEW l, ClearFlag(p, from, l),
         \/ from = "force_clear" /\ l = "force_load"
         \/ from = "push_clear" /\ l = "push_out"
  PROVE  IInv' /\ UNCHANGED Port!vars
<1>0. /\ pc[p] = from /\ pc[p] # "idle" /\ pc[p] \notin WriteMoving /\ pc[p] \in FlagUp
      /\ UNCHANGED <<file, uart_initialized, cbuf_in, cbuf_out, locals, transmitter, receiver>>
      /\ pc' = [pc EXCEPT ![p] = l]
      /\ empty_thr_from_isr' = FALSE
  BY DEF ClearFlag, Goto, WriteMoving, FlagUp
<1>t. thr = NoByte /\ ~thr_pending
  BY <1>0, WriterKnows DEF WriterAt, IInv, ThrIdle
<1>1. OnlyWriter(p, l)
  <2>1. TypeOK /\ p \in Processes
    BY <1>0, WriterKnows DEF IInv
  <2> QED BY <1>0, <2>1
          DEF OnlyWriter, TypeOK, locals, transmitter, receiver
<1>2. ThrIdle'
  BY <1>0, <1>t DEF ThrIdle, transmitter
<1>3. WriterAt(p, l)'
  BY <1>0, <1>t, WriterKnows
  DEF WriterAt, WriteLabels, Carrying, WriteMoving, Sending, FlagUp, FlagDown,
      InRoutineOut, locals,
      transmitter
<1>4. Held(cbuf_out, l \in WriteMoving)'
  BY <1>0, WriterKnows DEF Held, WriteMoving
<1>5. IInv'
  BY <1>0, <1>1, <1>2, <1>3, <1>4, WriterKnows, WriterStepKeeps
<1>6. InHand(thr') \o OneStream(cbuf_out', to_send'[p], l \in WriteMoving)
        = InHand(thr) \o OneStream(cbuf_out, to_send[p], pc[p] \in WriteMoving)
  BY <1>0 DEF OneStream, InHand, WriteMoving, locals, transmitter
<1> QED BY <1>0, <1>1, <1>5, <1>6, WriterKnows, WriterStutters

(* The oldest byte leaves its slot for the writer's hand.                  *)
LEMMA WriterLoads ==
  ASSUME IInv, NEW p \in Writers, NEW from, NEW l, LoadByte(p, from, l),
         \/ from = "force_load" /\ l = "force_move"
         \/ from = "push_load" /\ l = "push_move"
  PROVE  IInv' /\ UNCHANGED Port!vars
<1>0. /\ pc[p] = from /\ pc[p] # "idle" /\ pc[p] \notin WriteMoving /\ l \in WriteMoving
      /\ UNCHANGED <<file, uart_initialized, cbuf_in, empty_thr_from_isr, left, byte,
                     given, transmitter, receiver>>
      /\ pc' = [pc EXCEPT ![p] = l]
      /\ cbuf_out # Freed /\ ~cbuffer_is_empty(cbuf_out)
      /\ to_send' = [to_send EXCEPT ![p] = Oldest(cbuf_out)]
      /\ cbuf_out' = OldestErased(cbuf_out)
  BY DEF LoadByte, Goto, WriteMoving
<1>b. Contents(cbuf_out) \in Seq(Byte) /\ to_send[p] = NoByte
  BY <1>0, WriterKnows DEF WriterAt, Sending
<1>s. /\ cbuf_out' \in Buffers(SizeOut, Byte)
      /\ cbuf_out'.head = cbuf_out.head
      /\ cbuf_out'.tail = cbuf_out.tail
      /\ Contents(cbuf_out) # <<>>
      /\ Oldest(cbuf_out) = Head(Contents(cbuf_out))
      /\ Contents(cbuf_out') # <<>>
      /\ Tail(Contents(cbuf_out')) = Tail(Contents(cbuf_out))
  BY <1>0, WriterKnows, ErasedKeepsTail
<1>k. /\ cbuf_out # Freed /\ Kept(cbuf_out) = Contents(cbuf_out)
      /\ cbuf_out' # Freed /\ Kept(cbuf_out') = Contents(cbuf_out')
  BY <1>0, <1>s, BuffersAreNotFreed DEF Kept
<1>h. /\ Oldest(cbuf_out) \in Byte /\ Oldest(cbuf_out) # NoByte
      /\ Tail(Contents(cbuf_out)) \in Seq(Byte)
      /\ <<Oldest(cbuf_out)>> \o Tail(Contents(cbuf_out)) = Contents(cbuf_out)
  BY <1>b, <1>s, HeadAndTail, Rs232Assumption
<1>p. p \in Processes /\ to_send \in [Processes -> Byte \cup {NoByte}]
  BY <1>0, WriterKnows DEF IInv, TypeOK
<1>i. to_send'[p] = Oldest(cbuf_out)
  BY <1>0, <1>p
<1>1. OnlyWriter(p, l)
  <2>1. TypeOK
    BY DEF IInv
  <2> QED BY <1>0, <1>s, <1>h, <1>p, <2>1
          DEF OnlyWriter, TypeOK, transmitter, receiver
<1>e. ~cbuffer_is_empty(cbuf_out)' /\ cbuf_out # Freed
  BY <1>0, <1>s, WriterKnows DEF cbuffer_is_empty
<1>2. ThrIdle'
  BY <1>0, WriterKnows DEF IInv, ThrIdle, transmitter
<1>3. WriterAt(p, l)'
  <2>1. l \in {"force_move", "push_move"}
    BY <1>0 DEF WriteMoving
  <2>2. WriterAt(p, from)
    BY <1>0, <1>b, <1>k, WriterKnows
  <2> QED BY <1>0, <1>e, <1>k, <1>h, <1>i, <2>1, <2>2
      DEF WriterAt, WriteLabels, Carrying, WriteMoving, Sending, FlagUp, FlagDown,
          InRoutineOut, transmitter
<1>c. Contents(cbuf_out)' = Contents(cbuf_out')
  BY DEF Contents, cbuffer_current_size
<1>4. Held(cbuf_out, l \in WriteMoving)'
  BY <1>0, <1>c, <1>h, <1>s DEF Held
<1>5. IInv'
  BY <1>0, <1>1, <1>2, <1>3, <1>4, WriterKnows, WriterStepKeeps
<1>6. InHand(thr') \o OneStream(cbuf_out', to_send'[p], l \in WriteMoving)
        = InHand(thr) \o OneStream(cbuf_out, to_send[p], pc[p] \in WriteMoving)
  <2>1. OneStream(cbuf_out, to_send[p], pc[p] \in WriteMoving) = Contents(cbuf_out)
    BY <1>0, <1>b, <1>k, NothingInHand DEF OneStream
  <2>2. OneStream(cbuf_out', to_send'[p], l \in WriteMoving) = Contents(cbuf_out)
    BY <1>0, <1>h, <1>i, <1>k, <1>s DEF OneStream, InHand
  <2>3. InHand(thr') = InHand(thr)
    BY <1>0 DEF transmitter, InHand
  <2> QED BY <2>1, <2>2, <2>3
<1> QED BY <1>0, <1>1, <1>5, <1>6, WriterKnows, WriterStutters

(* The tail moves, which completes the dequeue.                            *)
LEMMA WriterMovesTail ==
  ASSUME IInv, NEW p \in Writers, NEW from, NEW l, MoveTail(p, from, l),
         \/ from = "force_move" /\ l = "force_out"
         \/ from = "push_move" /\ l = "push_clear"
  PROVE  IInv' /\ UNCHANGED Port!vars
<1>g. cbuf_out # Freed /\ given[p] = "current" /\ p \in Processes
  BY WriterHasBuffer DEF MoveTail, Processes, InRoutineOut
<1>0. /\ pc[p] = from /\ pc[p] # "idle" /\ pc[p] \in WriteMoving /\ l \notin WriteMoving
      /\ UNCHANGED <<file, uart_initialized, cbuf_in, empty_thr_from_isr, left, byte,
                     to_send, transmitter, receiver>>
      /\ pc' = [pc EXCEPT ![p] = l]
      /\ cbuf_out' = TailMoved(cbuf_out)
      /\ given' = [given EXCEPT ![p] = "current"]
  BY <1>g DEF MoveTail, Goto, WriteMoving, WorkedOn, RoutineReturns
<1>b. Tail(Contents(cbuf_out)) \in Seq(Byte) /\ ~cbuffer_is_empty(cbuf_out)
  BY <1>0, <1>g, WriterKnows DEF WriterAt
<1>s. /\ cbuf_out' \in Buffers(SizeOut, Byte)
      /\ Contents(cbuf_out') = Tail(Contents(cbuf_out))
  BY <1>0, <1>b, <1>g, WriterKnows, TailMovedTakes
<1>k. /\ cbuf_out # Freed /\ Kept(cbuf_out) = Contents(cbuf_out)
      /\ cbuf_out' # Freed /\ Kept(cbuf_out') = Contents(cbuf_out')
  BY <1>g, <1>s, BuffersAreNotFreed DEF Kept
<1>1. OnlyWriter(p, l)
  <2>1. TypeOK /\ p \in Processes /\ given' \in [Processes -> {"current", "replaced", "freed"}]
    BY <1>0, <1>g DEF IInv, TypeOK
  <2> QED BY <1>0, <1>s, <2>1
          DEF OnlyWriter, TypeOK, transmitter, receiver
<1>2. ThrIdle'
  BY <1>0, WriterKnows DEF IInv, ThrIdle, transmitter
<1>3. WriterAt(p, l)'
  BY <1>0, <1>b, <1>k, WriterKnows
  DEF WriterAt, WriteLabels, Carrying, WriteMoving, Sending, FlagUp, FlagDown,
      InRoutineOut, locals,
      transmitter
<1>c. Contents(cbuf_out)' = Contents(cbuf_out')
  BY DEF Contents, cbuffer_current_size
<1>4. Held(cbuf_out, l \in WriteMoving)'
  BY <1>0, <1>b, <1>c, <1>s DEF Held
<1>5. IInv'
  BY <1>0, <1>1, <1>2, <1>3, <1>4, WriterKnows, WriterStepKeeps
<1>6. InHand(thr') \o OneStream(cbuf_out', to_send'[p], l \in WriteMoving)
        = InHand(thr) \o OneStream(cbuf_out, to_send[p], pc[p] \in WriteMoving)
  BY <1>0, <1>k, <1>s DEF OneStream, InHand, transmitter
<1> QED BY <1>0, <1>1, <1>5, <1>6, WriterKnows, WriterStutters

(* The byte in hand goes to the THR, which was empty.                      *)
LEMMA WriterOuts ==
  ASSUME IInv, NEW p \in Writers, NEW from, NEW l, OutThr(p, from, l),
         \/ from = "force_out" /\ l = "write_wait"
         \/ from = "push_out" /\ l = "pushed"
  PROVE  IInv' /\ UNCHANGED Port!vars
<1>0. /\ pc[p] = from /\ pc[p] # "idle" /\ pc[p] \notin WriteMoving /\ l \notin WriteMoving
      /\ pc[p] \in FlagDown /\ pc[p] \in Sending
      /\ UNCHANGED <<shared, left, byte, given, ier, line, receiver>>
      /\ pc' = [pc EXCEPT ![p] = l]
      /\ thr' = to_send[p]
      /\ thr_pending' = FALSE
      /\ to_send' = [to_send EXCEPT ![p] = NoByte]
  BY DEF OutThr, Goto, WriteMoving, FlagDown, Sending
<1>b. /\ ~empty_thr_from_isr /\ thr = NoByte
      /\ Kept(cbuf_out) \in Seq(Byte)
      /\ to_send[p] \in Byte
  BY <1>0, WriterKnows DEF WriterAt, IInv, TypeOK
<1>p. p \in Processes /\ to_send \in [Processes -> Byte \cup {NoByte}]
  BY <1>0, WriterKnows DEF IInv, TypeOK
<1>i. to_send'[p] = NoByte
  BY <1>0, <1>p
<1>1. OnlyWriter(p, l)
  <2>1. TypeOK
    BY <1>0, WriterKnows DEF IInv
  <2> QED BY <1>0, <1>b, <1>p, <2>1
          DEF OnlyWriter, TypeOK, shared, receiver
<1>2. ThrIdle'
  BY <1>0, <1>b DEF ThrIdle, shared
<1>3. WriterAt(p, l)'
  BY <1>0, <1>b, <1>i, WriterKnows
  DEF WriterAt, WriteLabels, Carrying, WriteMoving, Sending, FlagUp, FlagDown,
      InRoutineOut, shared
<1>4. Held(cbuf_out, l \in WriteMoving)'
  BY <1>0, WriterKnows DEF Held, shared
<1>5. IInv'
  BY <1>0, <1>1, <1>2, <1>3, <1>4, WriterKnows, WriterStepKeeps
<1>6. InHand(thr') \o OneStream(cbuf_out', to_send'[p], l \in WriteMoving)
        = InHand(thr) \o OneStream(cbuf_out, to_send[p], pc[p] \in WriteMoving)
  <2>1. OneStream(cbuf_out, to_send[p], pc[p] \in WriteMoving)
          = InHand(to_send[p]) \o Kept(cbuf_out)
    BY <1>0 DEF OneStream
  <2>2. InHand(to_send[p]) \o Kept(cbuf_out) \in Seq(Byte)
    BY <1>b, ConcatProperties DEF InHand
  <2>3. InHand(thr) \o (InHand(to_send[p]) \o Kept(cbuf_out))
          = InHand(to_send[p]) \o Kept(cbuf_out)
    BY <1>b, <2>2, NothingInHand
  <2>4. OneStream(cbuf_out', to_send'[p], l \in WriteMoving) = Kept(cbuf_out)
    BY <1>0, <1>b, <1>i, NothingInHand DEF OneStream, shared
  <2> QED BY <1>0, <2>1, <2>3, <2>4
<1> QED BY <1>0, <1>1, <1>5, <1>6, WriterKnows, WriterStutters

(* A write returns: it has nothing left in hand.                           *)
LEMMA WriterReturns ==
  ASSUME IInv, NEW p \in Writers, NEW from, Return(p, from),
         from \in {"force_load", "push_load", "push", "pushed"}
  PROVE  IInv' /\ UNCHANGED Port!vars
<1> DEFINE l == "idle"
<1>0. /\ pc[p] = from /\ pc[p] # "idle" /\ pc[p] \notin WriteMoving /\ pc[p] \notin Sending
      /\ UNCHANGED <<shared, given, transmitter, receiver>>
      /\ pc' = [pc EXCEPT ![p] = l]
      /\ left' = [left EXCEPT ![p] = 0]
      /\ byte' = [byte EXCEPT ![p] = NoByte]
      /\ to_send' = [to_send EXCEPT ![p] = NoByte]
  BY DEF Return, Goto, WriteMoving, Sending
<1>b. Kept(cbuf_out) \in Seq(Byte) /\ to_send[p] = NoByte
  BY <1>0, WriterKnows DEF WriterAt
<1>p. p \in Processes /\ TypeOK
  BY <1>0, WriterKnows DEF IInv
<1>i. left'[p] = 0 /\ to_send'[p] = NoByte
  BY <1>0, <1>p DEF TypeOK
<1>1. OnlyWriter(p, l)
  <2>1. 0 \in 0 .. MaxSize
    BY Rs232Assumption
  <2> QED BY <1>0, <1>i, <1>p, <2>1
          DEF OnlyWriter, TypeOK, shared, transmitter, receiver
<1>2. ThrIdle'
  BY <1>0 DEF IInv, ThrIdle, shared, transmitter
<1>3. WriterAt(p, l)'
  BY <1>0, <1>i, WriterKnows
  DEF WriterAt, WriteLabels, Carrying, WriteMoving, Sending, FlagUp, FlagDown,
      InRoutineOut, shared,
      transmitter
<1>4. Held(cbuf_out, l \in WriteMoving)'
  BY <1>0, WriterKnows DEF Held, shared, WriteMoving
<1>5. IInv'
  BY <1>0, <1>1, <1>2, <1>3, <1>4, WriterKnows, WriterStepKeeps
<1>6. InHand(thr') \o OneStream(cbuf_out', to_send'[p], l \in WriteMoving)
        = InHand(thr) \o OneStream(cbuf_out, to_send[p], pc[p] \in WriteMoving)
  BY <1>0, <1>b, <1>i DEF OneStream, InHand, WriteMoving, shared, transmitter
<1> QED BY <1>0, <1>1, <1>5, <1>6, WriterKnows, WriterStutters

(* The whole write routine.                                                *)
LEMMA WriterSteps ==
  ASSUME IInv, NEW p \in Writers, WriteStep(p)
  PROVE  /\ IInv'
         /\ UNCHANGED Port!vars \/ \E b \in Byte : Port!Write(b)
<1>1. CASE ForceFirst(p)
  BY <1>1, WriterClears, WriterLoads, WriterMovesTail, WriterOuts, WriterReturns
  DEF ForceFirst, NothingToSend
<1>2. CASE PushFirst(p)
  BY <1>2, WriterTests, WriterClears, WriterLoads, WriterMovesTail, WriterOuts, WriterReturns
  DEF PushFirst, NothingToSend
<1>3. CASE WriteReturns(p)
  BY <1>3, WriterReturns DEF WriteReturns
<1>4. CASE Astray(p)
  BY <1>4, Breaks DEF Astray, IInv, TypeOK
<1> QED BY <1>1, <1>2, <1>3, <1>4, WriterTests, WriterCopies, WriterStores, WriterMovesHead
        DEF WriteStep

-----------------------------------------------------------------------------
(* The steps of a reader.                                                  *)

(* What a reader knows in its routine, or as it enters it.                 *)
LEMMA ReaderKnows ==
  ASSUME IInv, NEW p \in Readers, pc[p] # "idle" \/ file[FileOf[p]] = "open"
  PROVE  /\ ReaderAt(p, pc[p])
         /\ p \in Processes
         /\ SizeIn \in Nat \ {0}
         /\ cbuf_in \in Buffers(SizeIn, Byte) \cup {Freed}
         /\ cbuf_in # Freed =>
              /\ cbuf_in \in Buffers(SizeIn, Byte)
              /\ Kept(cbuf_in) = Contents(cbuf_in)
              /\ pc[p] \in ReadMoving => Tail(Contents(cbuf_in)) \in Seq(Byte)
              /\ pc[p] \notin ReadMoving => Contents(cbuf_in) \in Seq(Byte)
         /\ pc[p] \notin ReadMoving => Kept(cbuf_in) \in Seq(Byte)
         /\ uart_initialized # 0
         /\ uart_initialized \in Nat
<1>1. p \in Processes
  BY DEF Processes
<1>2. cbuf_in \in Buffers(SizeIn, Byte) \cup {Freed}
  BY DEF IInv, TypeOK
<1>3. (\E q \in Readers : pc[q] \in ReadMoving) <=> pc[p] \in ReadMoving
  BY DEF IInv, OneReader
<1>4. Held(cbuf_in, pc[p] \in ReadMoving)
  BY <1>3 DEF IInv, BytesHeld, Held
<1>5. uart_initialized # 0 /\ uart_initialized \in Nat
  <2>1. FileOf[p] \in Users
    BY <1>1, Rs232Assumption DEF IInv, FilesCounted, Users, InUse
  <2>2. IsFiniteSet(Users)
    BY Rs232Assumption, FS_Subset DEF Users
  <2>3. Cardinality(Users) # 0 /\ Cardinality(Users) \in Nat
    BY <2>1, <2>2, FS_EmptySet, FS_CardinalityType
  <2> QED BY <2>3 DEF IInv, FilesCounted
<1>6. /\ cbuf_in # Freed => Kept(cbuf_in) = Contents(cbuf_in)
      /\ pc[p] \notin ReadMoving => Kept(cbuf_in) \in Seq(Byte)
  BY <1>4, EmptySeq DEF Kept, Held
<1>7. ReaderAt(p, pc[p])
  BY DEF IInv, Reading
<1> QED BY <1>1, <1>2, <1>4, <1>5, <1>6, <1>7, Rs232Assumption DEF Held

(* A reader in a routine of cbuffer.c that can go on works on the buffer.  *)
LEMMA ReaderHasBuffer ==
  ASSUME IInv, NEW p \in Readers, pc[p] \in InRoutineIn, given[p] # "freed"
  PROVE  /\ given[p] = "current"
         /\ cbuf_in # Freed
         /\ \A result : WorkedOn(p, cbuf_in, result) = result
<1>1. ReaderAt(p, pc[p])
  BY DEF IInv, Reading
<1>2. given[p] = "current" /\ cbuf_in # Freed
  BY <1>1 DEF ReaderAt
<1> QED BY <1>2 DEF WorkedOn

(* The same for a reader.                                                  *)
LEMMA ReaderBranch ==
  ASSUME IInv, NEW p \in Readers, NEW l, NEW m, Branch(p, l, m),
         l # "idle", l \notin ReadMoving, m \notin ReadMoving, ReaderAt(p, m)
  PROVE  IInv' /\ UNCHANGED Port!vars
<1> pc[p] # "idle" /\ pc[p] = l
  BY DEF Branch
<1>0. /\ UNCHANGED <<shared, locals, transmitter, receiver>>
      /\ pc' = [pc EXCEPT ![p] = m]
  BY DEF Branch, Goto
<1>1. OnlyReader(p, m)
  <2>1. TypeOK
    BY DEF IInv
  <2> QED BY <1>0, <2>1
          DEF OnlyReader, TypeOK, shared, locals, transmitter, receiver
<1>2. ReaderAt(p, m)'
  BY <1>0 DEF ReaderAt, shared, locals
<1>3. Held(cbuf_in, m \in ReadMoving)'
  BY <1>0, ReaderKnows DEF Held, shared
<1>4. IInv'
  BY <1>1, <1>2, <1>3, ReaderKnows, ReaderStepKeeps
<1>5. OneStream(cbuf_in', byte'[p], m \in ReadMoving)
        = OneStream(cbuf_in, byte[p], pc[p] \in ReadMoving)
  BY <1>0 DEF OneStream, InHand, shared, locals
<1>6. got' = got
  BY <1>0 DEF receiver
<1> QED BY <1>1, <1>4, <1>5, <1>6, ReaderKnows, ReaderStutters

(* The steps of a read that only test.                                     *)
LEMMA ReaderTests ==
  ASSUME IInv, NEW p \in Readers,
         TestEmpty(p) \/ ReadWait(p) \/ ReadLoop(p) \/ Branch(p, "read_asleep", "read_loop")
  PROVE  IInv' /\ UNCHANGED Port!vars
<1> USE DEF ReaderAt, ReadLabels, ReadMoving, InRoutineIn
<1>1. CASE TestEmpty(p)
  <2>1. pc[p] = "read_test"
    BY <1>1 DEF TestEmpty, Branch
  <2>2. ReaderAt(p, "read_wait") /\ ReaderAt(p, "read_loop")
    BY <2>1, ReaderKnows
  <2>3. Branch(p, "read_test", "read_wait") \/ Branch(p, "read_test", "read_loop")
    BY <1>1 DEF TestEmpty
  <2> QED BY <2>1, <2>2, <2>3, ReaderBranch
<1>2. CASE ReadWait(p)
  <2>1. pc[p] = "read_wait"
    BY <1>2 DEF ReadWait, Branch
  <2>2. ReaderAt(p, "read_asleep") /\ ReaderAt(p, "read_loop")
    BY <2>1, ReaderKnows
  <2>3. Branch(p, "read_wait", "read_asleep") \/ Branch(p, "read_wait", "read_loop")
    BY <1>2 DEF ReadWait
  <2> QED BY <2>1, <2>2, <2>3, ReaderBranch
<1>3. CASE ReadLoop(p)
  <2>1. Branch(p, "read_loop", "read_load") /\ left[p] # 0 /\ pc[p] = "read_loop"
    BY <1>3 DEF ReadLoop, Branch
  <2>2. ReaderAt(p, "read_load")
    BY <2>1, ReaderKnows
  <2> QED BY <2>1, <2>2, ReaderBranch
<1>4. CASE Branch(p, "read_asleep", "read_loop")
  <2>1. pc[p] = "read_asleep"
    BY <1>4 DEF Branch
  <2>2. ReaderAt(p, "read_loop")
    BY <2>1, ReaderKnows
  <2> QED BY <1>4, <2>1, <2>2, ReaderBranch
<1> QED BY <1>1, <1>2, <1>3, <1>4

(* A call begins.                                                          *)
LEMMA ReaderCalls ==
  ASSUME IInv, NEW p \in Readers, NEW n \in 0 .. MaxSize, Call(p, n, "read_test")
  PROVE  IInv' /\ UNCHANGED Port!vars
<1> DEFINE l == "read_test"
<1>0. /\ pc[p] = "idle" /\ file[FileOf[p]] = "open"
      /\ UNCHANGED <<shared, byte, to_send, given, transmitter, receiver>>
      /\ pc' = [pc EXCEPT ![p] = l]
      /\ left' = [left EXCEPT ![p] = n]
  BY DEF Call, Goto
<1>1. OnlyReader(p, l)
  <2>1. left'[p] = n
    BY <1>0, ReaderKnows DEF IInv, TypeOK
  <2>2. TypeOK /\ p \in Processes
    BY <1>0, ReaderKnows DEF IInv
  <2> QED BY <1>0, <2>1, <2>2
          DEF OnlyReader, TypeOK, shared, transmitter, receiver
<1>2. ReaderAt(p, l)'
  BY <1>0, ReaderKnows DEF ReaderAt, ReadLabels, ReadMoving, InRoutineIn, shared
<1>3. Held(cbuf_in, l \in ReadMoving)'
  BY <1>0, ReaderKnows DEF Held, shared, ReadMoving
<1>4. IInv'
  BY <1>0, <1>1, <1>2, <1>3, ReaderKnows, ReaderStepKeeps
<1>5. OneStream(cbuf_in', byte'[p], l \in ReadMoving)
        = OneStream(cbuf_in, byte[p], pc[p] \in ReadMoving)
  BY <1>0 DEF OneStream, InHand, ReadMoving, shared
<1>6. got' = got
  BY <1>0 DEF receiver
<1> QED BY <1>0, <1>1, <1>4, <1>5, <1>6, ReaderKnows, ReaderStutters

(* The oldest byte leaves its slot for the reader's hand.                  *)
LEMMA ReaderLoads ==
  ASSUME IInv, NEW p \in Readers, ReadByte(p)
  PROVE  IInv' /\ UNCHANGED Port!vars
<1> DEFINE l == "read_move"
<1>0. /\ pc[p] = "read_load"
      /\ UNCHANGED <<file, uart_initialized, cbuf_out, empty_thr_from_isr, left,
                     to_send, given, transmitter, receiver>>
      /\ pc' = [pc EXCEPT ![p] = l]
      /\ cbuf_in # Freed /\ ~cbuffer_is_empty(cbuf_in)
      /\ byte' = [byte EXCEPT ![p] = Oldest(cbuf_in)]
      /\ cbuf_in' = OldestErased(cbuf_in)
  BY DEF ReadByte, Goto
<1>b. Contents(cbuf_in) \in Seq(Byte) /\ byte[p] = NoByte
  BY <1>0, ReaderKnows DEF ReaderAt, ReadMoving
<1>s. /\ cbuf_in' \in Buffers(SizeIn, Byte)
      /\ cbuf_in'.head = cbuf_in.head
      /\ cbuf_in'.tail = cbuf_in.tail
      /\ Contents(cbuf_in) # <<>>
      /\ Oldest(cbuf_in) = Head(Contents(cbuf_in))
      /\ Contents(cbuf_in') # <<>>
      /\ Tail(Contents(cbuf_in')) = Tail(Contents(cbuf_in))
  BY <1>0, ReaderKnows, ErasedKeepsTail
<1>k. /\ cbuf_in # Freed /\ Kept(cbuf_in) = Contents(cbuf_in)
      /\ cbuf_in' # Freed /\ Kept(cbuf_in') = Contents(cbuf_in')
  BY <1>0, <1>s, BuffersAreNotFreed DEF Kept
<1>h. /\ Oldest(cbuf_in) \in Byte /\ Oldest(cbuf_in) # NoByte
      /\ Tail(Contents(cbuf_in)) \in Seq(Byte)
      /\ <<Oldest(cbuf_in)>> \o Tail(Contents(cbuf_in)) = Contents(cbuf_in)
  BY <1>b, <1>s, HeadAndTail, Rs232Assumption
<1>p. p \in Processes /\ byte \in [Processes -> Byte \cup {NoByte}]
  BY <1>0, ReaderKnows DEF IInv, TypeOK
<1>i. byte'[p] = Oldest(cbuf_in)
  BY <1>0, <1>p
<1>1. OnlyReader(p, l)
  <2>1. TypeOK
    BY DEF IInv
  <2> QED BY <1>0, <1>s, <1>h, <1>p, <2>1
          DEF OnlyReader, TypeOK, transmitter, receiver
<1>2. ReaderAt(p, l)'
  <2>1. ~cbuffer_is_empty(cbuf_in)'
    BY <1>0, <1>s DEF cbuffer_is_empty
  <2> QED BY <1>0, <1>h, <1>i, <1>k, <2>1, ReaderKnows
         DEF ReaderAt, ReadLabels, ReadMoving, InRoutineIn
<1>c. Contents(cbuf_in)' = Contents(cbuf_in')
  BY DEF Contents, cbuffer_current_size
<1>3. Held(cbuf_in, l \in ReadMoving)'
  BY <1>c, <1>h, <1>s DEF Held, ReadMoving
<1>4. IInv'
  BY <1>0, <1>1, <1>2, <1>3, ReaderKnows, ReaderStepKeeps
<1>5. OneStream(cbuf_in', byte'[p], l \in ReadMoving)
        = OneStream(cbuf_in, byte[p], pc[p] \in ReadMoving)
  <2>1. OneStream(cbuf_in, byte[p], pc[p] \in ReadMoving) = Contents(cbuf_in)
    BY <1>0, <1>b, <1>k, NothingInHand DEF OneStream, ReadMoving
  <2>2. OneStream(cbuf_in', byte'[p], l \in ReadMoving) = Contents(cbuf_in)
    BY <1>h, <1>i, <1>k, <1>s DEF OneStream, InHand, ReadMoving
  <2> QED BY <2>1, <2>2
<1>6. got' = got
  BY <1>0 DEF receiver
<1> QED BY <1>0, <1>1, <1>4, <1>5, <1>6, ReaderKnows, ReaderStutters

(* The tail moves, which completes the dequeue.                            *)
LEMMA ReaderMovesTail ==
  ASSUME IInv, NEW p \in Readers, ReadMove(p)
  PROVE  IInv' /\ UNCHANGED Port!vars
<1> DEFINE l == "copy_to_user"
<1>g. cbuf_in # Freed /\ given[p] = "current" /\ p \in Processes
  BY ReaderHasBuffer DEF ReadMove, InRoutineIn, Processes
<1>0. /\ pc[p] = "read_move"
      /\ UNCHANGED <<file, uart_initialized, cbuf_out, empty_thr_from_isr, left, byte,
                     to_send, transmitter, receiver>>
      /\ pc' = [pc EXCEPT ![p] = l]
      /\ cbuf_in' = TailMoved(cbuf_in)
      /\ given' = [given EXCEPT ![p] = "current"]
  BY <1>g DEF ReadMove, Goto, WorkedOn, RoutineReturns
<1>b. Tail(Contents(cbuf_in)) \in Seq(Byte) /\ ~cbuffer_is_empty(cbuf_in)
  BY <1>0, <1>g, ReaderKnows DEF ReaderAt, ReadMoving
<1>s. /\ cbuf_in' \in Buffers(SizeIn, Byte)
      /\ Contents(cbuf_in') = Tail(Contents(cbuf_in))
  BY <1>0, <1>b, <1>g, ReaderKnows, TailMovedTakes
<1>k. /\ cbuf_in # Freed /\ Kept(cbuf_in) = Contents(cbuf_in)
      /\ cbuf_in' # Freed /\ Kept(cbuf_in') = Contents(cbuf_in')
  BY <1>g, <1>s, BuffersAreNotFreed DEF Kept
<1>1. OnlyReader(p, l)
  <2>1. TypeOK /\ given' \in [Processes -> {"current", "replaced", "freed"}]
    BY <1>0, <1>g DEF IInv, TypeOK
  <2> QED BY <1>0, <1>g, <1>s, <2>1
          DEF OnlyReader, TypeOK, transmitter, receiver
<1>2. ReaderAt(p, l)'
  BY <1>0, <1>g, <1>k, ReaderKnows DEF ReaderAt, ReadLabels, ReadMoving, InRoutineIn
<1>c. Contents(cbuf_in)' = Contents(cbuf_in')
  BY DEF Contents, cbuffer_current_size
<1>3. Held(cbuf_in, l \in ReadMoving)'
  BY <1>b, <1>c, <1>s DEF Held, ReadMoving
<1>4. IInv'
  BY <1>0, <1>1, <1>2, <1>3, ReaderKnows, ReaderStepKeeps
<1>5. OneStream(cbuf_in', byte'[p], l \in ReadMoving)
        = OneStream(cbuf_in, byte[p], pc[p] \in ReadMoving)
  BY <1>0, <1>k, <1>s DEF OneStream, InHand, ReadMoving
<1>6. got' = got
  BY <1>0 DEF receiver
<1> QED BY <1>0, <1>1, <1>4, <1>5, <1>6, ReaderKnows, ReaderStutters

(* The byte in hand goes to the user, or is lost to a fault.               *)
LEMMA ReaderGives ==
  ASSUME IInv, NEW p \in Readers, CopyToUser(p) \/ CopyToUserFault(p)
  PROVE  IInv' /\ Port!Read
<1> PICK l \in {"read_loop", "read_end"}, a \in {left[p], left[p] - 1} :
      /\ pc' = [pc EXCEPT ![p] = l]
      /\ left' = [left EXCEPT ![p] = a]
  <2>1. p \in Processes /\ left[p] \in Nat
    BY Rs232Assumption DEF IInv, TypeOK, Processes
  <2>2. left = [left EXCEPT ![p] = left[p]]
    BY DEF IInv, TypeOK
  <2> QED BY <2>1, <2>2 DEF CopyToUser, CopyToUserFault, Goto
<1>0. /\ pc[p] = "copy_to_user"
      /\ UNCHANGED <<shared, to_send, given, transmitter, rbr, overrun, crashed>>
      /\ byte' = [byte EXCEPT ![p] = NoByte]
      /\ got' \in {byte[p], NoByte}
  BY DEF CopyToUser, CopyToUserFault
<1>b. Kept(cbuf_in) \in Seq(Byte) /\ byte[p] # NoByte /\ left[p] # 0
  BY <1>0, ReaderKnows DEF ReaderAt, ReadMoving
<1>p. p \in Processes /\ TypeOK
  BY <1>0, ReaderKnows DEF IInv
<1>i. byte'[p] = NoByte /\ left'[p] = a /\ byte[p] \in Byte
  BY <1>0, <1>b, <1>p DEF TypeOK
<1>1. OnlyReader(p, l)
  <2>1. a \in 0 .. MaxSize
    BY <1>b, <1>p, Rs232Assumption DEF TypeOK
  <2> QED BY <1>0, <1>i, <1>p, <2>1 DEF OnlyReader, TypeOK, shared, transmitter
<1>2. ReaderAt(p, l)'
  BY <1>0, <1>i, ReaderKnows DEF ReaderAt, ReadLabels, ReadMoving, InRoutineIn, shared
<1>3. Held(cbuf_in, l \in ReadMoving)'
  BY <1>0, ReaderKnows DEF Held, ReadMoving, shared
<1>4. IInv'
  BY <1>0, <1>1, <1>2, <1>3, ReaderKnows, ReaderStepKeeps
<1>5. Incoming = <<byte[p]>> \o Kept(cbuf_in)
  <2>1. Incoming = OneStream(cbuf_in, byte[p], pc[p] \in ReadMoving)
    BY <1>0, <1>1, <1>4, ReaderKnows, ReaderStreams
  <2> QED BY <1>0, <1>b, <2>1 DEF OneStream, InHand, ReadMoving
<1>6. Incoming' = Kept(cbuf_in)
  <2>1. Incoming' = OneStream(cbuf_in', byte'[p], l \in ReadMoving)
    BY <1>0, <1>1, <1>4, ReaderKnows, ReaderStreams
  <2>2. OneStream(cbuf_in', byte'[p], l \in ReadMoving) = InHand(NoByte) \o Kept(cbuf_in)
    BY <1>0, <1>i DEF OneStream, ReadMoving, shared
  <2> QED BY <1>b, <2>1, <2>2, NothingInHand
<1>7. /\ Incoming # <<>>
      /\ Head(Incoming) = byte[p]
      /\ Tail(Incoming) = Incoming'
  BY <1>b, <1>i, <1>5, <1>6, FirstOfStream
<1>8. UNCHANGED <<uart_initialized, file, line, Outgoing>>
  BY <1>0, <1>1, <1>4, ReaderKnows, ReaderStreams
<1>9. uart_initialized > 0
  BY <1>0, ReaderKnows
<1> QED BY <1>0, <1>4, <1>7, <1>8, <1>9 DEF Port!Read, Outgoing, Incoming

(* A read returns: it has nothing left in hand.                            *)
LEMMA ReaderReturns ==
  ASSUME IInv, NEW p \in Readers, NEW from, Return(p, from),
         from \in {"read_loop", "read_load", "read_end"}
  PROVE  IInv' /\ UNCHANGED Port!vars
<1> DEFINE l == "idle"
<1>0. /\ pc[p] = from /\ pc[p] # "idle" /\ pc[p] \notin ReadMoving
      /\ UNCHANGED <<shared, given, transmitter, receiver>>
      /\ pc' = [pc EXCEPT ![p] = l]
      /\ left' = [left EXCEPT ![p] = 0]
      /\ byte' = [byte EXCEPT ![p] = NoByte]
      /\ to_send' = [to_send EXCEPT ![p] = NoByte]
  BY DEF Return, Goto, ReadMoving
<1>b. Kept(cbuf_in) \in Seq(Byte) /\ byte[p] = NoByte
  BY <1>0, ReaderKnows DEF ReaderAt
<1>p. p \in Processes /\ TypeOK
  BY <1>0, ReaderKnows DEF IInv
<1>i. left'[p] = 0 /\ byte'[p] = NoByte
  BY <1>0, <1>p DEF TypeOK
<1>t. to_send' = to_send
  <2>1. to_send[p] = NoByte
    BY DEF IInv, NotSending
  <2> QED BY <1>0, <1>p, <2>1 DEF TypeOK
<1>1. OnlyReader(p, l)
  <2>1. 0 \in 0 .. MaxSize
    BY Rs232Assumption
  <2> QED BY <1>0, <1>i, <1>p, <1>t, <2>1
          DEF OnlyReader, TypeOK, shared, transmitter, receiver
<1>2. ReaderAt(p, l)'
  BY <1>0, <1>i, ReaderKnows DEF ReaderAt, ReadLabels, ReadMoving, InRoutineIn, shared
<1>3. Held(cbuf_in, l \in ReadMoving)'
  BY <1>0, ReaderKnows DEF Held, shared, ReadMoving
<1>4. IInv'
  BY <1>0, <1>1, <1>2, <1>3, ReaderKnows, ReaderStepKeeps
<1>5. OneStream(cbuf_in', byte'[p], l \in ReadMoving)
        = OneStream(cbuf_in, byte[p], pc[p] \in ReadMoving)
  BY <1>0, <1>b, <1>i DEF OneStream, InHand, ReadMoving, shared
<1>6. got' = got
  BY <1>0 DEF receiver
<1> QED BY <1>0, <1>1, <1>4, <1>5, <1>6, ReaderKnows, ReaderStutters

(* The whole read routine.                                                 *)
LEMMA ReaderSteps ==
  ASSUME IInv, NEW p \in Readers, ReadStep(p)
  PROVE  IInv' /\ (UNCHANGED Port!vars \/ Port!Read)
<1>1. CASE ReadReturns(p)
  BY <1>1, ReaderReturns DEF ReadReturns
<1>2. CASE Astray(p)
  BY <1>2, Breaks DEF Astray, IInv, TypeOK
<1> QED BY <1>1, <1>2, ReaderTests, ReaderLoads, ReaderMovesTail, ReaderGives DEF ReadStep

-----------------------------------------------------------------------------
(* The steps of the interrupt routine.                                     *)

(* A turn of its loop: it moves no process but the sleepers.               *)
OnlyIsr ==
  /\ UNCHANGED <<file, uart_initialized, locals, ier, line, got>>
  /\ pc' = pc \/ pc' = Woken

(* Whoever is woken tests again: no place that counts on anything changes. *)
LEMMA WokenPlaces ==
  ASSUME IInv, OnlyIsr
  PROVE  /\ pc' \in [Processes -> Labels]
         /\ \A p \in Processes : pc'[p] = "idle" <=> pc[p] = "idle"
         /\ \A p \in Writers : WriterAt(p, pc'[p])
         /\ \A p \in Writers : pc'[p] \in WriteMoving <=> pc[p] \in WriteMoving
         /\ \A p \in Readers : ReaderAt(p, pc'[p])
         /\ \A p \in Readers : pc'[p] \in ReadMoving <=> pc[p] \in ReadMoving
<1>1. pc \in [Processes -> Labels]
  BY DEF IInv, TypeOK
<1>2. \A p \in Processes :
        \/ pc'[p] = pc[p]
        \/ pc[p] = "write_asleep" /\ pc'[p] = "write_wait"
        \/ pc[p] = "read_asleep" /\ pc'[p] = "read_wait"
  BY <1>1 DEF OnlyIsr, Woken
<1>3. pc' \in [Processes -> Labels]
  <2>1. \A p \in Processes : Woken[p] \in Labels
    BY <1>1 DEF Woken, Labels
  <2>2. Woken \in [Processes -> Labels]
    BY <2>1 DEF Woken
  <2> QED BY <1>1, <2>2 DEF OnlyIsr
<1>4. ASSUME NEW p \in Writers
      PROVE  WriterAt(p, pc'[p]) /\ (pc'[p] \in WriteMoving <=> pc[p] \in WriteMoving)
  <2>1. WriterAt(p, pc[p]) /\ p \in Processes
    BY DEF IInv, Writing, Processes
  <2>2. \/ pc'[p] = pc[p]
        \/ pc[p] = "write_asleep" /\ pc'[p] = "write_wait"
    BY <1>2, <2>1 DEF WriterAt, WriteLabels
  <2>3. CASE pc'[p] = pc[p]
    BY <2>1, <2>3
  <2>4. CASE pc[p] = "write_asleep" /\ pc'[p] = "write_wait"
    BY <2>1, <2>4
    DEF WriterAt, WriteLabels, Carrying, WriteMoving, Sending, FlagUp, FlagDown, InRoutineOut
  <2> QED BY <2>2, <2>3, <2>4
<1>5. ASSUME NEW p \in Readers
      PROVE  ReaderAt(p, pc'[p]) /\ (pc'[p] \in ReadMoving <=> pc[p] \in ReadMoving)
  <2>1. ReaderAt(p, pc[p]) /\ p \in Processes
    BY DEF IInv, Reading, Processes
  <2>2. \/ pc'[p] = pc[p]
        \/ pc[p] = "read_asleep" /\ pc'[p] = "read_wait"
    BY <1>2, <2>1 DEF ReaderAt, ReadLabels
  <2>3. CASE pc'[p] = pc[p]
    BY <2>1, <2>3
  <2>4. CASE pc[p] = "read_asleep" /\ pc'[p] = "read_wait"
    BY <2>1, <2>4 DEF ReaderAt, ReadLabels, ReadMoving, InRoutineIn
  <2> QED BY <2>2, <2>3, <2>4
<1>6. \A p \in Processes : pc'[p] = "idle" <=> pc[p] = "idle"
  BY <1>2
<1> QED BY <1>3, <1>4, <1>5, <1>6

(* A turn of the routine keeps the invariant when it keeps what the        *)
(* processes count on.                                                     *)
LEMMA IsrStepKeeps ==
  ASSUME IInv, OnlyIsr,
         cbuf_in' \in Buffers(SizeIn, Byte) \cup {Freed},
         cbuf_out' \in Buffers(SizeOut, Byte) \cup {Freed},
         empty_thr_from_isr' \in BOOLEAN,
         thr' \in Byte \cup {NoByte},
         thr_pending' \in BOOLEAN,
         rbr' \in Byte \cup {NoByte},
         overrun' \in BOOLEAN,
         crashed' \in BOOLEAN,
         ThrIdle', StartedEmpty', Writing', Reading', BytesHeld'
  PROVE  IInv'
<1>1. TypeOK'
  <2>1. TypeOK
    BY DEF IInv
  <2>2. pc' \in [Processes -> Labels]
    BY WokenPlaces
  <2> QED BY <2>1, <2>2 DEF TypeOK, OnlyIsr, locals
<1>2. FilesCounted'
  <2>1. FilesCounted /\ file' = file /\ uart_initialized' = uart_initialized
    BY DEF IInv, OnlyIsr
  <2>2. Users' = Users
    BY <2>1 DEF Users
  <2>3. \A p \in Processes : pc'[p] # "idle" => file[FileOf[p]] = "open"
    BY <2>1, WokenPlaces DEF FilesCounted
  <2> QED BY <2>1, <2>2, <2>3 DEF FilesCounted
<1>3. NotSending'
  BY DEF IInv, NotSending, OnlyIsr, locals
<1>4. OneWriter /\ OneReader /\ OpensAlone
  BY DEF IInv
<1> QED BY <1>1, <1>2, <1>3, <1>4 DEF IInv, OneWriter, OneReader, OpensAlone

(* Nobody is moving in the next state who was not in this one.             *)
LEMMA IsrMovesNobody ==
  ASSUME IInv, OnlyIsr
  PROVE  /\ (\E p \in Writers : pc'[p] \in WriteMoving)
              <=> (\E p \in Writers : pc[p] \in WriteMoving)
         /\ (\E p \in Readers : pc'[p] \in ReadMoving)
              <=> (\E p \in Readers : pc[p] \in ReadMoving)
  BY WokenPlaces

(* A byte of the receiver joins the input buffer, a reader between the two *)
(* halves of its dequeue or not.                                           *)
LEMMA IsrReceives ==
  ASSUME IInv, IsrDataAvail
  PROVE  IInv' /\ Port!Receive(rbr) /\ rbr \in Byte
<1>0. /\ ier /\ rbr # NoByte /\ cbuf_in # Freed
      /\ ~cbuffer_is_full(cbuf_in)
      /\ cbuf_in' = cbuffer_enqueue(cbuf_in, rbr)
      /\ rbr' = NoByte
      /\ UNCHANGED <<file, uart_initialized, cbuf_out, empty_thr_from_isr, locals,
                     transmitter, overrun, got, crashed>>
      /\ OnlyIsr
  BY DEF IsrDataAvail, OnlyIsr, transmitter
<1>a. /\ cbuf_in # Freed /\ cbuf_in \in Buffers(SizeIn, Byte)
      /\ SizeIn \in Nat \ {0}
      /\ rbr \in Byte
      /\ TypeOK
  BY <1>0, Rs232Assumption DEF IInv, TypeOK
<1>s. /\ cbuf_in' \in Buffers(SizeIn, Byte)
      /\ Contents(cbuf_in') = Append(Contents(cbuf_in), rbr)
      /\ ~cbuffer_is_empty(cbuf_in')
  BY <1>0, <1>a, EnqueueAppends
<1>c. /\ Contents(cbuf_in)' = Contents(cbuf_in')
      /\ cbuffer_is_empty(cbuf_in)' <=> cbuffer_is_empty(cbuf_in')
  BY DEF Contents, cbuffer_current_size, cbuffer_is_empty
<1>g. Contents(cbuf_in) \in Seq(Slots) /\ Kept(cbuf_in) = Contents(cbuf_in)
  BY <1>a, ContentsAre DEF Slots, Kept
<1>f. cbuf_in' # Freed /\ Kept(cbuf_in') = Contents(cbuf_in')
  BY <1>s, BuffersAreNotFreed DEF Kept
<1>m. (\E p \in Readers : pc[p] \in ReadMoving) =>
        /\ Contents(cbuf_in) # <<>>
        /\ Tail(Contents(cbuf_in)) \in Seq(Byte)
        /\ Tail(Append(Contents(cbuf_in), rbr)) = Append(Tail(Contents(cbuf_in)), rbr)
  <2> SUFFICES ASSUME \E p \in Readers : pc[p] \in ReadMoving
               PROVE  /\ Contents(cbuf_in) # <<>>
                      /\ Tail(Contents(cbuf_in)) \in Seq(Byte)
                      /\ Tail(Append(Contents(cbuf_in), rbr))
                           = Append(Tail(Contents(cbuf_in)), rbr)
    OBVIOUS
  <2>1. ~cbuffer_is_empty(cbuf_in)
    BY <1>a DEF IInv, Reading, ReaderAt
  <2>2. Contents(cbuf_in) # <<>>
    BY <1>a, <2>1, TestsCount
  <2>3. Tail(Contents(cbuf_in)) \in Seq(Byte)
    BY <1>a DEF IInv, BytesHeld, Held
  <2>4. Tail(Append(Contents(cbuf_in), rbr)) = Append(Tail(Contents(cbuf_in)), rbr)
    BY <1>a, <1>g, <2>2, HeadTailAppend
  <2> QED BY <2>2, <2>3, <2>4
<1>1. Writing'
  <2> SUFFICES ASSUME NEW p \in Writers PROVE WriterAt(p, pc[p])'
    BY DEF Writing
  <2>1. WriterAt(p, pc'[p])
    BY <1>0, WokenPlaces
  <2> QED BY <1>0, <2>1 DEF WriterAt, locals, transmitter
<1>2. Reading'
  <2> SUFFICES ASSUME NEW p \in Readers PROVE ReaderAt(p, pc[p])'
    BY DEF Reading
  <2>1. ReaderAt(p, pc'[p])
    BY <1>0, WokenPlaces
  <2> QED BY <1>0, <1>a, <1>c, <1>f, <1>s, <2>1 DEF ReaderAt, locals
<1>3. BytesHeld'
  <2>1. Held(cbuf_out, \E p \in Writers : pc[p] \in WriteMoving)'
    <3>1. Held(cbuf_out, \E p \in Writers : pc[p] \in WriteMoving)
      BY DEF IInv, BytesHeld
    <3> QED BY <1>0, <3>1, IsrMovesNobody DEF Held
  <2>2. CASE \E p \in Readers : pc[p] \in ReadMoving
    <3>1. Tail(Contents(cbuf_in')) \in Seq(Byte)
      BY <1>a, <1>m, <1>s, <2>2, AppendProperties
    <3>2. \E p \in Readers : pc'[p] \in ReadMoving
      BY <1>0, <2>2, IsrMovesNobody
    <3> QED BY <1>c, <2>1, <3>1, <3>2 DEF BytesHeld, Held
  <2>3. CASE ~\E p \in Readers : pc[p] \in ReadMoving
    <3>1. Contents(cbuf_in) \in Seq(Byte)
      BY <1>a, <2>3 DEF IInv, BytesHeld, Held
    <3>2. Contents(cbuf_in') \in Seq(Byte)
      BY <1>a, <1>s, <3>1, AppendProperties
    <3>3. ~\E p \in Readers : pc'[p] \in ReadMoving
      BY <1>0, <2>3, IsrMovesNobody
    <3> QED BY <1>c, <2>1, <3>2, <3>3 DEF BytesHeld, Held
  <2> QED BY <2>2, <2>3
<1>4. ThrIdle' /\ StartedEmpty'
  BY <1>0 DEF IInv, ThrIdle, StartedEmpty, transmitter
<1>5. IInv'
  BY <1>0, <1>a, <1>s, <1>1, <1>2, <1>3, <1>4, IsrStepKeeps DEF TypeOK, transmitter
<1>6. Incoming' = Append(Incoming, rbr)
  <2>1. CASE \E p \in Readers : TRUE
    <3> PICK p \in Readers : TRUE
      BY <2>1
    <3>1. Incoming = OneStream(cbuf_in, byte[p], pc[p] \in ReadMoving)
      BY ReaderStream DEF ReaderStreamIs
    <3>2. Incoming' = OneStream(cbuf_in', byte'[p], pc'[p] \in ReadMoving)
      <4>1. ReaderStreamIs'
        BY <1>5, StreamsNext
      <4> QED BY <4>1 DEF ReaderStreamIs
    <3>3. byte'[p] = byte[p] /\ (pc'[p] \in ReadMoving <=> pc[p] \in ReadMoving)
      BY <1>0, WokenPlaces DEF locals
    <3>4. InHand(byte[p]) \in Seq(Slots) /\ rbr \in Slots
      <4>1. byte[p] \in Byte \cup {NoByte}
        BY <1>a DEF TypeOK, Processes
      <4>2. InHand(byte[p]) \in Seq(Slots)
        BY <4>1, InHandType
      <4>3. rbr \in Slots
        BY <1>0, <1>a DEF TypeOK, Slots
      <4> QED BY <4>2, <4>3
    <3>5. CASE pc[p] \in ReadMoving
      <4>1. /\ Tail(Contents(cbuf_in)) \in Seq(Slots)
            /\ Tail(Contents(cbuf_in')) = Append(Tail(Contents(cbuf_in)), rbr)
        <5>1. Contents(cbuf_in) # <<>>
          BY <1>m, <3>5
        <5>2. Tail(Contents(cbuf_in)) \in Seq(Slots)
          BY <1>g, <5>1, HeadTailProperties
        <5> QED BY <1>m, <1>s, <3>5, <5>2
      <4>2. InHand(byte[p]) \o Append(Tail(Contents(cbuf_in)), rbr)
              = Append(InHand(byte[p]) \o Tail(Contents(cbuf_in)), rbr)
        BY <3>4, <4>1, AppendToStream
      <4> QED BY <1>a, <1>f, <3>1, <3>2, <3>3, <3>5, <4>1, <4>2 DEF OneStream
    <3>6. CASE pc[p] \notin ReadMoving
      <4>1. InHand(byte[p]) \o Append(Contents(cbuf_in), rbr)
              = Append(InHand(byte[p]) \o Contents(cbuf_in), rbr)
        BY <1>g, <3>4, AppendToStream
      <4> QED BY <1>f, <1>g, <1>s, <3>1, <3>2, <3>3, <3>6, <4>1 DEF OneStream
    <3> QED BY <3>5, <3>6
  <2>2. CASE ~\E p \in Readers : TRUE
    <3>1. Incoming = Contents(cbuf_in)
      BY <1>g, <2>2, UnreadStream DEF UnreadStreamIs
    <3>2. Incoming' = Kept(cbuf_in')
      BY <2>2, StreamsNext DEF UnreadStreamIs, Kept
    <3> QED BY <1>f, <1>s, <3>1, <3>2
  <2> QED BY <2>1, <2>2
<1>7. Outgoing' = Outgoing
  <2>1. \A p \in Writers : pc'[p] \in WriteMoving <=> pc[p] \in WriteMoving
    BY <1>0, WokenPlaces
  <2>2. UNCHANGED <<thr, to_send, given, cbuf_out>>
    BY <1>0 DEF locals, transmitter
  <2> QED BY <2>1, <2>2, OutgoingKept
<1> QED BY <1>0, <1>a, <1>5, <1>6, <1>7
        DEF Port!Receive, Outgoing, Incoming, transmitter

(* An error of the line is cleared; a byte that finds the buffer full, or  *)
(* no buffer, or the divisor latch, crashes the driver.                    *)
LEMMA IsrFails ==
  ASSUME IInv, IsrError \/ IsrOverwrite \/ IsrAstray
  PROVE  IInv' /\ UNCHANGED Port!vars
<1>1. TypeOK
  BY DEF IInv
<1>2. /\ UNCHANGED <<shared, pc, locals, transmitter, got>>
      /\ rbr' \in {rbr, NoByte}
      /\ overrun' \in {overrun, FALSE}
      /\ crashed' \in {crashed, TRUE}
  BY DEF IsrError, IsrOverwrite, IsrAstray
<1> QED BY <1>1, <1>2, Breaks DEF TypeOK

(* With an interrupt of the THR pending, no writer holds a byte for it.    *)
LEMMA NobodySends ==
  ASSUME IInv, thr_pending
  PROVE  /\ thr = NoByte
         /\ \A p \in Writers :
              /\ pc[p] \notin FlagUp
              /\ pc[p] \notin FlagDown
              /\ pc[p] \notin WriteMoving
              /\ to_send[p] = NoByte
<1>1. thr = NoByte
  BY DEF IInv, ThrIdle
<1>2. ASSUME NEW p \in Writers
      PROVE  /\ pc[p] \notin FlagUp
             /\ pc[p] \notin FlagDown
             /\ pc[p] \notin WriteMoving
             /\ to_send[p] = NoByte
  <2>1. WriterAt(p, pc[p]) /\ p \in Processes
    BY DEF IInv, Writing, Processes
  <2>2. pc[p] \notin FlagDown
    BY <2>1 DEF WriterAt
  <2>3. pc[p] \notin FlagUp
    <3>1. pc[p] \in FlagUp => pc[p] # "idle"
      BY DEF FlagUp
    <3> QED BY <2>1, <3>1, FlagOrPending DEF WriterAt
  <2>4. pc[p] \in Sending => pc[p] \in FlagUp \cup FlagDown
    BY DEF Sending, FlagUp, FlagDown
  <2>5. pc[p] \in WriteMoving => pc[p] \in Sending
    BY DEF Sending, WriteMoving
  <2> QED BY <2>1, <2>2, <2>3, <2>4, <2>5 DEF WriterAt
<1> QED BY <1>1, <1>2

(* The THR is empty: the routine gives it the oldest byte, or puts the     *)
(* flag up.                                                                *)
LEMMA IsrSends ==
  ASSUME IInv, IsrEmptyThr
  PROVE  IInv' /\ UNCHANGED Port!vars
<1>0. /\ ier /\ thr_pending /\ cbuf_out # Freed
      /\ pc' = Woken
      /\ thr_pending' = FALSE
      /\ UNCHANGED <<file, uart_initialized, cbuf_in, locals, ier, line, receiver>>
      /\ OnlyIsr
  BY DEF IsrEmptyThr, OnlyIsr, receiver
<1>a. /\ cbuf_out # Freed /\ cbuf_out \in Buffers(SizeOut, Byte)
      /\ SizeOut \in Nat \ {0}
      /\ TypeOK
  BY <1>0, Rs232Assumption DEF IInv, TypeOK
<1>n. /\ thr = NoByte
      /\ \A p \in Writers :
           /\ pc[p] \notin FlagUp /\ pc[p] \notin FlagDown
           /\ pc[p] \notin WriteMoving /\ to_send[p] = NoByte
  BY <1>0, NobodySends
<1>h. Contents(cbuf_out) \in Seq(Byte)
  BY <1>a, <1>n DEF IInv, BytesHeld, Held
<1>t. \/ /\ ~cbuffer_is_empty(cbuf_out)
         /\ thr' = Oldest(cbuf_out)
         /\ cbuf_out' = cbuffer_dequeue(cbuf_out)
         /\ UNCHANGED empty_thr_from_isr
      \/ /\ cbuffer_is_empty(cbuf_out)
         /\ empty_thr_from_isr' = TRUE
         /\ UNCHANGED <<thr, cbuf_out>>
  BY DEF IsrEmptyThr
<1>d. ~cbuffer_is_empty(cbuf_out) =>
        /\ cbuffer_dequeue(cbuf_out) \in Buffers(SizeOut, Byte)
        /\ cbuffer_dequeue(cbuf_out).head = cbuf_out.head
        /\ cbuffer_dequeue(cbuf_out).cbuff[cbuf_out.head] = cbuf_out.cbuff[cbuf_out.head]
        /\ ~cbuffer_is_full(cbuffer_dequeue(cbuf_out))
        /\ Contents(cbuffer_dequeue(cbuf_out)) = Tail(Contents(cbuf_out))
        /\ Contents(cbuf_out) # <<>>
        /\ Oldest(cbuf_out) = Head(Contents(cbuf_out))
  BY <1>a, DequeueTakes
<1>b. ~cbuffer_is_empty(cbuf_out) =>
        /\ Oldest(cbuf_out) \in Byte /\ Oldest(cbuf_out) # NoByte
        /\ Tail(Contents(cbuf_out)) \in Seq(Byte)
        /\ <<Oldest(cbuf_out)>> \o Tail(Contents(cbuf_out)) = Contents(cbuf_out)
  BY <1>d, <1>h, HeadAndTail, Rs232Assumption
<1>c. /\ Contents(cbuf_out)' = Contents(cbuf_out')
      /\ cbuffer_is_full(cbuf_out)' <=> cbuffer_is_full(cbuf_out')
  BY DEF Contents, cbuffer_current_size, cbuffer_is_full, NextMod
<1>k. cbuf_out' \in Buffers(SizeOut, Byte) /\ Contents(cbuf_out') \in Seq(Byte)
  BY <1>a, <1>b, <1>d, <1>h, <1>t
<1>f. /\ cbuf_out' # Freed
      /\ Kept(cbuf_out) = Contents(cbuf_out)
      /\ Kept(cbuf_out') = Contents(cbuf_out')
  BY <1>a, <1>k, BuffersAreNotFreed DEF Kept
<1>l. /\ cbuf_out'.head = cbuf_out.head
      /\ cbuf_out'.cbuff[cbuf_out'.head] = cbuf_out.cbuff[cbuf_out.head]
      /\ ~cbuffer_is_full(cbuf_out) => ~cbuffer_is_full(cbuf_out')
  BY <1>d, <1>t
<1>1. Writing'
  <2> SUFFICES ASSUME NEW p \in Writers PROVE WriterAt(p, pc[p])'
    BY DEF Writing
  <2>1. WriterAt(p, pc'[p]) /\ (pc'[p] \in WriteMoving <=> pc[p] \in WriteMoving)
    BY <1>0, WokenPlaces
  <2>2. pc'[p] \notin FlagDown /\ pc'[p] \notin FlagUp
    <3>1. pc'[p] \in {pc[p], "write_wait", "read_wait"}
      BY <1>0 DEF Woken, Processes
    <3> QED BY <1>n, <3>1 DEF FlagUp, FlagDown
  <2>3. pc'[p] \notin WriteMoving
    BY <1>n, <2>1
  <2>4. UNCHANGED <<left, byte, to_send, given>>
    BY <1>0 DEF locals
  <2> QED BY <1>a, <1>c, <1>f, <1>l, <2>1, <2>2, <2>3, <2>4 DEF WriterAt
<1>2. Reading'
  <2> SUFFICES ASSUME NEW p \in Readers PROVE ReaderAt(p, pc[p])'
    BY DEF Reading
  <2>1. ReaderAt(p, pc'[p])
    BY <1>0, WokenPlaces
  <2> QED BY <1>0, <2>1 DEF ReaderAt, locals
<1>m. ~\E p \in Writers : pc'[p] \in WriteMoving
  BY <1>0, <1>n, IsrMovesNobody
<1>3. BytesHeld'
  <2>1. Held(cbuf_out, \E p \in Writers : pc[p] \in WriteMoving)'
    BY <1>c, <1>k, <1>m DEF Held
  <2>2. Held(cbuf_in, \E p \in Readers : pc[p] \in ReadMoving)'
    <3>1. Held(cbuf_in, \E p \in Readers : pc[p] \in ReadMoving)
      BY DEF IInv, BytesHeld
    <3> QED BY <1>0, <3>1, IsrMovesNobody DEF Held
  <2> QED BY <2>1, <2>2 DEF BytesHeld
<1>4. ThrIdle'
  <2>1. empty_thr_from_isr => cbuffer_is_empty(cbuf_out)
    BY <1>0, <1>a DEF IInv, ThrIdle, StartedEmpty, Started
  <2> QED BY <1>0, <1>n, <1>t, <2>1 DEF ThrIdle
<1>8. StartedEmpty'
  <2>1. cbuffer_is_empty(cbuf_out) => UNCHANGED <<file, cbuf_out>>
    BY <1>0, <1>t
  <2>2. ~cbuffer_is_empty(cbuf_out) => \A f \in Files : file'[f] \notin Started
    BY <1>0, <1>a DEF IInv, StartedEmpty
  <2>3. cbuf_out' = cbuf_out => (cbuffer_is_empty(cbuf_out)' <=> cbuffer_is_empty(cbuf_out))
    BY DEF cbuffer_is_empty
  <2> QED BY <2>1, <2>2, <2>3 DEF StartedEmpty
<1>5. IInv'
  <2>1. thr' \in Byte \cup {NoByte} /\ empty_thr_from_isr' \in BOOLEAN
    BY <1>a, <1>b, <1>t DEF TypeOK
  <2> QED BY <1>0, <1>a, <1>k, <1>1, <1>2, <1>3, <1>4, <1>8, <2>1, IsrStepKeeps
          DEF TypeOK, receiver
<1>6. Outgoing' = Outgoing
  <2>1. Outgoing = InHand(thr) \o Contents(cbuf_out)
    BY <1>f, <1>n, QuietStream DEF QuietStreamIs
  <2>2. Outgoing' = InHand(thr') \o Contents(cbuf_out')
    <3>1. \A p \in Writers : to_send'[p] = NoByte /\ pc'[p] \notin WriteMoving
      BY <1>0, <1>n, <1>m DEF locals
    <3>2. QuietStreamIs'
      BY StreamsNext
    <3>3. InHand(thr)' = InHand(thr') /\ Kept(cbuf_out)' = Kept(cbuf_out')
      BY DEF InHand, Kept
    <3> QED BY <1>f, <3>1, <3>2, <3>3 DEF QuietStreamIs
  <2>3. InHand(thr) \o Contents(cbuf_out) = Contents(cbuf_out)
    BY <1>h, <1>n, NothingInHand
  <2>4. CASE cbuffer_is_empty(cbuf_out)
    BY <1>t, <2>1, <2>2, <2>4
  <2>5. CASE ~cbuffer_is_empty(cbuf_out)
    <3>1. InHand(thr') \o Contents(cbuf_out') = Contents(cbuf_out)
      BY <1>b, <1>d, <1>t, <2>5 DEF InHand
    <3> QED BY <2>1, <2>2, <2>3, <3>1
  <2> QED BY <2>4, <2>5
<1>7. Incoming' = Incoming
  <2>1. \A p \in Readers : pc'[p] \in ReadMoving <=> pc[p] \in ReadMoving
    BY <1>0, WokenPlaces
  <2>2. UNCHANGED <<byte, given, cbuf_in>>
    BY <1>0 DEF locals
  <2> QED BY <2>1, <2>2, IncomingKept
<1> QED BY <1>0, <1>5, <1>6, <1>7, PortKept DEF receiver

(* The whole interrupt routine: it receives a byte, or is no step of the   *)
(* serial port.                                                            *)
LEMMA IsrSteps ==
  ASSUME IInv, Isr
  PROVE  /\ IInv'
         /\ UNCHANGED Port!vars \/ \E b \in Byte : Port!Receive(b)
  BY IsrReceives, IsrFails, IsrSends DEF Isr

-----------------------------------------------------------------------------
(* The steps of the UART.                                                  *)

(* What the transmitter has yet to send is a sequence.                     *)
LEMMA OutStreamType ==
  ASSUME IInv
  PROVE  Stream(Writers, to_send, WriteMoving, cbuf_out) \in Seq(Slots)
<1>1. Kept(cbuf_out) \in Seq(Slots)
  BY Rs232Assumption, KeptType DEF IInv, TypeOK
<1>2. \A p \in Writers : InHand(to_send[p]) \in Seq(Slots)
  <2> SUFFICES ASSUME NEW p \in Writers PROVE InHand(to_send[p]) \in Seq(Slots)
    OBVIOUS
  <2>1. to_send[p] \in Byte \cup {NoByte}
    BY DEF IInv, TypeOK, Processes
  <2> QED BY <2>1, InHandType
<1> DEFINE movers == {p \in Writers : pc[p] \in WriteMoving /\ given[p] = "current"}
           holders == {p \in Writers : to_send[p] # NoByte}
<1>3. CASE movers # {}
  <2> DEFINE p == CHOOSE q \in movers : TRUE
  <2>1. p \in Writers /\ pc[p] \in WriteMoving /\ given[p] = "current"
    BY <1>3
  <2>2. Stream(Writers, to_send, WriteMoving, cbuf_out)
          = InHand(to_send[p]) \o Tail(Contents(cbuf_out))
    BY <1>3 DEF Stream
  <2> HIDE DEF p, movers
  <2>3. cbuf_out # Freed /\ ~cbuffer_is_empty(cbuf_out)
    BY <2>1 DEF IInv, Writing, WriterAt, WriteMoving, InRoutineOut
  <2>4. cbuf_out \in Buffers(SizeOut, Byte) /\ SizeOut \in Nat \ {0}
    BY <2>3, Rs232Assumption DEF IInv, TypeOK
  <2>5. Contents(cbuf_out) \in Seq(Slots) /\ Contents(cbuf_out) # <<>>
    BY <2>3, <2>4, ContentsAre, TestsCount DEF Slots
  <2>6. Tail(Contents(cbuf_out)) \in Seq(Slots)
    BY <2>5, HeadTailProperties
  <2> QED BY <1>2, <2>1, <2>2, <2>6, ConcatProperties
<1>4. CASE movers = {} /\ holders # {}
  <2> DEFINE p == CHOOSE q \in holders : TRUE
  <2>1. p \in Writers
    BY <1>4
  <2>2. Stream(Writers, to_send, WriteMoving, cbuf_out) = InHand(to_send[p]) \o Kept(cbuf_out)
    BY <1>4 DEF Stream
  <2> HIDE DEF p, movers, holders
  <2> QED BY <1>1, <1>2, <2>1, <2>2, ConcatProperties
<1>5. CASE movers = {} /\ holders = {}
  BY <1>1, <1>5 DEF Stream
<1> QED BY <1>3, <1>4, <1>5

(* The UART sends the byte of the THR.                                     *)
LEMMA ShiftStep ==
  ASSUME IInv, Shift
  PROVE  IInv' /\ Port!Send
<1>0. /\ thr # NoByte
      /\ line' = thr
      /\ thr' = NoByte
      /\ thr_pending' = ier
      /\ UNCHANGED <<shared, pc, locals, ier, receiver>>
  BY DEF Shift
<1>1. TypeOK'
  BY <1>0 DEF IInv, TypeOK, shared, locals, receiver
<1>2. FilesCounted'
  BY <1>0 DEF IInv, FilesCounted, Users, shared
<1>3. ThrIdle' /\ StartedEmpty'
  BY <1>0 DEF IInv, ThrIdle, StartedEmpty, shared
<1>4. Writing'
  BY <1>0 DEF IInv, Writing, WriterAt, shared, locals
<1>5. Reading'
  BY <1>0 DEF IInv, Reading, ReaderAt, shared, locals
<1>6. NotSending'
  BY <1>0 DEF IInv, NotSending, locals
<1>7. BytesHeld'
  BY <1>0 DEF IInv, BytesHeld, Held, shared
<1>8. IInv'
  BY <1>1, <1>2, <1>3, <1>4, <1>5, <1>6, <1>7 DEF IInv, OneWriter, OneReader, OpensAlone
<1> DEFINE rest == Stream(Writers, to_send, WriteMoving, cbuf_out)
<1>9. rest \in Seq(Slots) /\ thr \in Slots
  BY <1>0, OutStreamType DEF IInv, TypeOK, Slots
<1>10. rest' = rest
  BY <1>0 DEF Stream, InHand, Kept, shared, locals
<1>11. Outgoing = <<thr>> \o rest
  BY <1>0 DEF Outgoing, InHand, WriteMoving
<1>12. Outgoing' = rest
  <2>1. Outgoing' = InHand(NoByte) \o rest'
    BY <1>0 DEF Outgoing, InHand, WriteMoving
  <2> HIDE DEF rest
  <2> QED BY <1>9, <1>10, <2>1, NothingInHand
<1> HIDE DEF rest
<1>13. /\ Outgoing # <<>>
       /\ line' = Head(Outgoing)
       /\ Outgoing' = Tail(Outgoing)
  BY <1>0, <1>9, <1>11, <1>12, FirstOfStream
<1>14. UNCHANGED <<uart_initialized, file, Incoming, got>>
  BY <1>0, IncomingKept DEF shared, locals, receiver
<1> QED BY <1>8, <1>13, <1>14 DEF Port!Send, Outgoing, Incoming

(* A byte arrives.                                                         *)
LEMMA ArriveStep ==
  ASSUME IInv, NEW b \in Heard, Arrive(b)
  PROVE  IInv' /\ UNCHANGED Port!vars
<1>1. TypeOK
  BY DEF IInv
<1> QED BY <1>1, Breaks, Rs232Assumption DEF Arrive, TypeOK

-----------------------------------------------------------------------------
(* The steps of open and release.                                          *)

Starting == \E f \in Files : file[f] \in Allocating
StillClosing == \E f \in Files : file[f] \in Closing

FileStates == {"closed", "open"} \cup Opening \cup {"testing"} \cup Closing

(* A file goes from one state to another: the files in use.                *)
LEMMA UsersMove ==
  ASSUME TypeOK, NEW f \in Files, NEW from, NEW s, FileGoes(f, from, s)
  PROVE  /\ file[f] = from /\ file'[f] = s
         /\ \A g \in Files \ {f} : file'[g] = file[g]
         /\ (from \in InUse <=> s \in InUse) => Cardinality(Users') = Cardinality(Users)
         /\ from \notin InUse /\ s \in InUse => Cardinality(Users') = Cardinality(Users) + 1
         /\ from \in InUse /\ s \notin InUse => Cardinality(Users') = Cardinality(Users) - 1
         /\ Cardinality(Users') \in 0 .. Cardinality(Files)
<1>1. file[f] = from /\ file'[f] = s /\ \A g \in Files \ {f} : file'[g] = file[g]
  BY DEF TypeOK, FileGoes
<1>2. IsFiniteSet(Users) /\ IsFiniteSet(Users')
  BY Rs232Assumption, FS_Subset DEF Users
<1> HIDE DEF InUse
<1>3. (from \in InUse <=> s \in InUse) => Users' = Users
  BY <1>1 DEF Users
<1>4. ASSUME from \notin InUse, s \in InUse
      PROVE  Cardinality(Users') = Cardinality(Users) + 1
  <2>1. Users' = Users \cup {f} /\ f \notin Users
    BY <1>1, <1>4 DEF Users
  <2> QED BY <1>2, <2>1, FS_AddElement
<1>5. ASSUME from \in InUse, s \notin InUse
      PROVE  Cardinality(Users') = Cardinality(Users) - 1
  <2>1. Users' = Users \ {f} /\ f \in Users
    BY <1>1, <1>5 DEF Users
  <2> QED BY <1>2, <2>1, FS_RemoveElement
<1>6. Cardinality(Users') \in 0 .. Cardinality(Files)
  <2>1. Users' \in SUBSET Files
    BY DEF Users
  <2>2. Cardinality(Users') <= Cardinality(Files)
    BY <2>1, Rs232Assumption, FS_Subset
  <2>3. Cardinality(Users') \in Nat /\ Cardinality(Files) \in Nat
    BY <1>2, Rs232Assumption, FS_CardinalityType
  <2> QED BY <2>2, <2>3
<1> QED BY <1>1, <1>3, <1>4, <1>5, <1>6

(* With no file open, nobody is in a call.                                 *)
LEMMA NobodyCalls ==
  ASSUME IInv, \A f \in Files : file[f] # "open"
  PROVE  /\ \A p \in Processes : pc[p] = "idle" /\ given[p] = "current"
         /\ \A p \in Writers : pc[p] \notin WriteMoving /\ to_send[p] = NoByte
         /\ \A p \in Readers : pc[p] \notin ReadMoving /\ byte[p] = NoByte
<1>1. \A p \in Processes : pc[p] = "idle"
  BY Rs232Assumption DEF IInv, FilesCounted
<1>2. \A p \in Writers : pc[p] \notin WriteMoving /\ to_send[p] = NoByte /\ given[p] = "current"
  BY <1>1 DEF IInv, Writing, WriterAt, WriteMoving, Sending, InRoutineOut, Processes
<1>3. \A p \in Readers : pc[p] \notin ReadMoving /\ byte[p] = NoByte /\ given[p] = "current"
  BY <1>1 DEF IInv, Reading, ReaderAt, ReadMoving, InRoutineIn, Processes
<1> QED BY <1>1, <1>2, <1>3 DEF Processes

(* With the count at 0 no file is in use.                                  *)
LEMMA NobodyUses ==
  ASSUME IInv, uart_initialized = 0
  PROVE  \A f \in Files : file[f] \notin InUse
<1>1. IsFiniteSet(Users)
  BY Rs232Assumption, FS_Subset DEF Users
<1>2. Users = {}
  BY <1>1, FS_EmptySet DEF IInv, FilesCounted
<1> QED BY <1>2 DEF Users

(* With the count at 1 a file in use is the only one.                      *)
LEMMA OnlyUser ==
  ASSUME IInv, uart_initialized = 1, NEW f \in Files, file[f] \in InUse
  PROVE  \A g \in Files \ {f} : file[g] \notin InUse
<1>1. IsFiniteSet(Users) /\ f \in Users
  BY Rs232Assumption, FS_Subset DEF Users
<1>2. IsFiniteSet(Users \ {f}) /\ Cardinality(Users \ {f}) = Cardinality(Users) - 1
  BY <1>1, FS_RemoveElement
<1>3. Cardinality(Users \ {f}) = 0
  BY <1>2 DEF IInv, FilesCounted
<1>4. Users \ {f} = {}
  BY <1>2, <1>3, FS_EmptySet
<1> QED BY <1>4 DEF Users

(* Whoever gets the lock finds no other open under way.                    *)
LEMMA LockMeansAlone ==
  ASSUME IInv, NEW f \in Files, LockFreeFor(f)
  PROVE  \A g \in Files \ {f} : file[g] \notin Opening
  BY DEF LockFreeFor, IInv, OpensAlone

(* An open that found itself alone is, and nobody is in a call.            *)
LEMMA AloneIsAlone ==
  ASSUME IInv, NEW f \in Files, file[f] \in Alone
  PROVE  \A g \in Files : file[g] # "open"
<1>1. "open" \in InUse /\ "open" \notin Alone
  BY DEF InUse, Alone, Allocating, Started
<1> QED BY <1>1 DEF IInv, FilesCounted

(* A step of one file keeps the count, and the opens apart.                *)
LEMMA FilesTurn ==
  ASSUME IInv, NEW f \in Files, NEW from, NEW s \in FileStates, FileGoes(f, from, s),
         pc' = pc,
         uart_initialized' = uart_initialized + (IF s \in InUse THEN 1 ELSE 0)
                                              - (IF from \in InUse THEN 1 ELSE 0),
         from = "open" => \A p \in Processes : FileOf[p] = f => pc[p] = "idle",
         s \in Opening => from \in Opening \/ \A g \in Files \ {f} : file[g] \notin Opening,
         s \in Alone => from \in Alone \/ \A g \in Files \ {f} : file[g] \notin InUse,
         s = "open" => from \in Opening
  PROVE  /\ file' \in [Files -> FileStates]
         /\ uart_initialized' \in 0 .. Cardinality(Files)
         /\ FilesCounted'
<1>0. /\ file[f] = from /\ file'[f] = s
      /\ \A g \in Files \ {f} : file'[g] = file[g]
      /\ Cardinality(Users') \in 0 .. Cardinality(Files)
  BY UsersMove DEF IInv
<1>1. uart_initialized' = Cardinality(Users')
  <2> HIDE DEF InUse
  <2>1. uart_initialized = Cardinality(Users) /\ uart_initialized \in Int
    BY DEF IInv, TypeOK, FilesCounted
  <2>2. CASE from \in InUse <=> s \in InUse
    <3>1. Cardinality(Users') = Cardinality(Users)
      BY <2>2, UsersMove DEF IInv
    <3> QED BY <2>1, <2>2, <3>1
  <2>3. CASE from \notin InUse /\ s \in InUse
    <3>1. Cardinality(Users') = Cardinality(Users) + 1
      BY <2>3, UsersMove DEF IInv
    <3> QED BY <2>1, <2>3, <3>1
  <2>4. CASE from \in InUse /\ s \notin InUse
    <3>1. Cardinality(Users') = Cardinality(Users) - 1
      BY <2>4, UsersMove DEF IInv
    <3> QED BY <2>1, <2>4, <3>1
  <2> QED BY <2>2, <2>3, <2>4
<1>2. /\ Alone \subseteq Opening /\ InUse = Opening \cup {"open"} /\ "open" \notin Opening
      /\ "open" \notin Alone
  BY DEF InUse, Opening, Initialising, Alone, Allocating, Started
<1>o. /\ \A g, h \in Files : file[g] \in Opening /\ file[h] \in Opening => g = h
      /\ \A g, h \in Files : file[g] \in Alone /\ file[h] \in InUse => g = h
  BY DEF IInv, FilesCounted
<1>3. \A g, h \in Files : file'[g] \in Opening /\ file'[h] \in Opening => g = h
  <2> HIDE DEF Opening
  <2> QED BY <1>0, <1>o
<1>4. \A g, h \in Files : file'[g] \in Alone /\ file'[h] \in InUse => g = h
  <2> HIDE DEF Opening, Alone, InUse
  <2> SUFFICES ASSUME NEW g \in Files, NEW h \in Files, file'[g] \in Alone,
                      file'[h] \in InUse, g # h
               PROVE  FALSE
    OBVIOUS
  <2>1. CASE g = f
    <3>1. file[h] = file'[h] /\ s \in Alone
      BY <1>0, <2>1
    <3>2. from \in Alone
      BY <3>1, <2>1
    <3> QED BY <1>0, <1>o, <2>1, <3>1, <3>2
  <2>2. CASE h = f
    <3>1. file[g] = file'[g] /\ s \in InUse
      BY <1>0, <2>2
    <3>2. file[g] \in Opening
      BY <1>2, <3>1
    <3>3. from \in Opening
      BY <1>2, <2>2, <3>1, <3>2
    <3> QED BY <1>0, <1>2, <1>o, <2>2, <3>1, <3>2, <3>3
  <2>3. CASE g # f /\ h # f
    BY <1>0, <1>o, <2>3
  <2> QED BY <2>1, <2>2, <2>3
<1>5. \A p \in Processes : pc'[p] # "idle" => file'[FileOf[p]] = "open"
  <2> SUFFICES ASSUME NEW p \in Processes, pc'[p] # "idle"
               PROVE  file'[FileOf[p]] = "open"
    OBVIOUS
  <2>1. FileOf[p] \in Files /\ file[FileOf[p]] = "open"
    BY Rs232Assumption DEF IInv, FilesCounted
  <2> QED BY <1>0, <2>1
<1>6. file' \in [Files -> FileStates]
  <2>1. file \in [Files -> FileStates]
    BY DEF IInv, TypeOK, FileStates
  <2> HIDE DEF FileStates
  <2> QED BY <2>1 DEF FileGoes
<1> QED BY <1>0, <1>1, <1>3, <1>4, <1>5, <1>6 DEF FilesCounted

(* What leaves the buffers, the hands and the THR alone leaves the         *)
(* streams alone.                                                          *)
LEMMA StreamsLeft ==
  ASSUME UNCHANGED <<cbuf_in, cbuf_out, pc, locals, thr>>
  PROVE  UNCHANGED <<Outgoing, Incoming>>
  BY IncomingKept, OutgoingKept DEF locals

(* The state of one file says whether an open is still to have its         *)
(* buffers, and a close still to end.                                      *)
LEMMA StartAndCloseMove ==
  ASSUME TypeOK, NEW f \in Files, NEW from, NEW s, FileGoes(f, from, s)
  PROVE  /\ from \in Allocating => Starting
         /\ s \in Allocating => Starting'
         /\ (s \in Allocating <=> from \in Allocating) => (Starting' <=> Starting)
         /\ from \in Closing => StillClosing
         /\ s \in Closing => StillClosing'
         /\ (s \in Closing <=> from \in Closing) => (StillClosing' <=> StillClosing)
<1>1. file[f] = from /\ file'[f] = s /\ \A g \in Files \ {f} : file'[g] = file[g]
  BY DEF TypeOK, FileGoes
<1> HIDE DEF Allocating, Closing
<1> QED BY <1>1 DEF Starting, StillClosing

(* A step of open or release that leaves the buffers alone.                *)
LEMMA FileMoves ==
  ASSUME IInv, NEW f \in Files, NEW from, NEW s \in FileStates, FileGoes(f, from, s),
         uart_initialized' = uart_initialized + (IF s \in InUse THEN 1 ELSE 0)
                                              - (IF from \in InUse THEN 1 ELSE 0),
         from = "open" => \A p \in Processes : FileOf[p] = f => pc[p] = "idle",
         s \in Opening => from \in Opening \/ \A g \in Files \ {f} : file[g] \notin Opening,
         s \in Alone => from \in Alone \/ \A g \in Files \ {f} : file[g] \notin InUse,
         s = "open" => from \in Opening,
         s \in Started => from \in Started,
         UNCHANGED <<cbuf_in, cbuf_out, empty_thr_from_isr, pc, locals, thr, line, got, crashed>>,
         ier' \in BOOLEAN,
         rbr' \in Byte \cup {NoByte},
         overrun' \in BOOLEAN,
         thr_pending' \in BOOLEAN,
         thr_pending' => \/ thr_pending
                         \/ thr = NoByte /\ s = "opening" /\ from \in Alone,
         from = "opening" => ~thr_pending'
  PROVE  IInv' /\ UNCHANGED <<Outgoing, Incoming>>
<1>0. /\ file[f] = from /\ file'[f] = s
      /\ \A g \in Files \ {f} : file'[g] = file[g]
  BY UsersMove DEF IInv
<1>1. FilesCounted' /\ TypeOK'
  <2>1. /\ file' \in [Files -> FileStates]
        /\ uart_initialized' \in 0 .. Cardinality(Files)
        /\ FilesCounted'
    BY FilesTurn
  <2> QED BY <2>1 DEF IInv, TypeOK, FileStates, locals
<1>2. ThrIdle'
  <2>1. /\ empty_thr_from_isr => thr = NoByte
        /\ thr_pending => thr = NoByte
        /\ empty_thr_from_isr /\ thr_pending => \E g \in Files : file[g] = "opening"
    BY DEF IInv, ThrIdle
  <2>2. ASSUME empty_thr_from_isr', thr_pending'
        PROVE  \E g \in Files : file'[g] = "opening"
    <3>1. CASE s = "opening"
      BY <1>0, <3>1
    <3>2. CASE s # "opening"
      <4>1. PICK g \in Files : file[g] = "opening"
        BY <2>1, <2>2, <3>2
      <4>2. g # f
        BY <1>0, <2>2, <4>1
      <4> QED BY <1>0, <4>1, <4>2
    <3> QED BY <3>1, <3>2
  <2>3. thr_pending' => thr' = NoByte
    BY <2>1
  <2> QED BY <2>1, <2>2, <2>3 DEF ThrIdle
<1>3. StartedEmpty'
  <2>1. \A g \in Files : file'[g] \in Started => file[g] \in Started
    BY <1>0
  <2>2. cbuffer_is_empty(cbuf_out)' <=> cbuffer_is_empty(cbuf_out)
    BY DEF cbuffer_is_empty
  <2> HIDE DEF Started
  <2> QED BY <2>1, <2>2 DEF IInv, StartedEmpty
<1>4. Writing'
  <2> SUFFICES ASSUME NEW p \in Writers PROVE WriterAt(p, pc[p])'
    BY DEF Writing
  <2>1. WriterAt(p, pc[p]) /\ p \in Processes
    BY DEF IInv, Writing, Processes
  <2>2. pc[p] \in FlagDown => ~thr_pending'
    <3>1. pc[p] \in FlagDown => pc[p] # "idle" /\ ~thr_pending
      BY <2>1 DEF FlagDown, WriterAt
    <3>2. from \in Alone => pc[p] = "idle"
      BY <1>0, <2>1, AloneIsAlone, NobodyCalls
    <3> QED BY <3>1, <3>2
  <2>3. UNCHANGED <<left, byte, to_send, given, cbuf_out, pc>>
    BY DEF locals
  <2> QED BY <2>1, <2>2, <2>3 DEF WriterAt, cbuffer_is_full, cbuffer_is_empty
<1>5. Reading'
  BY DEF IInv, Reading, ReaderAt, locals, cbuffer_is_empty
<1>6. NotSending' /\ BytesHeld'
  BY DEF IInv, NotSending, BytesHeld, Held, locals
<1> QED BY <1>1, <1>2, <1>3, <1>4, <1>5, <1>6, StreamsLeft
        DEF IInv, OneWriter, OneReader, OpensAlone

(* With the buffers emptied, at most the byte of the THR goes out.         *)
LEMMA OnlyThrLeft ==
  ASSUME IInv, Outgoing' = InHand(thr)
  PROVE  \/ Outgoing' = <<>>
         \/ Outgoing # <<>> /\ Outgoing' = <<Head(Outgoing)>>
<1> DEFINE rest == Stream(Writers, to_send, WriteMoving, cbuf_out)
<1>1. CASE thr = NoByte
  BY <1>1 DEF InHand
<1>2. CASE thr # NoByte
  <2>1. rest \in Seq(Slots) /\ thr \in Slots
    BY <1>2, OutStreamType DEF IInv, TypeOK, Slots
  <2>2. Outgoing = <<thr>> \o rest
    BY <1>2 DEF Outgoing, InHand, WriteMoving
  <2>3. InHand(thr) = <<thr>>
    BY <1>2 DEF InHand
  <2> HIDE DEF rest
  <2>4. Outgoing # <<>> /\ Head(Outgoing) = thr
    BY <2>1, <2>2, FirstOfStream
  <2> QED BY <2>3, <2>4
<1> QED BY <1>1, <1>2

(* An open counts itself: it is an open of the port.                       *)
LEMMA Counted ==
  ASSUME IInv, NEW f \in Files, Count(f)
  PROVE  IInv' /\ Port!Open
<1>0. /\ FileGoes(f, "closed", "counted")
      /\ uart_initialized' = uart_initialized + 1
      /\ UNCHANGED <<cbuf_in, cbuf_out, empty_thr_from_isr, pc, locals,
                     ier, thr, thr_pending, line, rbr, overrun, got, crashed>>
  BY DEF Count, OnlyCounts, transmitter, receiver
<1>1. \A g \in Files \ {f} : file[g] \notin Opening
  BY LockMeansAlone DEF Count
<1>2. /\ "counted" \in FileStates /\ "counted" \in InUse /\ "counted" \in Opening
      /\ "closed" \notin InUse /\ "counted" \notin Alone /\ "counted" \notin Started
      /\ "counted" \notin Allocating /\ "closed" \notin Allocating
      /\ "counted" \notin Closing /\ "closed" \notin Closing
  BY DEF FileStates, InUse, Opening, Initialising, Alone, Allocating, Started, Closing
<1>3. TypeOK /\ uart_initialized \in Int
  BY DEF IInv, TypeOK
<1>4. uart_initialized' = uart_initialized + (IF "counted" \in InUse THEN 1 ELSE 0)
                                           - (IF "closed" \in InUse THEN 1 ELSE 0)
  BY <1>0, <1>2, <1>3
<1> HIDE DEF FileStates, InUse, Opening, Alone, Started, Allocating, Closing
<1>5. IInv' /\ UNCHANGED <<Outgoing, Incoming>>
  BY <1>0, <1>1, <1>2, <1>3, <1>4, FileMoves DEF TypeOK
<1>6. (Starting' <=> Starting) /\ (StillClosing' <=> StillClosing)
  BY <1>0, <1>2, <1>3, StartAndCloseMove
<1> QED BY <1>0, <1>5, <1>6 DEF Port!Open, Outgoing, Incoming, Starting, StillClosing

(* The test of the count: an open that finds itself alone is the port's    *)
(* first open.                                                             *)
LEMMA FirstTested ==
  ASSUME IInv, NEW f \in Files, TestFirst(f)
  PROVE  IInv' /\ (UNCHANGED Port!vars \/ Port!FirstOpen)
<1> DEFINE s == IF uart_initialized = 1 THEN "alloc_in" ELSE "open"
<1>0. /\ FileGoes(f, "counted", s)
      /\ UNCHANGED <<uart_initialized, cbuf_in, cbuf_out, empty_thr_from_isr, pc, locals,
                     ier, thr, thr_pending, line, rbr, overrun, got, crashed>>
  BY DEF TestFirst, OnlyCounts, transmitter, receiver
<1>1. file[f] = "counted"
  BY <1>0 DEF FileGoes
<1>2. /\ s \in FileStates /\ s \in InUse /\ s \notin Started /\ s \notin Closing
      /\ "counted" \in InUse /\ "counted" \in Opening
      /\ "counted" \notin Allocating /\ "counted" \notin Closing
      /\ "alloc_in" \in Allocating /\ "open" \notin Allocating
      /\ "open" \notin Alone
  BY DEF FileStates, InUse, Opening, Initialising, Alone, Allocating, Started, Closing
<1>3. TypeOK /\ uart_initialized \in Int
  BY DEF IInv, TypeOK
<1>4. uart_initialized' = uart_initialized + (IF s \in InUse THEN 1 ELSE 0)
                                           - (IF "counted" \in InUse THEN 1 ELSE 0)
  BY <1>0, <1>2, <1>3
<1>5. s \in Alone => \A g \in Files \ {f} : file[g] \notin InUse
  BY <1>1, <1>2, OnlyUser
<1> HIDE DEF FileStates, InUse, Opening, Alone, Started, Allocating, Closing
<1>6. IInv' /\ UNCHANGED <<Outgoing, Incoming>>
  <2> HIDE DEF s
  <2> QED BY <1>0, <1>2, <1>3, <1>4, <1>5, FileMoves DEF TypeOK
<1>7. StillClosing' <=> StillClosing
  <2> HIDE DEF s
  <2> QED BY <1>0, <1>2, <1>3, StartAndCloseMove
<1>8. CASE uart_initialized = 1
  <2>1. FileGoes(f, "counted", "alloc_in")
    BY <1>0, <1>8
  <2>2. Starting'
    BY <1>2, <1>3, <2>1, StartAndCloseMove
  <2> QED BY <1>0, <1>6, <1>7, <1>8, <2>2
          DEF Port!FirstOpen, Outgoing, Incoming, Starting, StillClosing
<1>9. CASE uart_initialized # 1
  <2>1. FileGoes(f, "counted", "open")
    BY <1>0, <1>9
  <2>2. Starting' <=> Starting
    BY <1>2, <1>3, <2>1, StartAndCloseMove
  <2> QED BY <1>0, <1>6, <1>7, <2>2 DEF Port!vars, Outgoing, Incoming, Starting, StillClosing
<1> QED BY <1>8, <1>9

(* What an open does to the UART is no step of the port, nor its return.   *)
LEMMA UartInitialised ==
  ASSUME IInv, NEW f \in Files,
         ClearRbr(f) \/ SetSpeed(f) \/ EnableInterrupts(f) \/ OpenReturns(f)
  PROVE  IInv' /\ UNCHANGED Port!vars
<1>0. TypeOK /\ uart_initialized \in Int
  BY DEF IInv, TypeOK
<1> DEFINE Turns(from, s) ==
             /\ FileGoes(f, from, s)
             /\ from = "opening" => ~thr_pending'
             /\ s = "open" => from = "opening"
             /\ UNCHANGED <<uart_initialized, cbuf_in, cbuf_out, empty_thr_from_isr, pc, locals,
                            thr, line, got, crashed>>
             /\ ier' \in BOOLEAN
             /\ rbr' \in Byte \cup {NoByte}
             /\ overrun' \in BOOLEAN
             /\ thr_pending' \in BOOLEAN
             /\ thr_pending' => thr_pending \/ (thr = NoByte /\ s = "opening")
<1>1. PICK from \in Started, s \in {"set_speed", "set_line", "enable", "opening", "open"} :
        Turns(from, s)
  <2>1. ClearRbr(f) => Turns("clear_rbr", "set_speed")
    BY <1>0 DEF ClearRbr, transmitter, TypeOK
  <2>2. SetSpeed(f) => Turns("set_speed", "set_line") \/ Turns("set_line", "enable")
    BY <1>0 DEF SetSpeed, OnlyCounts, transmitter, receiver, TypeOK
  <2>3. EnableInterrupts(f) => Turns("enable", "opening")
    BY <1>0 DEF EnableInterrupts, receiver, TypeOK
  <2>4. OpenReturns(f) => Turns("opening", "open")
    <3> SUFFICES ASSUME OpenReturns(f) PROVE Turns("opening", "open")
      OBVIOUS
    <3>1. thr_pending' = thr_pending /\ ~thr_pending
      BY DEF OpenReturns, transmitter
    <3>2. ~thr_pending'
      BY <3>1, Zenon
    <3> QED BY <1>0, <3>1, <3>2 DEF OpenReturns, transmitter, TypeOK
  <2> HIDE DEF Turns
  <2> QED BY <2>1, <2>2, <2>3, <2>4 DEF Started
<1>2. /\ s \in FileStates /\ s \in InUse /\ from \in InUse
      /\ from \in Opening /\ from \in Alone
      /\ s \notin Closing /\ from \notin Closing
      /\ s \notin Allocating /\ from \notin Allocating
  BY DEF FileStates, InUse, Opening, Initialising, Alone, Allocating, Started, Closing
<1>3. uart_initialized' = uart_initialized + (IF s \in InUse THEN 1 ELSE 0)
                                           - (IF from \in InUse THEN 1 ELSE 0)
  BY <1>0, <1>1, <1>2
<1>4. from # "open"
  BY DEF Started
<1> HIDE DEF FileStates, InUse, Opening, Alone, Started, Allocating, Closing
<1>5. IInv' /\ UNCHANGED <<Outgoing, Incoming>>
  BY <1>1, <1>2, <1>3, <1>4, FileMoves
<1>6. (Starting' <=> Starting) /\ (StillClosing' <=> StillClosing)
  BY <1>0, <1>1, <1>2, StartAndCloseMove
<1> QED BY <1>1, <1>5, <1>6 DEF Port!vars, Outgoing, Incoming, Starting, StillClosing

(* A release is a close of the port.                                       *)
LEMMA Released ==
  ASSUME IInv, NEW f \in Files, Release(f)
  PROVE  IInv' /\ Port!Close
<1>0. /\ FileGoes(f, "open", "testing")
      /\ \A p \in Processes : FileOf[p] = f => pc[p] = "idle"
      /\ uart_initialized' = uart_initialized - 1
      /\ UNCHANGED <<cbuf_in, cbuf_out, empty_thr_from_isr, pc, locals,
                     ier, thr, thr_pending, line, rbr, overrun, got, crashed>>
  BY DEF Release, OnlyCounts, transmitter, receiver
<1>2. /\ "testing" \in FileStates /\ "testing" \notin InUse /\ "open" \in InUse
      /\ "testing" \notin Opening /\ "testing" \notin Alone /\ "testing" \notin Started
      /\ "testing" \notin Allocating /\ "open" \notin Allocating
      /\ "testing" \notin Closing /\ "open" \notin Closing
  BY DEF FileStates, InUse, Opening, Initialising, Alone, Allocating, Started, Closing
<1>3. TypeOK /\ uart_initialized \in 0 .. Cardinality(Files)
  BY DEF IInv, TypeOK
<1>4. uart_initialized' = uart_initialized + (IF "testing" \in InUse THEN 1 ELSE 0)
                                           - (IF "open" \in InUse THEN 1 ELSE 0)
  BY <1>0, <1>2, <1>3
<1>1. uart_initialized > 0
  <2>1. uart_initialized # 0
    BY <1>0, <1>2, NobodyUses DEF FileGoes
  <2> QED BY <1>3, <2>1
<1> HIDE DEF FileStates, InUse, Opening, Alone, Started, Allocating, Closing
<1>5. IInv' /\ UNCHANGED <<Outgoing, Incoming>>
  BY <1>0, <1>2, <1>3, <1>4, FileMoves DEF TypeOK
<1>6. (Starting' <=> Starting) /\ (StillClosing' <=> StillClosing)
  BY <1>0, <1>2, <1>3, StartAndCloseMove
<1> QED BY <1>0, <1>1, <1>5, <1>6 DEF Port!Close, Outgoing, Incoming, Starting, StillClosing

(* The test of the count: a release that finds nobody left is the port's   *)
(* last close.                                                             *)
LEMMA LastTested ==
  ASSUME IInv, NEW f \in Files, TestLast(f)
  PROVE  IInv' /\ (UNCHANGED Port!vars \/ Port!LastClose)
<1> DEFINE s == IF uart_initialized = 0 THEN "masking" ELSE "closed"
<1>0. /\ FileGoes(f, "testing", s)
      /\ UNCHANGED <<uart_initialized, cbuf_in, cbuf_out, empty_thr_from_isr, pc, locals,
                     ier, thr, thr_pending, line, rbr, overrun, got, crashed>>
  BY DEF TestLast, OnlyCounts, transmitter, receiver
<1>2. /\ s \in FileStates /\ s \notin InUse /\ "testing" \notin InUse
      /\ s \notin Opening /\ s \notin Alone /\ s \notin Started
      /\ s \notin Allocating /\ "testing" \notin Allocating
      /\ "masking" \in Closing /\ "closed" \notin Closing /\ "testing" \notin Closing
  BY DEF FileStates, InUse, Opening, Initialising, Alone, Allocating, Started, Closing
<1>3. TypeOK /\ uart_initialized \in Int
  BY DEF IInv, TypeOK
<1>4. uart_initialized' = uart_initialized + (IF s \in InUse THEN 1 ELSE 0)
                                           - (IF "testing" \in InUse THEN 1 ELSE 0)
  BY <1>0, <1>2, <1>3
<1>5. s # "open"
  OBVIOUS
<1> HIDE DEF FileStates, InUse, Opening, Alone, Started, Allocating, Closing
<1>6. IInv' /\ UNCHANGED <<Outgoing, Incoming>>
  <2> HIDE DEF s
  <2> QED BY <1>0, <1>2, <1>3, <1>4, <1>5, FileMoves DEF TypeOK
<1>7. Starting' <=> Starting
  <2> HIDE DEF s
  <2> QED BY <1>0, <1>2, <1>3, StartAndCloseMove
<1>8. CASE uart_initialized = 0
  <2>1. FileGoes(f, "testing", "masking")
    BY <1>0, <1>8
  <2>2. StillClosing'
    BY <1>2, <1>3, <2>1, StartAndCloseMove
  <2> QED BY <1>0, <1>6, <1>7, <1>8, <2>2
          DEF Port!LastClose, Outgoing, Incoming, Starting, StillClosing
<1>9. CASE uart_initialized # 0
  <2>1. FileGoes(f, "testing", "closed")
    BY <1>0, <1>9
  <2>2. StillClosing' <=> StillClosing
    BY <1>2, <1>3, <2>1, StartAndCloseMove
  <2> QED BY <1>0, <1>6, <1>7, <2>2 DEF Port!vars, Outgoing, Incoming, Starting, StillClosing
<1> QED BY <1>8, <1>9

(* To mask the interrupts is no step of the port.                          *)
LEMMA Masked ==
  ASSUME IInv, NEW f \in Files, MaskInterrupts(f)
  PROVE  IInv' /\ UNCHANGED Port!vars
<1>0. /\ FileGoes(f, "masking", "free_in")
      /\ ier' \in BOOLEAN
      /\ thr_pending' = (thr_pending /\ DivisorLatch)
      /\ UNCHANGED <<uart_initialized, cbuf_in, cbuf_out, empty_thr_from_isr, pc, locals,
                     thr, line, rbr, overrun, got, crashed>>
  BY DEF MaskInterrupts, receiver
<1>2. /\ "free_in" \in FileStates /\ "free_in" \notin InUse /\ "masking" \notin InUse
      /\ "free_in" \notin Opening /\ "free_in" \notin Alone /\ "free_in" \notin Started
      /\ "free_in" \notin Allocating /\ "masking" \notin Allocating
      /\ "free_in" \in Closing /\ "masking" \in Closing
  BY DEF FileStates, InUse, Opening, Initialising, Alone, Allocating, Started, Closing
<1>3. TypeOK /\ uart_initialized \in Int
  BY DEF IInv, TypeOK
<1>4. uart_initialized' = uart_initialized + (IF "free_in" \in InUse THEN 1 ELSE 0)
                                           - (IF "masking" \in InUse THEN 1 ELSE 0)
  BY <1>0, <1>2, <1>3
<1> HIDE DEF FileStates, InUse, Opening, Alone, Started, Allocating, Closing
<1>5. IInv' /\ UNCHANGED <<Outgoing, Incoming>>
  BY <1>0, <1>2, <1>3, <1>4, FileMoves DEF TypeOK
<1>6. (Starting' <=> Starting) /\ (StillClosing' <=> StillClosing)
  BY <1>0, <1>2, <1>3, StartAndCloseMove
<1> QED BY <1>0, <1>5, <1>6 DEF Port!vars, Outgoing, Incoming, Starting, StillClosing

(* A buffer is allocated while nobody is in a call: what was kept in the   *)
(* one it replaces is dropped.                                             *)
LEMMA Allocates ==
  ASSUME IInv, NEW f \in Files, NEW from \in Allocating, NEW s \in {"alloc_out", "clear_rbr"},
         FileGoes(f, from, s),
         cbuf_in' = cbuf_in \/ cbuf_in' = cbuffer_init(SizeIn),
         cbuf_out' = cbuf_out \/ cbuf_out' = cbuffer_init(SizeOut),
         s = "clear_rbr" => cbuf_out' = cbuffer_init(SizeOut),
         UNCHANGED <<uart_initialized, empty_thr_from_isr, pc, left, byte, to_send,
                     transmitter, receiver>>,
         (\A p \in Processes : pc[p] = "idle") => given' = given
  PROVE  IInv' /\ Port!Drop
<1>0. TypeOK /\ uart_initialized \in Int
  BY DEF IInv, TypeOK
<1>1. /\ file[f] = from /\ file'[f] = s
      /\ \A g \in Files \ {f} : file'[g] = file[g]
  BY <1>0, UsersMove
<1>2. /\ s \in FileStates /\ s \in InUse /\ from \in InUse
      /\ from \in Opening /\ from \in Alone /\ from \notin Started
      /\ s \notin Closing /\ from \notin Closing /\ "alloc_out" \notin Started
  BY DEF FileStates, InUse, Opening, Initialising, Alone, Allocating, Started, Closing
<1>3. /\ \A p \in Processes : pc[p] = "idle"
      /\ \A p \in Writers : pc[p] \notin WriteMoving /\ to_send[p] = NoByte
      /\ \A p \in Readers : pc[p] \notin ReadMoving /\ byte[p] = NoByte
  BY <1>1, <1>2, AloneIsAlone, NobodyCalls
<1>4. UNCHANGED <<pc, left, byte, to_send, given>>
  BY <1>3
<1>5. /\ cbuffer_init(SizeIn) \in Buffers(SizeIn, Byte)
      /\ Contents(cbuffer_init(SizeIn)) = <<>>
      /\ cbuffer_init(SizeOut) \in Buffers(SizeOut, Byte)
      /\ Contents(cbuffer_init(SizeOut)) = <<>>
      /\ cbuffer_is_empty(cbuffer_init(SizeOut))
  BY Rs232Assumption, NewIsEmpty
<1>6. FilesCounted' /\ TypeOK'
  <2>1. uart_initialized' = uart_initialized + (IF s \in InUse THEN 1 ELSE 0)
                                             - (IF from \in InUse THEN 1 ELSE 0)
    BY <1>0, <1>2
  <2>2. s # "open" /\ from # "open"
    BY DEF Allocating
  <2>3. /\ file' \in [Files -> FileStates]
        /\ uart_initialized' \in 0 .. Cardinality(Files)
        /\ FilesCounted'
    BY <1>2, <2>1, <2>2, FilesTurn
  <2>4. /\ cbuf_in' \in Buffers(SizeIn, Byte) \cup {Freed}
        /\ cbuf_out' \in Buffers(SizeOut, Byte) \cup {Freed}
    BY <1>0, <1>5 DEF TypeOK
  <2> QED BY <1>0, <1>4, <2>3, <2>4 DEF TypeOK, FileStates, transmitter, receiver
<1>7. ThrIdle'
  <2>1. \A g \in Files : file[g] = "opening" => file'[g] = "opening"
    BY <1>1, <1>2 DEF Started
  <2> QED BY <2>1 DEF IInv, ThrIdle, transmitter
<1>8. StartedEmpty'
  <2> SUFFICES ASSUME NEW g \in Files, file'[g] \in Started
               PROVE  cbuffer_is_empty(cbuf_out)'
    BY DEF StartedEmpty
  <2>1. g = f
    <3>1. file'[g] = file[g] => file[g] \in Alone
      BY DEF Alone
    <3> QED BY <1>1, <1>2, <3>1 DEF IInv, FilesCounted
  <2>2. cbuf_out' = cbuffer_init(SizeOut)
    BY <1>1, <1>2, <2>1
  <2> QED BY <1>5, <2>2 DEF cbuffer_is_empty
<1>9. Writing'
  <2> SUFFICES ASSUME NEW p \in Writers PROVE WriterAt(p, pc[p])'
    BY DEF Writing
  <2>1. WriterAt(p, pc[p]) /\ pc[p] = "idle"
    BY <1>3 DEF IInv, Writing, Processes
  <2> QED BY <1>4, <2>1
          DEF WriterAt, FlagUp, FlagDown, Sending, Carrying, WriteMoving, InRoutineOut
<1>10. Reading'
  <2> SUFFICES ASSUME NEW p \in Readers PROVE ReaderAt(p, pc[p])'
    BY DEF Reading
  <2>1. ReaderAt(p, pc[p]) /\ pc[p] = "idle"
    BY <1>3 DEF IInv, Reading, Processes
  <2> QED BY <1>4, <2>1 DEF ReaderAt, ReadMoving, InRoutineIn
<1>c. /\ Contents(cbuf_in)' = Contents(cbuf_in') /\ Kept(cbuf_in)' = Kept(cbuf_in')
      /\ Contents(cbuf_out)' = Contents(cbuf_out') /\ Kept(cbuf_out)' = Kept(cbuf_out')
  BY DEF Contents, cbuffer_current_size, Kept
<1>11. BytesHeld'
  <2>1. /\ ~\E p \in Writers : pc'[p] \in WriteMoving
        /\ ~\E p \in Readers : pc'[p] \in ReadMoving
    BY <1>3, <1>4
  <2>2. /\ cbuf_in' # Freed => Contents(cbuf_in') \in Seq(Byte)
        /\ cbuf_out' # Freed => Contents(cbuf_out') \in Seq(Byte)
    BY <1>3, <1>5, EmptySeq DEF IInv, BytesHeld, Held
  <2> QED BY <1>c, <2>1, <2>2 DEF BytesHeld, Held
<1>12. IInv'
  <2>1. NotSending'
    BY <1>4 DEF IInv, NotSending
  <2> QED BY <1>6, <1>7, <1>8, <1>9, <1>10, <1>11, <2>1 DEF IInv, OneWriter, OneReader, OpensAlone
<1>13. Incoming' \in {Incoming, <<>>}
  <2>1. Incoming = Kept(cbuf_in)
    BY <1>3, UnreadStream DEF UnreadStreamIs
  <2>2. Incoming' = Kept(cbuf_in')
    <3>1. UnreadStreamIs'
      BY StreamsNext
    <3> QED BY <1>3, <1>4, <1>c, <3>1 DEF UnreadStreamIs
  <2>3. Kept(cbuffer_init(SizeIn)) = <<>>
    BY <1>5 DEF Kept
  <2> QED BY <2>1, <2>2, <2>3
<1>14. \/ Outgoing' \in {Outgoing, <<>>}
       \/ Outgoing # <<>> /\ Outgoing' = <<Head(Outgoing)>>
  <2>1. Outgoing = InHand(thr) \o Kept(cbuf_out)
    BY <1>3, QuietStream DEF QuietStreamIs
  <2>2. Outgoing' = InHand(thr) \o Kept(cbuf_out')
    <3>1. QuietStreamIs'
      BY StreamsNext
    <3>2. InHand(thr)' = InHand(thr)
      BY DEF InHand, transmitter
    <3> QED BY <1>3, <1>4, <1>c, <3>1, <3>2 DEF QuietStreamIs
  <2>3. CASE cbuf_out' = cbuf_out
    BY <2>1, <2>2, <2>3
  <2>4. CASE cbuf_out' = cbuffer_init(SizeOut)
    <3>1. Kept(cbuf_out') = <<>>
      BY <1>5, <2>4 DEF Kept
    <3>2. InHand(thr) \in Seq(Slots)
      BY <1>0, InHandType DEF TypeOK
    <3>3. Outgoing' = InHand(thr)
      BY <2>2, <3>1, <3>2, ConcatEmptySeq
    <3> QED BY <3>3, OnlyThrLeft
  <2> QED BY <2>3, <2>4
<1>15. Starting /\ Starting' \in {Starting, FALSE} /\ (StillClosing' <=> StillClosing)
  <2>1. Starting
    BY <1>0, StartAndCloseMove
  <2>2. Starting' \in BOOLEAN
    BY DEF Starting
  <2>3. StillClosing' <=> StillClosing
    BY <1>0, <1>2, StartAndCloseMove
  <2>4. Starting \in BOOLEAN
    BY DEF Starting
  <2> HIDE DEF Starting, StillClosing
  <2> QED BY <2>1, <2>2, <2>3, <2>4
<1> QED BY <1>12, <1>13, <1>14, <1>15
        DEF Port!Drop, Port!Dropped, Outgoing, Incoming, Starting, StillClosing,
            transmitter, receiver

(* With nobody in a routine, nobody is left with another buffer.           *)
LEMMA NobodyIsLeft ==
  ASSUME TypeOK, NEW places, "idle" \notin places, NEW fate, LeftWith(places, fate),
         \A p \in Processes : pc[p] = "idle"
  PROVE  given' = given
<1>1. given' = [p \in Processes |-> given[p]]
  BY DEF LeftWith
<1>2. given = [p \in Processes |-> given[p]]
  BY DEF TypeOK
<1> QED BY <1>1, <1>2

(* Both allocations.                                                       *)
LEMMA BuffersAllocated ==
  ASSUME IInv, NEW f \in Files, AllocateIn(f) \/ AllocateOut(f)
  PROVE  IInv' /\ Port!Drop
<1>1. TypeOK
  BY DEF IInv
<1>2. "idle" \notin InRoutineIn /\ "idle" \notin InRoutineOut
      /\ "alloc_in" \in Allocating /\ "alloc_out" \in Allocating
  BY DEF InRoutineIn, InRoutineOut, Allocating
<1>3. CASE AllocateIn(f)
  <2>1. (\A p \in Processes : pc[p] = "idle") => given' = given
    BY <1>1, <1>2, <1>3, NobodyIsLeft DEF AllocateIn
  <2>2. /\ FileGoes(f, "alloc_in", "alloc_out")
        /\ cbuf_in' = cbuffer_init(SizeIn) /\ cbuf_out' = cbuf_out
        /\ UNCHANGED <<uart_initialized, empty_thr_from_isr, pc, left, byte, to_send,
                       transmitter, receiver>>
    BY <1>3 DEF AllocateIn
  <2> QED BY <1>2, <2>1, <2>2, Allocates
<1>4. CASE AllocateOut(f)
  <2>1. (\A p \in Processes : pc[p] = "idle") => given' = given
    BY <1>1, <1>2, <1>4, NobodyIsLeft DEF AllocateOut
  <2>2. /\ FileGoes(f, "alloc_out", "clear_rbr")
        /\ cbuf_out' = cbuffer_init(SizeOut) /\ cbuf_in' = cbuf_in
        /\ UNCHANGED <<uart_initialized, empty_thr_from_isr, pc, left, byte, to_send,
                       transmitter, receiver>>
    BY <1>4 DEF AllocateOut
  <2> QED BY <1>2, <2>1, <2>2, Allocates
<1> QED BY <1>3, <1>4

(* What a process holds comes first in its stream.                         *)
LEMMA HeldFirst ==
  ASSUME IInv
  PROVE  /\ \A p \in Readers : \E rest \in Seq(Slots) : Incoming = InHand(byte[p]) \o rest
         /\ \A p \in Writers : \E rest \in Seq(Slots) :
              Outgoing = InHand(thr) \o (InHand(to_send[p]) \o rest)
<1>1. /\ cbuf_in \in Buffers(SizeIn, Byte) \cup {Freed} /\ SizeIn \in Nat \ {0}
      /\ cbuf_out \in Buffers(SizeOut, Byte) \cup {Freed} /\ SizeOut \in Nat \ {0}
  BY Rs232Assumption DEF IInv, TypeOK
<1>2. Kept(cbuf_in) \in Seq(Slots) /\ Kept(cbuf_out) \in Seq(Slots)
  BY <1>1, KeptType
<1>3. /\ cbuf_in # Freed => Contents(cbuf_in) \in Seq(Slots)
      /\ cbuf_out # Freed => Contents(cbuf_out) \in Seq(Slots)
  BY <1>1, ContentsAre DEF Slots
<1>4. ASSUME NEW p \in Readers
      PROVE  \E rest \in Seq(Slots) : Incoming = InHand(byte[p]) \o rest
  <2>1. Incoming = OneStream(cbuf_in, byte[p], pc[p] \in ReadMoving)
    BY ReaderStream DEF ReaderStreamIs
  <2>2. CASE pc[p] \in ReadMoving /\ cbuf_in # Freed
    <3>1. ~cbuffer_is_empty(cbuf_in)
      BY <2>2 DEF IInv, Reading, ReaderAt
    <3>2. Contents(cbuf_in) # <<>>
      BY <1>1, <2>2, <3>1, TestsCount
    <3>3. Tail(Contents(cbuf_in)) \in Seq(Slots)
      BY <1>3, <2>2, <3>2, HeadTailProperties
    <3> QED BY <2>1, <2>2, <3>3 DEF OneStream
  <2>3. CASE ~(pc[p] \in ReadMoving /\ cbuf_in # Freed)
    BY <1>2, <2>1, <2>3 DEF OneStream
  <2> QED BY <2>2, <2>3
<1>5. ASSUME NEW p \in Writers
      PROVE  \E rest \in Seq(Slots) : Outgoing = InHand(thr) \o (InHand(to_send[p]) \o rest)
  <2>1. Outgoing = InHand(thr) \o OneStream(cbuf_out, to_send[p], pc[p] \in WriteMoving)
    BY WriterStream DEF WriterStreamIs
  <2>2. CASE pc[p] \in WriteMoving /\ cbuf_out # Freed
    <3>1. ~cbuffer_is_empty(cbuf_out)
      BY <2>2 DEF IInv, Writing, WriterAt
    <3>2. Contents(cbuf_out) # <<>>
      BY <1>1, <2>2, <3>1, TestsCount
    <3>3. Tail(Contents(cbuf_out)) \in Seq(Slots)
      BY <1>3, <2>2, <3>2, HeadTailProperties
    <3> QED BY <2>1, <2>2, <3>3 DEF OneStream
  <2>3. CASE ~(pc[p] \in WriteMoving /\ cbuf_out # Freed)
    BY <1>2, <2>1, <2>3 DEF OneStream
  <2> QED BY <2>2, <2>3
<1> QED BY <1>4, <1>5

(* A stream that is left with what was in one hand keeps at most its head. *)
LEMMA OnlyHandLeft ==
  ASSUME NEW b \in Byte \cup {NoByte}, NEW rest \in Seq(Slots), NEW s, s = InHand(b) \o rest
  PROVE  \/ InHand(b) = <<>>
         \/ s # <<>> /\ InHand(b) = <<Head(s)>>
<1>1. CASE b = NoByte
  BY <1>1 DEF InHand
<1>2. CASE b # NoByte
  <2>1. b \in Slots
    BY <1>2 DEF Slots
  <2>2. InHand(b) = <<b>>
    BY <1>2 DEF InHand
  <2> HIDE DEF Slots
  <2> QED BY <2>1, <2>2, FirstOfStream
<1> QED BY <1>1, <1>2

(* A byte in the THR and a byte for it in a writer's hands exclude each    *)
(* other.                                                                  *)
LEMMA OneForThr ==
  ASSUME IInv, NEW p \in Writers, thr # NoByte
  PROVE  to_send[p] = NoByte
<1>1. WriterAt(p, pc[p])
  BY DEF IInv, Writing
<1>2. pc[p] \in Sending => pc[p] \in FlagUp \cup FlagDown
  BY DEF Sending, FlagUp, FlagDown
<1> QED BY <1>1, <1>2 DEF WriterAt, IInv, ThrIdle

(* Who was in a routine of a buffer that is freed works on freed memory.   *)
LEMMA LeftWithFreed ==
  ASSUME TypeOK, NEW places, LeftWith(places, "freed")
  PROVE  /\ given' \in [Processes -> {"current", "replaced", "freed"}]
         /\ \A p \in Processes : pc[p] \notin places => given'[p] = given[p]
         /\ \A p \in Processes : pc[p] \in places /\ given[p] # "replaced" => given'[p] = "freed"
<1>1. given \in [Processes -> {"current", "replaced", "freed"}]
  BY DEF TypeOK
<1> QED BY <1>1 DEF LeftWith

(* The end of a last release keeps the invariant, if a writer and a reader *)
(* in a routine of the buffer that it frees are told.                      *)
LEMMA FreeKeeps ==
  ASSUME IInv, NEW f \in Files, NEW from \in {"free_in", "free_out"},
         NEW s \in {"free_out", "closed"}, FileGoes(f, from, s),
         UNCHANGED <<uart_initialized, empty_thr_from_isr, pc, left, byte, to_send,
                     transmitter, rbr, overrun, got>>,
         crashed' \in BOOLEAN,
         given' \in [Processes -> {"current", "replaced", "freed"}],
         cbuf_in' \in {cbuf_in, Freed}, cbuf_out' \in {cbuf_out, Freed},
         Writing', Reading'
  PROVE  IInv'
<1>0. TypeOK /\ uart_initialized \in Int
  BY DEF IInv, TypeOK
<1>1. /\ file'[f] = s
      /\ \A g \in Files \ {f} : file'[g] = file[g]
      /\ file[f] = from
  BY <1>0, UsersMove
<1>2. /\ s \in FileStates /\ s \notin InUse /\ from \notin InUse
      /\ s \notin Opening /\ s \notin Alone /\ s \notin Started
  BY DEF FileStates, InUse, Opening, Initialising, Alone, Allocating, Started, Closing
<1>3. FilesCounted' /\ TypeOK'
  <2>1. uart_initialized' = uart_initialized + (IF s \in InUse THEN 1 ELSE 0)
                                             - (IF from \in InUse THEN 1 ELSE 0)
    BY <1>0, <1>2
  <2>2. /\ file' \in [Files -> FileStates]
        /\ uart_initialized' \in 0 .. Cardinality(Files)
        /\ FilesCounted'
    BY <1>2, <2>1, FilesTurn
  <2> QED BY <1>0, <2>2 DEF TypeOK, FileStates, transmitter
<1>4. ThrIdle'
  <2>1. \A g \in Files : file[g] = "opening" => file'[g] = "opening"
    BY <1>1
  <2> QED BY <2>1 DEF IInv, ThrIdle, transmitter
<1>5. StartedEmpty'
  <2>1. \A g \in Files : file'[g] \in Started => file[g] \in Started
    BY <1>1, <1>2
  <2>2. cbuf_out' # Freed =>
          cbuf_out # Freed /\ (cbuffer_is_empty(cbuf_out)' <=> cbuffer_is_empty(cbuf_out))
    BY DEF cbuffer_is_empty
  <2> HIDE DEF Started
  <2> QED BY <2>1, <2>2 DEF IInv, StartedEmpty
<1>6. NotSending' /\ BytesHeld'
  BY DEF IInv, NotSending, BytesHeld, Held
<1> QED BY <1>3, <1>4, <1>5, <1>6 DEF IInv, OneWriter, OneReader, OpensAlone

(* It drops what the input buffer holds.                                   *)
LEMMA InFreed ==
  ASSUME IInv, NEW f \in Files, FreeIn(f)
  PROVE  IInv' /\ Port!Drop
<1>0. /\ FileGoes(f, "free_in", "free_out")
      /\ cbuf_in' = Freed /\ LeftWith(InRoutineIn, "freed") /\ crashed' \in BOOLEAN
      /\ UNCHANGED <<uart_initialized, cbuf_out, empty_thr_from_isr, pc, left, byte,
                     to_send, transmitter, rbr, overrun, got>>
  BY DEF FreeIn
<1>1. TypeOK
  BY DEF IInv
<1>2. /\ given' \in [Processes -> {"current", "replaced", "freed"}]
      /\ \A p \in Processes : pc[p] \notin InRoutineIn => given'[p] = given[p]
      /\ \A p \in Processes : pc[p] \in InRoutineIn /\ given[p] # "replaced"
                                => given'[p] = "freed"
  BY <1>0, <1>1, LeftWithFreed
<1>3. \A p \in Writers : given'[p] = given[p]
  BY <1>2 DEF IInv, Writing, WriterAt, WriteLabels, InRoutineIn, Processes
<1>4. Writing'
  BY <1>0, <1>3 DEF IInv, Writing, WriterAt, transmitter
<1>5. Reading'
  <2> SUFFICES ASSUME NEW p \in Readers PROVE ReaderAt(p, pc[p])'
    BY DEF Reading
  <2>1. ReaderAt(p, pc[p]) /\ p \in Processes
    BY DEF IInv, Reading, Processes
  <2>2. given[p] # "replaced"
    BY <2>1 DEF ReaderAt
  <2> QED BY <1>0, <1>2, <2>1, <2>2 DEF ReaderAt
<1>6. IInv'
  BY <1>0, <1>2, <1>4, <1>5, FreeKeeps
<1>7. Outgoing' = Outgoing
  BY <1>0, <1>3, OutgoingKept DEF transmitter
<1>8. \/ Incoming' = <<>>
      \/ Incoming # <<>> /\ Incoming' = <<Head(Incoming)>>
  <2>1. CASE \E p \in Readers : TRUE
    <3> PICK p \in Readers : TRUE
      BY <2>1
    <3>1. byte[p] \in Byte \cup {NoByte} /\ InHand(byte[p]) \in Seq(Slots)
      BY <1>1, InHandType DEF TypeOK, Processes
    <3>2. PICK rest \in Seq(Slots) : Incoming = InHand(byte[p]) \o rest
      BY HeldFirst
    <3>3. Incoming' = InHand(byte[p]) \o <<>>
      <4>1. ReaderStreamIs'
        BY <1>6, StreamsNext
      <4> QED BY <1>0, <4>1 DEF ReaderStreamIs, OneStream, InHand, Kept
    <3>4. Incoming' = InHand(byte[p])
      BY <3>1, <3>3, ConcatEmptySeq
    <3> QED BY <3>1, <3>2, <3>4, OnlyHandLeft
  <2>2. CASE ~\E p \in Readers : TRUE
    <3>1. UnreadStreamIs'
      BY StreamsNext
    <3> QED BY <1>0, <2>2, <3>1 DEF UnreadStreamIs, Kept
  <2> QED BY <2>1, <2>2
<1>9. StillClosing /\ StillClosing' /\ (Starting' <=> Starting)
  <2>1. /\ "free_in" \in Closing /\ "free_out" \in Closing
        /\ "free_in" \notin Allocating /\ "free_out" \notin Allocating
    BY DEF Closing, Allocating
  <2> QED BY <1>0, <1>1, <2>1, StartAndCloseMove
<1> QED BY <1>0, <1>6, <1>7, <1>8, <1>9
        DEF Port!Drop, Port!Dropped, Outgoing, Incoming, Starting, StillClosing, transmitter

(* Then what the output buffer holds.                                      *)
LEMMA OutFreed ==
  ASSUME IInv, NEW f \in Files, FreeOut(f)
  PROVE  IInv' /\ Port!Drop
<1>0. /\ FileGoes(f, "free_out", "closed")
      /\ cbuf_out' = Freed /\ LeftWith(InRoutineOut, "freed") /\ crashed' \in BOOLEAN
      /\ UNCHANGED <<uart_initialized, cbuf_in, empty_thr_from_isr, pc, left, byte,
                     to_send, transmitter, rbr, overrun, got>>
  BY DEF FreeOut
<1>1. TypeOK
  BY DEF IInv
<1>2. /\ given' \in [Processes -> {"current", "replaced", "freed"}]
      /\ \A p \in Processes : pc[p] \notin InRoutineOut => given'[p] = given[p]
      /\ \A p \in Processes : pc[p] \in InRoutineOut /\ given[p] # "replaced"
                                => given'[p] = "freed"
  BY <1>0, <1>1, LeftWithFreed
<1>3. \A p \in Readers : given'[p] = given[p]
  BY <1>2 DEF IInv, Reading, ReaderAt, ReadLabels, InRoutineOut, Processes
<1>4. Reading'
  BY <1>0, <1>3 DEF IInv, Reading, ReaderAt
<1>5. Writing'
  <2> SUFFICES ASSUME NEW p \in Writers PROVE WriterAt(p, pc[p])'
    BY DEF Writing
  <2>1. WriterAt(p, pc[p]) /\ p \in Processes
    BY DEF IInv, Writing, Processes
  <2>2. given[p] # "replaced"
    BY <2>1 DEF WriterAt
  <2> QED BY <1>0, <1>2, <2>1, <2>2 DEF WriterAt, transmitter
<1>6. IInv'
  BY <1>0, <1>2, <1>4, <1>5, FreeKeeps
<1>7. Incoming' = Incoming
  BY <1>0, <1>3, IncomingKept
<1>t. thr' = thr /\ to_send' = to_send /\ InHand(thr) \in Seq(Slots)
  BY <1>0, <1>1, InHandType DEF TypeOK, transmitter
<1>8. \/ Outgoing' = <<>>
      \/ Outgoing # <<>> /\ Outgoing' = <<Head(Outgoing)>>
  <2>1. CASE \E p \in Writers : TRUE
    <3> PICK p \in Writers : TRUE
      BY <2>1
    <3>1. to_send[p] \in Byte \cup {NoByte} /\ InHand(to_send[p]) \in Seq(Slots)
      BY <1>1, InHandType DEF TypeOK, Processes
    <3>2. PICK rest \in Seq(Slots) : Outgoing = InHand(thr) \o (InHand(to_send[p]) \o rest)
      BY HeldFirst
    <3>3. Outgoing' = InHand(thr) \o InHand(to_send[p])
      <4>1. WriterStreamIs'
        BY <1>6, StreamsNext
      <4>2. Outgoing' = InHand(thr) \o (InHand(to_send[p]) \o <<>>)
        BY <1>0, <1>t, <4>1 DEF WriterStreamIs, OneStream, InHand, Kept
      <4> QED BY <3>1, <4>2, ConcatEmptySeq
    <3>4. CASE thr = NoByte
      <4>1. InHand(to_send[p]) \o rest \in Seq(Slots)
        BY <3>1, ConcatProperties
      <4>2. Outgoing = InHand(to_send[p]) \o rest /\ Outgoing' = InHand(to_send[p])
        BY <3>1, <3>2, <3>3, <3>4, <4>1, NothingInHand
      <4> QED BY <3>1, <4>2, OnlyHandLeft
    <3>5. CASE thr # NoByte
      <4>1. to_send[p] = NoByte
        BY <3>5, OneForThr
      <4>2. Outgoing' = InHand(thr)
        BY <1>t, <3>3, <4>1, ConcatEmptySeq DEF InHand
      <4> QED BY <4>2, OnlyThrLeft
    <3> QED BY <3>4, <3>5
  <2>2. CASE ~\E p \in Writers : TRUE
    <3>1. QuietStreamIs'
      BY StreamsNext
    <3>2. Outgoing' = InHand(thr) \o <<>>
      BY <1>0, <1>t, <2>2, <3>1 DEF QuietStreamIs, InHand, Kept
    <3>3. Outgoing' = InHand(thr)
      BY <1>t, <3>2, ConcatEmptySeq
    <3> QED BY <3>3, OnlyThrLeft
  <2> QED BY <2>1, <2>2
<1>9. StillClosing /\ StillClosing' \in {StillClosing, FALSE} /\ (Starting' <=> Starting)
  <2>1. /\ "free_out" \in Closing /\ "closed" \notin Allocating /\ "free_out" \notin Allocating
    BY DEF Closing, Allocating
  <2>2. StillClosing /\ (Starting' <=> Starting)
    BY <1>0, <1>1, <2>1, StartAndCloseMove
  <2>3. StillClosing' \in BOOLEAN /\ StillClosing \in BOOLEAN
    BY DEF StillClosing
  <2> HIDE DEF StillClosing
  <2> QED BY <2>2, <2>3
<1> QED BY <1>0, <1>6, <1>7, <1>8, <1>9
        DEF Port!Drop, Port!Dropped, Outgoing, Incoming, Starting, StillClosing, transmitter

(* Every step of open and release keeps the invariant and is a step of     *)
(* the port, or none.                                                      *)
LEMMA FileSteps ==
  ASSUME IInv, NEW f \in Files, FileStep(f)
  PROVE  IInv' /\ [Port!Next]_(Port!vars)
<1>1. CASE Count(f)
  BY <1>1, Counted DEF Port!Next
<1>2. CASE TestFirst(f)
  BY <1>2, FirstTested DEF Port!Next
<1>3. CASE AllocateIn(f) \/ AllocateOut(f)
  BY <1>3, BuffersAllocated DEF Port!Next
<1>4. CASE ClearRbr(f) \/ SetSpeed(f) \/ EnableInterrupts(f) \/ OpenReturns(f)
  BY <1>4, UartInitialised
<1>5. CASE Release(f)
  BY <1>5, Released DEF Port!Next
<1>6. CASE TestLast(f)
  BY <1>6, LastTested DEF Port!Next
<1>7. CASE MaskInterrupts(f)
  BY <1>7, Masked
<1>8. CASE FreeIn(f) \/ FreeOut(f)
  BY <1>8, InFreed, OutFreed DEF Port!Next
<1> QED BY <1>1, <1>2, <1>3, <1>4, <1>5, <1>6, <1>7, <1>8 DEF FileStep, OpenStep

-----------------------------------------------------------------------------
(* Every step of the driver.                                               *)

(* A signal finds a writer or a reader asleep, each in its own wait.       *)
LEMMA SignalSteps ==
  ASSUME IInv, NEW p \in Processes, Signal(p)
  PROVE  IInv' /\ UNCHANGED Port!vars
<1>1. CASE p \in Writers
  <2>1. pc[p] \in WriteLabels
    BY <1>1 DEF IInv, Writing, WriterAt
  <2>2. pc[p] # "read_asleep"
    BY <2>1 DEF WriteLabels
  <2>3. Branch(p, "write_asleep", "enqueue")
    BY <2>2 DEF Signal, Branch
  <2> QED BY <1>1, <2>3, WriterTests
<1>2. CASE p \in Readers
  <2>1. pc[p] \in ReadLabels
    BY <1>2 DEF IInv, Reading, ReaderAt
  <2>2. pc[p] # "write_asleep"
    BY <2>1 DEF ReadLabels
  <2>3. Branch(p, "read_asleep", "read_loop")
    BY <2>2 DEF Signal, Branch
  <2> QED BY <1>2, <2>3, ReaderTests
<1> QED BY <1>1, <1>2 DEF Processes

(* Every step of the driver keeps the invariant and is a step of the       *)
(* serial port, or none.                                                   *)
LEMMA NextStep == IInv /\ [Next]_vars => IInv' /\ [Port!Next]_(Port!vars)
<1> SUFFICES ASSUME IInv, [Next]_vars
             PROVE  IInv' /\ [Port!Next]_(Port!vars)
  OBVIOUS
<1>1. ASSUME NEW f \in Files, FileStep(f)
      PROVE  IInv' /\ [Port!Next]_(Port!vars)
  BY <1>1, FileSteps
<1>2. ASSUME NEW p \in Processes, Signal(p)
      PROVE  IInv' /\ [Port!Next]_(Port!vars)
  BY <1>2, SignalSteps
<1>3. ASSUME NEW p \in Writers,
             (\E n \in 0 .. MaxSize : Call(p, n, "copy_from_user")) \/ WriteStep(p)
      PROVE  IInv' /\ [Port!Next]_(Port!vars)
  BY <1>3, WriterCalls, WriterSteps DEF Port!Next
<1>4. ASSUME NEW p \in Readers,
             (\E n \in 0 .. MaxSize : Call(p, n, "read_test")) \/ ReadStep(p)
      PROVE  IInv' /\ [Port!Next]_(Port!vars)
  BY <1>4, ReaderCalls, ReaderSteps DEF Port!Next
<1>5. ASSUME Isr
      PROVE  IInv' /\ [Port!Next]_(Port!vars)
  BY <1>5, IsrSteps DEF Port!Next
<1>6. ASSUME NEW b \in Heard, Arrive(b)
      PROVE  IInv' /\ [Port!Next]_(Port!vars)
  BY <1>6, ArriveStep
<1>7. ASSUME Shift
      PROVE  IInv' /\ [Port!Next]_(Port!vars)
  BY <1>7, ShiftStep DEF Port!Next
<1>8. CASE UNCHANGED vars
  <2>1. UNCHANGED <<shared, pc, locals, transmitter, rbr, overrun, got, crashed>>
    BY <1>8 DEF vars, receiver
  <2>2. TypeOK
    BY DEF IInv
  <2> QED BY <2>1, <2>2, Breaks DEF TypeOK
<1> QED BY <1>1, <1>2, <1>3, <1>4, <1>5, <1>6, <1>7, <1>8 DEF Next

(* With one writer, one reader and no open while another one sleeps in an  *)
(* allocation, the inductive invariant holds of the driver, however the    *)
(* processes and the interrupt routine interleave.                         *)
THEOREM Invariance == OneWriter /\ OneReader /\ OpensAlone => (Spec => []IInv)
<1>1. OneWriter /\ OneReader /\ OpensAlone /\ Init => IInv
  BY InitInv
<1>2. IInv /\ [Next]_vars => IInv'
  BY NextStep
<1> QED BY <1>1, <1>2, PTL DEF Spec

(* Under the same hypotheses, the type of every variable; no blank and no  *)
(* erased slot is ever taken for a byte.                                   *)
THEOREM TypeCorrect == OneWriter /\ OneReader /\ OpensAlone => (Spec => []TypeOK)
<1>1. IInv => TypeOK
  BY DEF IInv
<1> QED BY <1>1, Invariance, PTL

(* Under the same hypotheses, the flag means that the THR is empty and     *)
(* stays so: when two opens meet asleep it does not.                       *)
THEOREM FlagIsTrue == OneWriter /\ OneReader /\ OpensAlone => (Spec => []FlagMeansIdle)
<1>1. IInv => FlagMeansIdle
  BY DEF IInv, ThrIdle, FlagMeansIdle
<1> QED BY <1>1, Invariance, PTL

(* Under the same hypotheses, the driver implements two byte streams, with *)
(* any number of files: bytes go out on the line and to the reader in      *)
(* order and once, but for those that are dropped by an open that finds    *)
(* itself alone or by a release that found nobody left.                    *)
THEOREM PortRefined == OneWriter /\ OneReader /\ OpensAlone => (Spec => SerialPortSpec)
<1>1. Init => Port!Init
  <2> SUFFICES ASSUME Init PROVE Port!Init
    OBVIOUS
  <2>1. /\ uart_initialized = 0 /\ line = NoByte /\ got = NoByte
        /\ thr = NoByte /\ cbuf_in = Freed /\ cbuf_out = Freed
    BY DEF Init
  <2>2. /\ ~\E f \in Files : file[f] \in Allocating
        /\ ~\E f \in Files : file[f] \in Closing
    BY DEF Init, Allocating, Closing
  <2>3. Stream(Writers, to_send, WriteMoving, cbuf_out) = <<>> /\ Incoming = <<>>
    <3>1. /\ \A p \in Writers : pc[p] \notin WriteMoving /\ to_send[p] = NoByte
          /\ \A p \in Readers : pc[p] \notin {"read_move"} /\ byte[p] = NoByte
      BY DEF Init, WriteMoving, Processes
    <3> QED BY <2>1, <3>1 DEF Stream, Incoming, Kept
  <2>4. Outgoing = InHand(thr) \o <<>>
    BY <2>3 DEF Outgoing, WriteMoving
  <2>5. Outgoing = <<>>
    BY <2>1, <2>4, EmptySeq, ConcatEmptySeq DEF InHand
  <2> QED BY <2>1, <2>2, <2>3, <2>5 DEF Port!Init, Outgoing, Incoming
<1>2. IInv /\ [Next]_vars => [Port!Next]_(Port!vars)
  BY NextStep
<1> QED BY <1>1, <1>2, Invariance, PTL DEF Spec, SerialPortSpec, Port!Spec

-----------------------------------------------------------------------------
(* Where the transmitter may die.                                          *)

(* Not in a step that leaves the THR, the flag and the writers that have   *)
(* cleared it where they are.                                              *)
LEMMA StaysAlive ==
  ASSUME ~Dead,
         ier' => ier,
         UNCHANGED <<thr, thr_pending, empty_thr_from_isr>>,
         \A p \in Writers : pc[p] \in FlagDown => pc'[p] \in FlagDown
  PROVE  ~Dead'
  BY DEF Dead, FlagDown

(* An open that lets the UART interrupt has it report an empty THR, and    *)
(* the rest of open and release leaves the transmitter alone.              *)
LEMMA FileStepLives ==
  ASSUME ~Dead, NEW f \in Files, FileStep(f)
  PROVE  ~Dead'
<1>1. CASE EnableInterrupts(f)
  <2>1. UNCHANGED <<empty_thr_from_isr, pc, thr>>
    BY <1>1 DEF EnableInterrupts
  <2>2. CASE ier
    <3>1. UNCHANGED thr_pending
      BY <1>1, <2>2 DEF EnableInterrupts
    <3> QED BY <2>1, <2>2, <3>1, StaysAlive
  <2>3. CASE ~ier
    <3>1. thr_pending' = (thr = NoByte)
      BY <1>1, <2>3 DEF EnableInterrupts
    <3> QED BY <2>1, <3>1 DEF Dead
  <2> QED BY <2>2, <2>3
<1>2. CASE \/ Count(f) \/ TestFirst(f) \/ AllocateIn(f) \/ AllocateOut(f) \/ ClearRbr(f)
           \/ SetSpeed(f) \/ OpenReturns(f) \/ Release(f) \/ TestLast(f)
           \/ FreeIn(f) \/ FreeOut(f)
  <2>1. UNCHANGED <<empty_thr_from_isr, pc, ier, thr, thr_pending>>
    BY <1>2 DEF Count, TestFirst, AllocateIn, AllocateOut, ClearRbr, SetSpeed, OpenReturns,
                Release, TestLast, FreeIn, FreeOut, OnlyCounts, transmitter
  <2> QED BY <2>1, StaysAlive
<1>3. CASE MaskInterrupts(f)
  <2>1. /\ UNCHANGED <<empty_thr_from_isr, pc, thr>>
        /\ ier' = (ier /\ DivisorLatch)
        /\ thr_pending' = (thr_pending /\ DivisorLatch)
    BY <1>3 DEF MaskInterrupts
  <2> QED BY <2>1 DEF Dead
<1> QED BY <1>1, <1>2, <1>3 DEF FileStep, OpenStep

(* A writer dies where it clears the flag for nothing.                     *)
LEMMA WriteStepLives ==
  ASSUME IInv, ~Dead, NEW p \in Writers,
         \/ WriteStep(p)
         \/ \E n \in 0 .. MaxSize : Call(p, n, "copy_from_user")
         \/ Branch(p, "write_asleep", "enqueue")
  PROVE  ~Dead' \/ (pc[p] = "force_load" /\ pc'[p] = "idle")
<1>0. pc \in [Processes -> Labels] /\ p \in Processes
  BY DEF IInv, TypeOK, Processes
<1>g. \A l : Goto(p, l) => pc'[p] = l /\ \A q \in Writers \ {p} : pc'[q] = pc[q]
  BY <1>0 DEF Goto, Processes
<1>b. ASSUME NEW l, NEW m, Branch(p, l, m), l \notin FlagDown
      PROVE  ~Dead'
  <2>1. pc[p] = l /\ Goto(p, m) /\ UNCHANGED <<shared, transmitter>>
    BY <1>b DEF Branch
  <2> QED BY <1>b, <1>g, <2>1, StaysAlive DEF shared, transmitter
<1>r. ASSUME NEW l, Return(p, l), l \notin FlagDown
      PROVE  ~Dead'
  <2>1. pc[p] = l /\ Goto(p, "idle") /\ UNCHANGED <<shared, transmitter>>
    BY <1>r DEF Return
  <2> QED BY <1>g, <1>r, <2>1, StaysAlive DEF shared, transmitter
<1>c. ASSUME NEW l, NEW m, ClearFlag(p, l, m), m \in FlagDown
      PROVE  ~Dead'
  <2>1. pc'[p] \in FlagDown
    BY <1>c, <1>g DEF ClearFlag
  <2> QED BY <2>1 DEF Dead, FlagDown
<1>l. ASSUME NEW l, NEW m, LoadByte(p, l, m) \/ MoveTail(p, l, m),
             l \in FlagDown => m \in FlagDown
      PROVE  ~Dead'
  <2>1. /\ pc[p] = l /\ Goto(p, m)
        /\ UNCHANGED <<ier, thr, thr_pending, empty_thr_from_isr>>
    BY <1>l DEF LoadByte, MoveTail, transmitter
  <2> QED BY <1>g, <1>l, <2>1, StaysAlive
<1>o. ASSUME NEW l \in Sending, NEW m, OutThr(p, l, m)
      PROVE  ~Dead'
  <2>1. to_send[p] # NoByte
    BY <1>o DEF OutThr, IInv, Writing, WriterAt
  <2> QED BY <1>o, <2>1 DEF OutThr, Dead
<1>m. /\ "force_clear" \notin FlagDown
      /\ "force_load" \in FlagDown /\ "force_move" \in FlagDown /\ "force_out" \in FlagDown
      /\ "push_out" \in FlagDown
      /\ \A l \in {"idle", "copy_from_user", "test_full", "test_flag", "write_wait",
                   "write_asleep", "enqueue", "store", "move_head", "push", "push_load",
                   "push_move", "push_clear", "pushed"} : l \notin FlagDown
      /\ "force_out" \in Sending /\ "push_out" \in Sending
  BY DEF FlagDown, Sending
<1>1. CASE \/ EndOfBytes(p) \/ TestFull(p) \/ TestFlag(p) \/ WriteWait(p) \/ Enqueue(p)
           \/ TestPush(p) \/ Branch(p, "write_asleep", "enqueue")
  BY <1>1, <1>b, <1>m
  DEF EndOfBytes, TestFull, TestFlag, WriteWait, Enqueue, TestPush
<1>2. CASE \/ CopyFromUser(p) \/ StoreByte(p) \/ MoveHead(p)
           \/ \E n \in 0 .. MaxSize : Call(p, n, "copy_from_user")
  <2>1. /\ pc[p] \notin FlagDown
        /\ \A q \in Writers \ {p} : pc'[q] = pc[q]
        /\ UNCHANGED <<ier, thr, thr_pending, empty_thr_from_isr>>
    BY <1>2, <1>g, <1>m DEF CopyFromUser, StoreByte, MoveHead, Call, shared, transmitter
  <2> QED BY <2>1, StaysAlive
<1>3. CASE ForceFirst(p)
  <2>1. CASE ClearFlag(p, "force_clear", "force_load")
    BY <1>c, <1>m, <2>1
  <2>2. CASE LoadByte(p, "force_load", "force_move") \/ MoveTail(p, "force_move", "force_out")
    BY <1>l, <1>m, <2>2
  <2>3. CASE NothingToSend(p, "force_load")
    BY <1>g, <2>3 DEF NothingToSend, Return
  <2>4. CASE OutThr(p, "force_out", "write_wait")
    BY <1>m, <1>o, <2>4
  <2> QED BY <1>3, <2>1, <2>2, <2>3, <2>4 DEF ForceFirst
<1>4. CASE PushFirst(p)
  <2>1. CASE TestPush(p)
    BY <1>1, <2>1
  <2>2. CASE LoadByte(p, "push_load", "push_move") \/ MoveTail(p, "push_move", "push_clear")
    BY <1>l, <1>m, <2>2
  <2>3. CASE NothingToSend(p, "push_load")
    BY <1>m, <1>r, <2>3 DEF NothingToSend
  <2>4. CASE ClearFlag(p, "push_clear", "push_out")
    BY <1>c, <1>m, <2>4
  <2>5. CASE OutThr(p, "push_out", "pushed")
    BY <1>m, <1>o, <2>5
  <2> QED BY <1>4, <2>1, <2>2, <2>3, <2>4, <2>5 DEF PushFirst
<1>5. CASE WriteReturns(p)
  BY <1>5, <1>m, <1>r DEF WriteReturns
<1>6. CASE Astray(p)
  BY <1>6, StaysAlive DEF Astray, shared, transmitter
<1> QED BY <1>1, <1>2, <1>3, <1>4, <1>5, <1>6 DEF WriteStep

(* A reader has nothing to do with the transmitter.                        *)
LEMMA ReadStepLives ==
  ASSUME IInv, ~Dead, NEW p \in Readers,
         \/ ReadStep(p)
         \/ \E n \in 0 .. MaxSize : Call(p, n, "read_test")
         \/ Branch(p, "read_asleep", "read_loop")
  PROVE  ~Dead'
<1>0. pc \in [Processes -> Labels] /\ p \in Processes /\ p \notin Writers
  BY Rs232Assumption DEF IInv, TypeOK, Processes
<1>g. \A l : Goto(p, l) => \A q \in Writers : pc'[q] = pc[q]
  BY <1>0 DEF Goto, Processes
<1>1. ASSUME ~Astray(p)
      PROVE  (\E l : Goto(p, l)) /\ UNCHANGED <<ier, thr, thr_pending, empty_thr_from_isr>>
  <2>1. ASSUME NEW l, NEW m, Branch(p, l, m)
        PROVE  Goto(p, m) /\ UNCHANGED <<shared, transmitter>>
    BY <2>1 DEF Branch
  <2>2. ASSUME NEW l, Return(p, l)
        PROVE  Goto(p, "idle") /\ UNCHANGED <<shared, transmitter>>
    BY <2>2 DEF Return
  <2>3. CASE TestEmpty(p) \/ ReadWait(p) \/ ReadLoop(p) \/ Branch(p, "read_asleep", "read_loop")
    BY <2>1, <2>3 DEF TestEmpty, ReadWait, ReadLoop, shared, transmitter
  <2>4. CASE ReadReturns(p)
    BY <2>2, <2>4 DEF ReadReturns, shared, transmitter
  <2>5. CASE \/ ReadByte(p) \/ ReadMove(p) \/ CopyToUser(p) \/ CopyToUserFault(p)
             \/ \E n \in 0 .. MaxSize : Call(p, n, "read_test")
    BY <2>5 DEF ReadByte, ReadMove, CopyToUser, CopyToUserFault, Call, shared, transmitter
  <2> QED BY <1>1, <2>3, <2>4, <2>5 DEF ReadStep
<1>2. CASE Astray(p)
  BY <1>2, StaysAlive DEF Astray, shared, transmitter
<1> QED BY <1>1, <1>2, <1>g, StaysAlive

(* Nor does the interrupt routine stop it: it sends a byte, or puts the    *)
(* flag up.                                                                *)
LEMMA IsrLives ==
  ASSUME IInv, ~Dead, Isr
  PROVE  ~Dead'
<1>1. CASE IsrError \/ IsrDataAvail \/ IsrOverwrite \/ IsrAstray
  <2>1. /\ pc' \in {pc, Woken}
        /\ UNCHANGED <<ier, thr, thr_pending, empty_thr_from_isr>>
    BY <1>1 DEF IsrError, IsrDataAvail, IsrOverwrite, IsrAstray, shared, transmitter
  <2>2. \A p \in Writers : pc[p] \in FlagDown => pc'[p] \in FlagDown
    BY <2>1 DEF Woken, FlagDown, Processes
  <2> QED BY <2>1, <2>2, StaysAlive
<1>2. CASE IsrEmptyThr
  <2>1. CASE cbuffer_is_empty(cbuf_out)
    <3>1. empty_thr_from_isr' = TRUE
      BY <1>2, <2>1 DEF IsrEmptyThr
    <3> QED BY <3>1 DEF Dead
  <2>2. CASE ~cbuffer_is_empty(cbuf_out)
    <3>1. thr' = Oldest(cbuf_out) /\ cbuf_out # Freed /\ thr_pending
      BY <1>2, <2>2 DEF IsrEmptyThr
    <3>2. cbuf_out \in Buffers(SizeOut, Byte) /\ cbuf_out # Freed /\ SizeOut \in Nat \ {0}
      BY <3>1, Rs232Assumption DEF IInv, TypeOK
    <3>3. Contents(cbuf_out) \in Seq(Byte)
      BY <3>1, <3>2, NobodySends DEF IInv, BytesHeld, Held
    <3>4. Contents(cbuf_out) # <<>> /\ Oldest(cbuf_out) = Head(Contents(cbuf_out))
      BY <2>2, <3>2, DequeueTakes
    <3>5. thr' \in Byte
      BY <3>1, <3>3, <3>4, HeadAndTail
    <3> QED BY <3>5, Rs232Assumption DEF Dead
  <2> QED BY <2>1, <2>2
<1> QED BY <1>1, <1>2 DEF Isr

(* Under the same hypotheses, the transmitter dies in a forced push that   *)
(* finds the buffer empty, and nowhere else, as long as the UART may       *)
(* interrupt.                                                              *)
THEOREM DiesThere == OneWriter /\ OneReader /\ OpensAlone => (Spec => DiesOnlyInForce)
<1>1. IInv /\ [Next]_vars
        => [Dead'
              => Dead \/ \E p \in Writers : pc[p] = "force_load" /\ pc'[p] = "idle"]_vars
  <2> SUFFICES ASSUME IInv, Next, ~Dead,
                      ~\E p \in Writers : pc[p] = "force_load" /\ pc'[p] = "idle"
               PROVE  ~Dead'
    OBVIOUS
  <2>1. ASSUME NEW f \in Files, FileStep(f) PROVE ~Dead'
    BY <2>1, FileStepLives
  <2>2. ASSUME NEW p \in Processes, Signal(p) PROVE ~Dead'
    <3>1. CASE p \in Writers
      <4>1. pc[p] \in WriteLabels
        BY <3>1 DEF IInv, Writing, WriterAt
      <4>2. Branch(p, "write_asleep", "enqueue")
        BY <2>2, <4>1 DEF WriteLabels, Signal, Branch
      <4> QED BY <3>1, <4>2, WriteStepLives
    <3>2. CASE p \in Readers
      <4>1. pc[p] \in ReadLabels
        BY <3>2 DEF IInv, Reading, ReaderAt
      <4>2. Branch(p, "read_asleep", "read_loop")
        BY <2>2, <4>1 DEF ReadLabels, Signal, Branch
      <4> QED BY <3>2, <4>2, ReadStepLives
    <3> QED BY <3>1, <3>2 DEF Processes
  <2>3. ASSUME NEW p \in Writers,
               (\E n \in 0 .. MaxSize : Call(p, n, "copy_from_user")) \/ WriteStep(p)
        PROVE  ~Dead'
    BY <2>3, WriteStepLives
  <2>4. ASSUME NEW p \in Readers,
               (\E n \in 0 .. MaxSize : Call(p, n, "read_test")) \/ ReadStep(p)
        PROVE  ~Dead'
    BY <2>4, ReadStepLives
  <2>5. ASSUME Isr PROVE ~Dead'
    BY <2>5, IsrLives
  <2>6. ASSUME NEW b \in Heard, Arrive(b) PROVE ~Dead'
    <3>1. UNCHANGED <<shared, pc, transmitter>>
      BY <2>6 DEF Arrive
    <3> QED BY <3>1, StaysAlive DEF shared, transmitter
  <2>7. ASSUME Shift PROVE ~Dead'
    <3>1. thr_pending' = ier /\ ier' = ier
      BY <2>7 DEF Shift
    <3> QED BY <3>1 DEF Dead
  <2> QED BY <2>1, <2>2, <2>3, <2>4, <2>5, <2>6, <2>7 DEF Next
<1> QED BY <1>1, Invariance, PTL DEF Spec, DiesOnlyInForce

-----------------------------------------------------------------------------
(* Who may take the device from the others.                                *)

(* The device is said to be open, and no open or release is at work on it. *)
SaidOpen ==
  /\ uart_initialized # 0
  /\ \A f \in Files : file[f] = "counted" => uart_initialized # 1
  /\ \A f \in Files : file[f] \notin Initialising \cup Closing

(* A step that says it of the device only if it was so, and leaves the     *)
(* interrupts and the buffers, leaves the status true.                     *)
LEMMA StatusKept ==
  ASSUME StatusIsTrue,
         SaidOpen' => SaidOpen,
         ier => ier',
         cbuf_in # Freed => cbuf_in' # Freed,
         cbuf_out # Freed => cbuf_out' # Freed
  PROVE  StatusIsTrue'
  BY DEF StatusIsTrue, SaidOpen

(* A step of a file that leaves it outside of both, and the count where it *)
(* was or on the way up, says it only if it was so.                        *)
LEMMA SaidOpenBefore ==
  ASSUME TypeOK, NEW f \in Files, NEW from, NEW s, FileGoes(f, from, s),
         from \notin Initialising \cup Closing,
         uart_initialized' # 0 => uart_initialized # 0,
         \A g \in Files : file[g] = "counted" /\ uart_initialized = 1 /\ uart_initialized' # 0
                            => file'[g] = "counted" /\ uart_initialized' = 1
  PROVE  SaidOpen' => SaidOpen
<1>1. \A g \in Files \ {f} : file'[g] = file[g]
  BY UsersMove
<1>2. file[f] = from
  BY UsersMove
<1> HIDE DEF Initialising, Closing
<1> QED BY <1>1, <1>2 DEF SaidOpen

(* Of the steps of open and release, only two can belie the status: the    *)
(* freeing of the last buffer while a file is in use, and the end of an    *)
(* open that has lost a buffer.                                            *)
LEMMA FileStepStatus ==
  ASSUME IInv, StatusIsTrue, ~StatusIsTrue', NEW f \in Files, FileStep(f)
  PROVE  \/ \E h, g \in Files : file[h] = "free_out" /\ file[g] \in Opening \cup {"open"}
         \/ /\ \E g \in Files : file[g] = "enable"
            /\ cbuf_in = Freed \/ cbuf_out = Freed
<1>0. TypeOK /\ uart_initialized \in Nat
  BY DEF IInv, TypeOK
<1>1. SaidOpen' /\ ~(ier' /\ cbuf_in' # Freed /\ cbuf_out' # Freed)
  BY DEF StatusIsTrue, SaidOpen
<1>2. \A s : file'[f] = s => s \notin Initialising \cup Closing
  BY <1>1 DEF SaidOpen
<1>3. ASSUME NEW from, NEW s, FileGoes(f, from, s)
      PROVE  /\ file[f] = from /\ file'[f] = s /\ s \notin Initialising \cup Closing
             /\ \A g \in Files \ {f} : file'[g] = file[g]
  BY <1>0, <1>2, <1>3, UsersMove
<1>4. CASE Count(f)
  <2>1. /\ FileGoes(f, "closed", "counted") /\ LockFreeFor(f)
        /\ uart_initialized' = uart_initialized + 1
        /\ UNCHANGED <<ier, cbuf_in, cbuf_out>>
    BY <1>4 DEF Count, OnlyCounts, transmitter
  <2>2. file'[f] = "counted" /\ uart_initialized' # 1
    BY <1>1, <1>3, <2>1 DEF SaidOpen
  <2>3. \A g \in Files : file[g] # "counted"
    BY <1>3, <2>1, LockMeansAlone DEF Opening
  <2>4. SaidOpen' => SaidOpen
    <3>1. "closed" \notin Initialising \cup Closing
      BY DEF Initialising, Allocating, Closing
    <3>2. uart_initialized # 0
      BY <1>0, <2>1, <2>2
    <3> QED BY <1>0, <2>1, <2>3, <3>1, <3>2, SaidOpenBefore
  <2> QED BY <2>1, <2>4, StatusKept
<1>5. CASE TestFirst(f)
  <2> DEFINE s == IF uart_initialized = 1 THEN "alloc_in" ELSE "open"
  <2>1. FileGoes(f, "counted", s) /\ UNCHANGED <<uart_initialized, ier, cbuf_in, cbuf_out>>
    BY <1>5 DEF TestFirst, OnlyCounts, transmitter
  <2>2. uart_initialized # 1
    BY <1>3, <2>1 DEF Initialising, Allocating
  <2>3. "counted" \notin Initialising \cup Closing
    BY DEF Initialising, Allocating, Closing
  <2>4. SaidOpen' => SaidOpen
    BY <1>0, <2>1, <2>2, <2>3, SaidOpenBefore
  <2> QED BY <2>1, <2>4, StatusKept
<1>6. CASE \/ AllocateIn(f) \/ AllocateOut(f) \/ ClearRbr(f) \/ SetSpeed(f) \/ TestLast(f)
           \/ MaskInterrupts(f) \/ FreeIn(f)
  <2>1. CASE TestLast(f)
    <3> DEFINE s == IF uart_initialized = 0 THEN "masking" ELSE "closed"
    <3>1. FileGoes(f, "testing", s) /\ UNCHANGED <<uart_initialized, ier, cbuf_in, cbuf_out>>
      BY <2>1 DEF TestLast, OnlyCounts, transmitter
    <3>2. "testing" \notin Initialising \cup Closing /\ "testing" # "counted"
      BY DEF Initialising, Allocating, Closing
    <3>3. file[f] = "testing" /\ \A g \in Files \ {f} : file'[g] = file[g]
      BY <1>3, <3>1
    <3>4. SaidOpen' => SaidOpen
      BY <1>0, <3>1, <3>2, <3>3, SaidOpenBefore
    <3> QED BY <3>1, <3>4, StatusKept
  <2>2. CASE AllocateIn(f) \/ AllocateOut(f) \/ ClearRbr(f) \/ SetSpeed(f)
    <3>1. \E from : \E s \in {"alloc_out", "clear_rbr", "set_speed", "set_line", "enable"} :
            FileGoes(f, from, s)
      BY <2>2 DEF AllocateIn, AllocateOut, ClearRbr, SetSpeed
    <3> QED BY <1>3, <3>1 DEF Initialising, Allocating
  <2>3. CASE MaskInterrupts(f) \/ FreeIn(f)
    <3>1. \E from : \E s \in {"free_in", "free_out"} : FileGoes(f, from, s)
      BY <2>3 DEF MaskInterrupts, FreeIn
    <3> QED BY <1>3, <3>1 DEF Closing
  <2> QED BY <1>6, <2>1, <2>2, <2>3
<1>7. CASE EnableInterrupts(f)
  <2>1. FileGoes(f, "enable", "opening") /\ ier' = TRUE /\ UNCHANGED <<cbuf_in, cbuf_out>>
    BY <1>7 DEF EnableInterrupts
  <2>2. file[f] = "enable"
    BY <1>3, <2>1
  <2> QED BY <1>1, <2>1, <2>2
<1>8. CASE OpenReturns(f)
  <2>1. FileGoes(f, "opening", "open") /\ UNCHANGED <<uart_initialized, ier, cbuf_in, cbuf_out>>
    BY <1>8 DEF OpenReturns, transmitter
  <2>2. "opening" \notin Initialising \cup Closing
    BY DEF Initialising, Allocating, Closing
  <2>3. file[f] = "opening" /\ \A g \in Files \ {f} : file'[g] = file[g]
    BY <1>3, <2>1
  <2>4. SaidOpen' => SaidOpen
    BY <1>0, <2>1, <2>2, <2>3, SaidOpenBefore
  <2> QED BY <2>1, <2>4, StatusKept
<1>9. CASE Release(f)
  <2>1. /\ FileGoes(f, "open", "testing") /\ uart_initialized' = uart_initialized - 1
        /\ UNCHANGED <<ier, cbuf_in, cbuf_out>>
    BY <1>9 DEF Release, OnlyCounts, transmitter
  <2>2. uart_initialized # 0
    BY <1>3, <2>1, NobodyUses DEF InUse
  <2>3. "open" \notin Initialising \cup Closing
    BY DEF Initialising, Allocating, Closing
  <2>4. SaidOpen' => SaidOpen
    BY <1>0, <2>1, <2>2, <2>3, SaidOpenBefore
  <2> QED BY <2>1, <2>4, StatusKept
<1>10. CASE FreeOut(f)
  <2>1. FileGoes(f, "free_out", "closed") /\ uart_initialized' = uart_initialized
    BY <1>10 DEF FreeOut
  <2>2. file[f] = "free_out" /\ uart_initialized # 0
    BY <1>1, <1>3, <2>1 DEF SaidOpen
  <2>3. Users # {}
    BY <2>2, FS_EmptySet DEF IInv, FilesCounted
  <2> QED BY <2>2, <2>3 DEF Users, InUse
<1> QED BY <1>4, <1>5, <1>6, <1>7, <1>8, <1>9, <1>10 DEF FileStep, OpenStep

(* What a writer does to the buffer leaves a buffer.                       *)
LEMMA WriterKeepsBuffer ==
  ASSUME IInv, NEW p \in Writers,
         \/ StoreByte(p) \/ MoveHead(p)
         \/ LoadByte(p, "force_load", "force_move") \/ LoadByte(p, "push_load", "push_move")
         \/ MoveTail(p, "force_move", "force_out") \/ MoveTail(p, "push_move", "push_clear")
  PROVE  cbuf_out' # Freed
<1>1. /\ p \in Processes /\ SizeOut \in Nat \ {0} /\ TypeOK
      /\ WriterAt(p, pc[p])
      /\ cbuf_out # Freed => cbuf_out \in Buffers(SizeOut, Byte)
  BY Rs232Assumption DEF IInv, TypeOK, Writing, Processes
<1>2. CASE StoreByte(p)
  <2>1. /\ cbuf_out # Freed /\ cbuf_out' = Stored(cbuf_out, byte[p])
        /\ byte[p] \in Byte
    BY <1>1, <1>2, WriterHasBuffer DEF StoreByte, InRoutineOut, WriterAt, Carrying, TypeOK
  <2> QED BY <1>1, <2>1, StoreKeepsContents, BuffersAreNotFreed
<1>3. CASE MoveHead(p)
  <2>1. /\ cbuf_out # Freed /\ cbuf_out' = HeadMoved(cbuf_out)
        /\ ~cbuffer_is_full(cbuf_out)
    BY <1>1, <1>3, WriterHasBuffer DEF MoveHead, InRoutineOut, WriterAt
  <2> QED BY <1>1, <2>1, HeadMovedAppends, BuffersAreNotFreed
<1>4. CASE LoadByte(p, "force_load", "force_move") \/ LoadByte(p, "push_load", "push_move")
  <2>1. /\ cbuf_out # Freed /\ cbuf_out' = OldestErased(cbuf_out)
        /\ ~cbuffer_is_empty(cbuf_out)
    BY <1>4 DEF LoadByte
  <2> QED BY <1>1, <2>1, ErasedKeepsTail, BuffersAreNotFreed
<1>5. CASE MoveTail(p, "force_move", "force_out") \/ MoveTail(p, "push_move", "push_clear")
  <2>1. /\ cbuf_out # Freed /\ cbuf_out' = TailMoved(cbuf_out)
        /\ ~cbuffer_is_empty(cbuf_out)
    BY <1>1, <1>5, WriterHasBuffer DEF MoveTail, InRoutineOut, WriterAt, WriteMoving
  <2> QED BY <1>1, <2>1, TailMovedTakes, BuffersAreNotFreed
<1> QED BY <1>2, <1>3, <1>4, <1>5

(* So does a reader.                                                       *)
LEMMA ReaderKeepsBuffer ==
  ASSUME IInv, NEW p \in Readers, ReadByte(p) \/ ReadMove(p)
  PROVE  cbuf_in' # Freed
<1>1. /\ SizeIn \in Nat \ {0} /\ ReaderAt(p, pc[p])
      /\ cbuf_in # Freed => cbuf_in \in Buffers(SizeIn, Byte)
  BY Rs232Assumption DEF IInv, TypeOK, Reading
<1>2. CASE ReadByte(p)
  <2>1. /\ cbuf_in # Freed /\ cbuf_in' = OldestErased(cbuf_in)
        /\ ~cbuffer_is_empty(cbuf_in)
    BY <1>2 DEF ReadByte
  <2> QED BY <1>1, <2>1, ErasedKeepsTail, BuffersAreNotFreed
<1>3. CASE ReadMove(p)
  <2>1. /\ cbuf_in # Freed /\ cbuf_in' = TailMoved(cbuf_in)
        /\ ~cbuffer_is_empty(cbuf_in)
    BY <1>1, <1>3, ReaderHasBuffer DEF ReadMove, InRoutineIn, ReaderAt, ReadMoving
  <2> QED BY <1>1, <2>1, TailMovedTakes, BuffersAreNotFreed
<1> QED BY <1>2, <1>3

(* And the interrupt routine.                                              *)
LEMMA IsrKeepsBuffers ==
  ASSUME IInv, Isr
  PROVE  /\ UNCHANGED <<file, uart_initialized, ier>>
         /\ cbuf_in # Freed => cbuf_in' # Freed
         /\ cbuf_out # Freed => cbuf_out' # Freed
<1>1. /\ SizeIn \in Nat \ {0} /\ SizeOut \in Nat \ {0} /\ TypeOK
      /\ cbuf_in # Freed => cbuf_in \in Buffers(SizeIn, Byte)
      /\ cbuf_out # Freed => cbuf_out \in Buffers(SizeOut, Byte)
  BY Rs232Assumption DEF IInv, TypeOK
<1>2. UNCHANGED <<file, uart_initialized, ier>>
  BY DEF Isr, IsrError, IsrDataAvail, IsrOverwrite, IsrEmptyThr, IsrAstray, shared, transmitter
<1>3. CASE IsrDataAvail
  <2>1. /\ cbuf_in # Freed /\ ~cbuffer_is_full(cbuf_in)
        /\ cbuf_in' = cbuffer_enqueue(cbuf_in, rbr)
        /\ rbr \in Byte /\ cbuf_out' = cbuf_out
    BY <1>1, <1>3 DEF IsrDataAvail, TypeOK
  <2> QED BY <1>1, <1>2, <2>1, EnqueueAppends, BuffersAreNotFreed
<1>4. CASE IsrEmptyThr
  <2>1. /\ cbuf_in' = cbuf_in
        /\ \/ cbuf_out' = cbuf_out
           \/ /\ cbuf_out # Freed /\ ~cbuffer_is_empty(cbuf_out)
              /\ cbuf_out' = cbuffer_dequeue(cbuf_out)
    BY <1>4 DEF IsrEmptyThr
  <2> QED BY <1>1, <1>2, <2>1, DequeueTakes, BuffersAreNotFreed
<1>5. CASE IsrError \/ IsrOverwrite \/ IsrAstray
  BY <1>2, <1>5 DEF IsrError, IsrOverwrite, IsrAstray, shared
<1> QED BY <1>3, <1>4, <1>5 DEF Isr

(* No step but those of open and release touches the status of the device, *)
(* nor takes a buffer away.                                                *)
Aside ==
  /\ UNCHANGED <<file, uart_initialized, ier>>
  /\ cbuf_in # Freed => cbuf_in' # Freed
  /\ cbuf_out # Freed => cbuf_out' # Freed

LEMMA OtherStepStatus ==
  ASSUME IInv, Next
  PROVE  (\E f \in Files : FileStep(f)) \/ Aside
<1>b. ASSUME NEW p, NEW l, NEW m, Branch(p, l, m) PROVE Aside
  BY <1>b DEF Branch, Aside, shared, transmitter
<1>r. ASSUME NEW p, NEW l, Return(p, l) PROVE Aside
  BY <1>r DEF Return, Aside, shared, transmitter
<1>s. ASSUME NEW p, Astray(p) PROVE Aside
  BY <1>s DEF Astray, Aside, shared, transmitter
<1>1. ASSUME NEW p, Signal(p) PROVE Aside
  BY <1>1, <1>b DEF Signal
<1>2. ASSUME NEW p, NEW l, \E n \in 0 .. MaxSize : Call(p, n, l) PROVE Aside
  BY <1>2 DEF Call, Aside, shared, transmitter
<1>3. ASSUME NEW p \in Writers, WriteStep(p) PROVE Aside
  <2>1. CASE \/ EndOfBytes(p) \/ TestFull(p) \/ TestFlag(p) \/ WriteWait(p) \/ Enqueue(p)
             \/ TestPush(p) \/ WriteReturns(p) \/ NothingToSend(p, "force_load")
             \/ NothingToSend(p, "push_load") \/ Astray(p)
    BY <2>1, <1>b, <1>r, <1>s DEF EndOfBytes, TestFull, TestFlag, WriteWait, Enqueue, TestPush,
                            WriteReturns, NothingToSend
  <2>2. CASE CopyFromUser(p)
    BY <2>2 DEF CopyFromUser, Aside, shared, transmitter
  <2>3. CASE \/ StoreByte(p) \/ MoveHead(p)
             \/ LoadByte(p, "force_load", "force_move") \/ LoadByte(p, "push_load", "push_move")
             \/ MoveTail(p, "force_move", "force_out") \/ MoveTail(p, "push_move", "push_clear")
    <3>1. cbuf_out' # Freed
      BY <2>3, WriterKeepsBuffer
    <3>2. UNCHANGED <<file, uart_initialized, cbuf_in, ier>>
      BY <2>3 DEF StoreByte, MoveHead, LoadByte, MoveTail, transmitter
    <3> QED BY <3>1, <3>2 DEF Aside
  <2>4. ASSUME NEW l, NEW m, ClearFlag(p, l, m) \/ OutThr(p, l, m)
        PROVE  Aside
    BY <2>4 DEF ClearFlag, OutThr, Aside, shared, transmitter
  <2>5. CASE ForceFirst(p)
    BY <2>1, <2>3, <2>4, <2>5 DEF ForceFirst
  <2>6. CASE PushFirst(p)
    BY <2>1, <2>3, <2>4, <2>6 DEF PushFirst
  <2> QED BY <1>3, <2>1, <2>2, <2>3, <2>5, <2>6 DEF WriteStep
<1>4. ASSUME NEW p \in Readers, ReadStep(p) PROVE Aside
  <2>1. CASE TestEmpty(p) \/ ReadWait(p) \/ ReadLoop(p) \/ ReadReturns(p) \/ Astray(p)
    BY <2>1, <1>b, <1>r, <1>s DEF TestEmpty, ReadWait, ReadLoop, ReadReturns
  <2>2. CASE CopyToUser(p) \/ CopyToUserFault(p)
    BY <2>2 DEF CopyToUser, CopyToUserFault, Aside, shared, transmitter
  <2>3. CASE ReadByte(p) \/ ReadMove(p)
    <3>1. cbuf_in' # Freed
      BY <2>3, ReaderKeepsBuffer
    <3>2. UNCHANGED <<file, uart_initialized, cbuf_out, ier>>
      BY <2>3 DEF ReadByte, ReadMove, transmitter
    <3> QED BY <3>1, <3>2 DEF Aside
  <2> QED BY <1>4, <2>1, <2>2, <2>3 DEF ReadStep
<1>5. ASSUME Isr PROVE Aside
  BY <1>5, IsrKeepsBuffers DEF Aside
<1>6. ASSUME Shift \/ \E b \in Heard : Arrive(b) PROVE Aside
  BY <1>6 DEF Shift, Arrive, Aside, shared, transmitter
<1> QED BY <1>1, <1>2, <1>3, <1>4, <1>5, <1>6 DEF Next

(* A file goes to the masking of the interrupts when none is in use.       *)
LEMMA LastFoundNobody ==
  ASSUME IInv, NEW f \in Files, FileStep(f),
         NEW g \in Files, file[g] = "testing", file'[g] = "masking"
  PROVE  \A h \in Files : file[h] \notin Opening \cup {"open"}
<1>0. TypeOK
  BY DEF IInv
<1>1. PICK from, s : FileGoes(f, from, s)
  BY DEF FileStep, OpenStep, Count, TestFirst, AllocateIn, AllocateOut, ClearRbr, SetSpeed,
         EnableInterrupts, OpenReturns, Release, TestLast, MaskInterrupts, FreeIn, FreeOut
<1>2. \A h \in Files \ {f} : file'[h] = file[h]
  BY <1>0, <1>1, UsersMove
<1>3. g = f
  BY <1>2
<1>4. TestLast(f)
  BY <1>3 DEF FileStep, OpenStep, Count, TestFirst, AllocateIn, AllocateOut, ClearRbr, SetSpeed,
         EnableInterrupts, OpenReturns, Release, MaskInterrupts, FreeIn, FreeOut, FileGoes
<1>5. uart_initialized = 0
  <2> SUFFICES ASSUME uart_initialized # 0 PROVE FALSE
    OBVIOUS
  <2>1. FileGoes(f, "testing", "closed")
    BY <1>4 DEF TestLast
  <2>2. file'[f] = "closed"
    BY <1>0, <2>1, UsersMove
  <2> QED BY <1>3, <2>2
<1>6. \A h \in Files : file[h] \notin InUse
  BY <1>5, NobodyUses
<1> QED BY <1>6 DEF InUse

(* Under the same hypotheses, once the device is said to be open, only a   *)
(* release that found it closed and is overtaken by an open can take it    *)
(* away.                                                                   *)
THEOREM LateOpenOnly == OneWriter /\ OneReader /\ OpensAlone => (Spec => OnlyLateOpenLosesDevice)
<1> DEFINE Found == \A f \in Files :
                      file[f] = "testing" /\ file'[f] = "masking"
                        => \A g \in Files : file[g] \notin Opening \cup {"open"}
           Lost == StatusIsTrue /\ ~StatusIsTrue'
                     => \/ \E f, g \in Files :
                             file[f] = "free_out" /\ file[g] \in Opening \cup {"open"}
                        \/ /\ \E g \in Files : file[g] = "enable"
                           /\ cbuf_in = Freed \/ cbuf_out = Freed
<1>1. IInv /\ [Next]_vars => [Found /\ Lost]_vars
  <2> SUFFICES ASSUME IInv, Next PROVE Found /\ Lost
    OBVIOUS
  <2>1. CASE \E f \in Files : FileStep(f)
    <3>1. Lost
      BY <2>1, FileStepStatus
    <3>2. Found
      BY <2>1, LastFoundNobody
    <3> QED BY <3>1, <3>2
  <2>2. CASE Aside
    <3>1. StatusIsTrue => StatusIsTrue'
      BY <2>2 DEF Aside, StatusIsTrue
    <3>2. file' = file
      BY <2>2 DEF Aside
    <3> QED BY <3>1, <3>2
  <2> QED BY <2>1, <2>2, OtherStepStatus
<1> QED BY <1>1, Invariance, PTL DEF Spec, OnlyLateOpenLosesDevice

=============================================================================
