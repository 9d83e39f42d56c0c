--------------------------- MODULE CBufferProofs ----------------------------
(***************************************************************************)
(* For a buffer of every size: cbuffer.c is a FIFO of size - 1 bytes.      *)
(*                                                                         *)
(* First what its operators do to the contents of a buffer: the remainders *)
(* of cbuffer.c have the values they should for indices in range, then     *)
(* what each half of an enqueue and of a dequeue does, then what the whole *)
(* of each does.  The invariant then adds to the types that the held slots *)
(* hold bytes, which is what makes a dequeue return one.                   *)
(***************************************************************************)
EXTENDS CBufferFifo, SequenceTheorems, TLAPS

Wrapped(n, x) == IF x < n THEN x ELSE x - n

(* The remainder of an index less than two sizes.                          *)
LEMMA Remainder ==
  ASSUME NEW n \in Nat \ {0}, NEW x \in 0 .. 2 * n - 1
  PROVE  x % n = Wrapped(n, x) /\ Wrapped(n, x) \in 0 .. n - 1
<1> DEFINE m == x % n
           q == x \div n
<1>1. m \in 0 .. n - 1 /\ q \in Int /\ x = n * q + m
  OBVIOUS
<1>2. Wrapped(n, x) \in 0 .. n - 1
  BY DEF Wrapped
<1> HIDE DEF m, q
<1>3. CASE x < n
  <2>1. q = 0
    BY <1>1, <1>3, SMTT(30)
  <2>2. m = x
    BY <1>1, <2>1
  <2> QED BY <1>2, <1>3, <2>2 DEF m, Wrapped
<1>4. CASE x >= n
  <2>1. q = 1
    BY <1>1, <1>4, SMTT(30)
  <2>2. m = x - n
    BY <1>1, <2>1
  <2> QED BY <1>2, <1>4, <2>2 DEF m, Wrapped
<1> QED BY <1>3, <1>4

(* How the number of held bytes follows the head h and the tail t.         *)
LEMMA SizeMoves ==
  ASSUME NEW n \in Nat \ {0}, NEW h \in 0 .. n - 1, NEW t \in 0 .. n - 1
  PROVE  /\ Wrapped(n, h + 1) # t =>
              /\ Wrapped(n, h - t + n) < n - 1
              /\ Wrapped(n, Wrapped(n, h + 1) - t + n) = Wrapped(n, h - t + n) + 1
         /\ h # t =>
              /\ Wrapped(n, h - t + n) > 0
              /\ Wrapped(n, h - Wrapped(n, t + 1) + n) = Wrapped(n, h - t + n) - 1
              /\ Wrapped(n, h + 1) # Wrapped(n, t + 1)
         /\ h = t <=> Wrapped(n, h - t + n) = 0
         /\ Wrapped(n, h + 1) = t <=> Wrapped(n, h - t + n) = n - 1
         /\ h = Wrapped(n, t + Wrapped(n, h - t + n))
  BY DEF Wrapped

(* The slots of the held bytes: none is the head, and they move with t.    *)
LEMMA SlotsMove ==
  ASSUME NEW n \in Nat \ {0}, NEW h \in 0 .. n - 1, NEW t \in 0 .. n - 1,
         NEW i \in 1 .. Wrapped(n, h - t + n)
  PROVE  /\ Wrapped(n, t + i - 1) # h
         /\ Wrapped(n, t + i - 1) \in 0 .. n - 1
         /\ i > 1 => Wrapped(n, t + i - 1) # t
         /\ i < Wrapped(n, h - t + n) =>
              /\ Wrapped(n, t + i) # t
              /\ Wrapped(n, t + i) \in 0 .. n - 1
              /\ Wrapped(n, Wrapped(n, t + 1) + i - 1) = Wrapped(n, t + i)
  BY DEF Wrapped

-----------------------------------------------------------------------------
(* The fields of a buffer of n slots, and back.                            *)
LEMMA BufferFields ==
  ASSUME NEW n \in Nat \ {0}, NEW B, NEW c \in Buffers(n, B)
  PROVE  /\ c.size = n
         /\ c.head \in 0 .. n - 1
         /\ c.tail \in 0 .. n - 1
         /\ c.cbuff \in [0 .. n - 1 -> B \cup {Blank, Erased}]
  BY DEF Buffers, Indices

(* The remainders that the operators take of a buffer's indices.           *)
LEMMA Indexing ==
  ASSUME NEW n \in Nat \ {0}, NEW B, NEW c \in Buffers(n, B)
  PROVE  /\ NextMod(c, c.head) = Wrapped(n, c.head + 1)
         /\ NextMod(c, c.tail) = Wrapped(n, c.tail + 1)
         /\ NextMod(c, c.head) \in 0 .. n - 1
         /\ NextMod(c, c.tail) \in 0 .. n - 1
         /\ cbuffer_current_size(c) = Wrapped(n, c.head - c.tail + n)
         /\ cbuffer_current_size(c) \in 0 .. n - 1
         /\ \A i \in 1 .. cbuffer_current_size(c) :
              /\ (c.tail + i - 1) % c.size = Wrapped(n, c.tail + i - 1)
              /\ Wrapped(n, c.tail + i - 1) \in 0 .. n - 1
<1>1. /\ c.size = n
      /\ c.head \in 0 .. n - 1
      /\ c.tail \in 0 .. n - 1
  BY BufferFields
<1>2. /\ (c.head + 1) % n = Wrapped(n, c.head + 1)
      /\ Wrapped(n, c.head + 1) \in 0 .. n - 1
  <2>1. c.head + 1 \in 0 .. 2 * n - 1
    BY <1>1
  <2> QED BY <1>1, <2>1, Remainder
<1>3. /\ (c.tail + 1) % n = Wrapped(n, c.tail + 1)
      /\ Wrapped(n, c.tail + 1) \in 0 .. n - 1
  <2>1. c.tail + 1 \in 0 .. 2 * n - 1
    BY <1>1
  <2> QED BY <1>1, <2>1, Remainder
<1>4. /\ (c.head - c.tail + n) % n = Wrapped(n, c.head - c.tail + n)
      /\ Wrapped(n, c.head - c.tail + n) \in 0 .. n - 1
  <2>1. c.head - c.tail + n \in 0 .. 2 * n - 1
    BY <1>1
  <2> QED BY <1>1, <2>1, Remainder
<1>5. ASSUME NEW i \in 1 .. cbuffer_current_size(c)
      PROVE  /\ (c.tail + i - 1) % c.size = Wrapped(n, c.tail + i - 1)
             /\ Wrapped(n, c.tail + i - 1) \in 0 .. n - 1
  <2>1. i \in 1 .. n - 1
    BY <1>1, <1>4 DEF cbuffer_current_size
  <2>2. c.tail + i - 1 \in 0 .. 2 * n - 1
    BY <1>1, <2>1
  <2> QED BY <1>1, <2>2, Remainder
<1> QED BY <1>1, <1>2, <1>3, <1>4, <1>5 DEF NextMod, cbuffer_current_size

(* The contents as a sequence: its length, and the slot of each element.   *)
LEMMA ContentsAre ==
  ASSUME NEW n \in Nat \ {0}, NEW B, NEW c \in Buffers(n, B)
  PROVE  /\ DOMAIN Contents(c) = 1 .. cbuffer_current_size(c)
         /\ \A i \in 1 .. cbuffer_current_size(c) :
              Contents(c)[i] = c.cbuff[Wrapped(n, c.tail + i - 1)]
         /\ Contents(c) \in Seq(B \cup {Blank, Erased})
         /\ Len(Contents(c)) = cbuffer_current_size(c)
<1>1. \A i \in 1 .. cbuffer_current_size(c) :
        Contents(c)[i] = c.cbuff[Wrapped(n, c.tail + i - 1)]
  <2> SUFFICES ASSUME NEW i \in 1 .. cbuffer_current_size(c)
               PROVE  Contents(c)[i] = c.cbuff[Wrapped(n, c.tail + i - 1)]
    OBVIOUS
  <2>1. Contents(c)[i] = c.cbuff[(c.tail + i - 1) % c.size]
    BY DEF Contents
  <2> QED BY <2>1, Indexing
<1>2. cbuffer_current_size(c) \in Nat
  BY Indexing
<1>3. \A i \in 1 .. cbuffer_current_size(c) : Contents(c)[i] \in B \cup {Blank, Erased}
  <2> SUFFICES ASSUME NEW i \in 1 .. cbuffer_current_size(c)
               PROVE  Contents(c)[i] \in B \cup {Blank, Erased}
    OBVIOUS
  <2>1. Wrapped(n, c.tail + i - 1) \in 0 .. n - 1
    BY Indexing
  <2>2. c.cbuff[Wrapped(n, c.tail + i - 1)] \in B \cup {Blank, Erased}
    BY <2>1, BufferFields
  <2> QED BY <1>1, <2>2
<1>4. Contents(c) \in [1 .. cbuffer_current_size(c) -> B \cup {Blank, Erased}]
  BY <1>3 DEF Contents
<1> QED BY <1>1, <1>2, <1>4 DEF Contents

(* The bytes held, by the slot of each.                                    *)
LEMMA ContentsAt ==
  ASSUME NEW n \in Nat \ {0}, NEW B, NEW c \in Buffers(n, B),
         NEW k, cbuffer_current_size(c) = k, NEW i \in 1 .. k
  PROVE  Contents(c)[i] = c.cbuff[Wrapped(n, c.tail + i - 1)]
<1>1. i \in 1 .. cbuffer_current_size(c)
  OBVIOUS
<1>2. \A j \in 1 .. cbuffer_current_size(c) :
        Contents(c)[j] = c.cbuff[Wrapped(n, c.tail + j - 1)]
  BY ContentsAre
<1> QED BY <1>1, <1>2

(* The tests of cbuffer.c on the number of held bytes.                     *)
LEMMA TestsCount ==
  ASSUME NEW n \in Nat \ {0}, NEW B, NEW c \in Buffers(n, B)
  PROVE  /\ cbuffer_is_empty(c) <=> cbuffer_current_size(c) = 0
         /\ cbuffer_is_full(c) <=> cbuffer_current_size(c) = n - 1
         /\ cbuffer_is_empty(c) <=> Contents(c) = <<>>
<1>1. /\ cbuffer_current_size(c) = Wrapped(n, c.head - c.tail + n)
      /\ NextMod(c, c.head) = Wrapped(n, c.head + 1)
      /\ cbuffer_current_size(c) \in Nat
  BY Indexing
<1>2. c.head \in 0 .. n - 1 /\ c.tail \in 0 .. n - 1
  BY BufferFields
<1>3. /\ c.head = c.tail <=> Wrapped(n, c.head - c.tail + n) = 0
      /\ Wrapped(n, c.head + 1) = c.tail <=> Wrapped(n, c.head - c.tail + n) = n - 1
  BY <1>2, SizeMoves
<1>4. Contents(c) = <<>> <=> cbuffer_current_size(c) = 0
  <2>1. /\ Contents(c) \in Seq(B \cup {Blank, Erased})
        /\ Len(Contents(c)) = cbuffer_current_size(c)
    BY ContentsAre
  <2> QED BY <2>1, EmptySeq
<1> QED BY <1>1, <1>3, <1>4 DEF cbuffer_is_empty, cbuffer_is_full

(* A new buffer is empty.                                                  *)
LEMMA NewIsEmpty ==
  ASSUME NEW n \in Nat \ {0}, NEW B
  PROVE  /\ cbuffer_init(n) \in Buffers(n, B)
         /\ cbuffer_is_empty(cbuffer_init(n))
         /\ Contents(cbuffer_init(n)) = <<>>
<1>1. cbuffer_init(n) \in Buffers(n, B) /\ cbuffer_is_empty(cbuffer_init(n))
  BY DEF cbuffer_init, Buffers, Indices, cbuffer_is_empty
<1> QED BY <1>1, TestsCount

-----------------------------------------------------------------------------
(* The slot at the head may be written: it holds no byte yet.              *)
LEMMA StoreKeepsContents ==
  ASSUME NEW n \in Nat \ {0}, NEW B, NEW c \in Buffers(n, B), NEW b \in B
  PROVE  /\ Stored(c, b) \in Buffers(n, B)
         /\ Stored(c, b).head = c.head
         /\ Stored(c, b).tail = c.tail
         /\ Stored(c, b).cbuff[c.head] = b
         /\ Contents(Stored(c, b)) = Contents(c)
<1> DEFINE d == Stored(c, b)
           k == cbuffer_current_size(c)
<1>1. /\ d.size = n
      /\ d.tail = c.tail
      /\ d.head = c.head
      /\ d.cbuff = [c.cbuff EXCEPT ![c.head] = b]
      /\ d \in Buffers(n, B)
  BY BufferFields DEF Stored, Buffers, Indices
<1>2. /\ c.size = n
      /\ c.head \in 0 .. n - 1
      /\ c.tail \in 0 .. n - 1
      /\ c.cbuff \in [0 .. n - 1 -> B \cup {Blank, Erased}]
      /\ k = Wrapped(n, c.head - c.tail + n)
  BY BufferFields, Indexing
<1>3. cbuffer_current_size(d) = k
  BY <1>1, <1>2 DEF cbuffer_current_size
<1> HIDE DEF d, k
<1>4. ASSUME NEW i \in 1 .. k
      PROVE  Contents(d)[i] = Contents(c)[i]
  <2>1. Wrapped(n, c.tail + i - 1) # c.head /\ Wrapped(n, c.tail + i - 1) \in 0 .. n - 1
    BY <1>2, SlotsMove
  <2>2. d.cbuff[Wrapped(n, c.tail + i - 1)] = c.cbuff[Wrapped(n, c.tail + i - 1)]
    BY <1>1, <1>2, <2>1
  <2>3. Contents(d)[i] = d.cbuff[Wrapped(n, c.tail + i - 1)]
    <3>1. d \in Buffers(n, B)
      BY <1>1
    <3>2. Contents(d)[i] = d.cbuff[Wrapped(n, d.tail + i - 1)]
      BY <3>1, <1>3, ContentsAt, Zenon
    <3> QED BY <1>1, <3>2
  <2>4. Contents(c)[i] = c.cbuff[Wrapped(n, c.tail + i - 1)]
    BY ContentsAre DEF k
  <2> QED BY <2>2, <2>3, <2>4
<1>5. Contents(d) = Contents(c)
  <2>1. Contents(c) \in Seq(B \cup {Blank, Erased}) /\ Len(Contents(c)) = k
    BY ContentsAre DEF k
  <2>2. Contents(d) \in Seq(B \cup {Blank, Erased}) /\ Len(Contents(d)) = k
    BY <1>1, <1>3, ContentsAre
  <2> QED BY <1>4, <2>1, <2>2, SeqEqual
<1> QED BY <1>1, <1>2, <1>5 DEF d

(* When there is room, the byte at the head joins the contents as the head *)
(* moves.                                                                  *)
LEMMA HeadMovedAppends ==
  ASSUME NEW n \in Nat \ {0}, NEW B, NEW c \in Buffers(n, B), ~cbuffer_is_full(c)
  PROVE  /\ HeadMoved(c) \in Buffers(n, B)
         /\ Contents(HeadMoved(c)) = Append(Contents(c), c.cbuff[c.head])
         /\ ~cbuffer_is_empty(HeadMoved(c))
         /\ HeadMoved(c).tail = c.tail
<1> DEFINE d == HeadMoved(c)
           k == cbuffer_current_size(c)
           b == c.cbuff[c.head]
<1>1. /\ d.size = n
      /\ d.tail = c.tail
      /\ d.head = Wrapped(n, c.head + 1)
      /\ d.cbuff = c.cbuff
      /\ d \in Buffers(n, B)
  BY BufferFields, Indexing DEF HeadMoved, Buffers, Indices
<1>2. /\ c.size = n
      /\ c.head \in 0 .. n - 1
      /\ c.tail \in 0 .. n - 1
      /\ b \in B \cup {Blank, Erased}
      /\ k = Wrapped(n, c.head - c.tail + n)
      /\ k \in Nat
  BY BufferFields, Indexing
<1>3. cbuffer_current_size(d) = k + 1
  <2>1. Wrapped(n, c.head + 1) # c.tail
    BY Indexing DEF cbuffer_is_full
  <2>2. cbuffer_current_size(d) = Wrapped(n, d.head - d.tail + n)
    BY <1>1, Indexing
  <2>3. Wrapped(n, Wrapped(n, c.head + 1) - c.tail + n) = Wrapped(n, c.head - c.tail + n) + 1
    BY <1>2, <2>1, SizeMoves
  <2> HIDE DEF d, k
  <2> QED BY <1>1, <1>2, <2>2, <2>3
<1>4. c.head = Wrapped(n, c.tail + k)
  BY <1>2, SizeMoves
<1> HIDE DEF d, k, b
<1>5. /\ Append(Contents(c), b) \in Seq(B \cup {Blank, Erased})
      /\ Len(Append(Contents(c), b)) = k + 1
      /\ \A i \in 1 .. k : Append(Contents(c), b)[i] = Contents(c)[i]
      /\ Append(Contents(c), b)[k + 1] = b
  <2>1. Contents(c) \in Seq(B \cup {Blank, Erased}) /\ Len(Contents(c)) = k
    BY ContentsAre DEF k
  <2> QED BY <1>2, <2>1, AppendProperties
<1>6. Contents(d) \in Seq(B \cup {Blank, Erased}) /\ Len(Contents(d)) = k + 1
  BY <1>1, <1>3, ContentsAre
<1>7. ASSUME NEW i \in 1 .. k + 1
      PROVE  Contents(d)[i] = Append(Contents(c), b)[i]
  <2>1. Contents(d)[i] = c.cbuff[Wrapped(n, c.tail + i - 1)]
    <3>1. Contents(d)[i] = d.cbuff[Wrapped(n, d.tail + i - 1)]
      BY <1>1, <1>3, ContentsAt
    <3> QED BY <1>1, <3>1
  <2>2. CASE i = k + 1
    <3>1. Wrapped(n, c.tail + i - 1) = c.head
      <4>1. c.tail + i - 1 = c.tail + k
        BY <1>2, <2>2
      <4> QED BY <1>4, <4>1
    <3> QED BY <1>5, <2>1, <2>2, <3>1 DEF b
  <2>3. CASE i \in 1 .. k
    <3>1. Contents(c)[i] = c.cbuff[Wrapped(n, c.tail + i - 1)]
      BY <2>3, ContentsAre DEF k
    <3> QED BY <1>5, <2>1, <2>3, <3>1
  <2>4. i = k + 1 \/ i \in 1 .. k
    BY <1>2
  <2> QED BY <2>2, <2>3, <2>4
<1>8. Contents(d) = Append(Contents(c), b)
  BY <1>2, <1>5, <1>6, <1>7, SeqEqual
<1>9. ~cbuffer_is_empty(d)
  <2>1. cbuffer_current_size(d) # 0
    BY <1>2, <1>3
  <2> QED BY <1>1, <2>1, TestsCount
<1> QED BY <1>1, <1>8, <1>9 DEF d, b

(* The oldest byte leaves its slot first, the others stay where they are.  *)
LEMMA ErasedKeepsTail ==
  ASSUME NEW n \in Nat \ {0}, NEW B, NEW c \in Buffers(n, B), ~cbuffer_is_empty(c)
  PROVE  /\ OldestErased(c) \in Buffers(n, B)
         /\ OldestErased(c).head = c.head
         /\ OldestErased(c).tail = c.tail
         /\ OldestErased(c).cbuff[c.head] = c.cbuff[c.head]
         /\ Contents(c) # <<>>
         /\ Oldest(c) = Head(Contents(c))
         /\ Contents(OldestErased(c)) # <<>>
         /\ Tail(Contents(OldestErased(c))) = Tail(Contents(c))
<1> DEFINE d == OldestErased(c)
           k == cbuffer_current_size(c)
           S == B \cup {Blank, Erased}
<1>1. /\ d.size = n
      /\ d.tail = c.tail
      /\ d.head = c.head
      /\ d.cbuff = [c.cbuff EXCEPT ![c.tail] = Erased]
      /\ d \in Buffers(n, B)
  BY BufferFields DEF OldestErased, Buffers, Indices
<1>2. /\ c.size = n
      /\ c.head \in 0 .. n - 1
      /\ c.tail \in 0 .. n - 1
      /\ c.cbuff \in [0 .. n - 1 -> S]
      /\ k = Wrapped(n, c.head - c.tail + n)
      /\ k \in Nat
  BY BufferFields, Indexing
<1>3. cbuffer_current_size(d) = k
  BY <1>1, <1>2 DEF cbuffer_current_size
<1>4. k > 0 /\ c.head # c.tail
  <2>1. k # 0
    BY TestsCount
  <2> QED BY <1>2, <2>1 DEF cbuffer_is_empty
<1> HIDE DEF d, k
<1>5. /\ Contents(c) \in Seq(S)
      /\ Len(Contents(c)) = k
      /\ Contents(d) \in Seq(S)
      /\ Len(Contents(d)) = k
  BY <1>1, <1>3, ContentsAre DEF k
<1>6. Contents(c) # <<>> /\ Contents(d) # <<>>
  BY <1>4, <1>5, EmptySeq
<1>7. Oldest(c) = Head(Contents(c))
  <2>1. 1 \in 1 .. k
    BY <1>2, <1>4
  <2>2. Contents(c)[1] = c.cbuff[Wrapped(n, c.tail + 1 - 1)]
    BY <2>1, ContentsAre DEF k
  <2>3. Wrapped(n, c.tail + 1 - 1) = c.tail
    BY <1>2 DEF Wrapped
  <2> QED BY <2>2, <2>3 DEF Oldest
<1>8. Tail(Contents(d)) = Tail(Contents(c))
  <2>1. /\ Tail(Contents(c)) \in Seq(S)
        /\ Len(Tail(Contents(c))) = k - 1
        /\ \A i \in 1 .. k - 1 : Tail(Contents(c))[i] = Contents(c)[i + 1]
    BY <1>5, <1>6, HeadTailProperties
  <2>2. /\ Tail(Contents(d)) \in Seq(S)
        /\ Len(Tail(Contents(d))) = k - 1
        /\ \A i \in 1 .. k - 1 : Tail(Contents(d))[i] = Contents(d)[i + 1]
    BY <1>5, <1>6, HeadTailProperties
  <2>3. ASSUME NEW i \in 1 .. k - 1
        PROVE  Tail(Contents(d))[i] = Tail(Contents(c))[i]
    <3> DEFINE j == i + 1
    <3>1. j \in 1 .. k /\ j > 1
      BY <1>2
    <3>2. Tail(Contents(d))[i] = Contents(d)[j] /\ Tail(Contents(c))[i] = Contents(c)[j]
      BY <2>1, <2>2
    <3> HIDE DEF j
    <3>3. Wrapped(n, c.tail + j - 1) # c.tail /\ Wrapped(n, c.tail + j - 1) \in 0 .. n - 1
      BY <1>2, <3>1, SlotsMove
    <3>4. d.cbuff[Wrapped(n, c.tail + j - 1)] = c.cbuff[Wrapped(n, c.tail + j - 1)]
      BY <1>1, <1>2, <3>3
    <3>5. Contents(d)[j] = d.cbuff[Wrapped(n, c.tail + j - 1)]
      <4>1. d \in Buffers(n, B) /\ j \in 1 .. k
        BY <1>1, <3>1
      <4>2. Contents(d)[j] = d.cbuff[Wrapped(n, d.tail + j - 1)]
        BY <4>1, <1>3, ContentsAt, Zenon
      <4> QED BY <1>1, <4>2
    <3>6. Contents(c)[j] = c.cbuff[Wrapped(n, c.tail + j - 1)]
      BY <3>1, ContentsAre DEF k
    <3> QED BY <3>2, <3>4, <3>5, <3>6
  <2>4. k - 1 \in Nat
    BY <1>2, <1>4
  <2> QED BY <2>1, <2>2, <2>3, <2>4, SeqEqual
<1>9. d.cbuff[c.head] = c.cbuff[c.head]
  BY <1>1, <1>2, <1>4
<1> QED BY <1>1, <1>6, <1>7, <1>8, <1>9 DEF d

(* The oldest byte leaves the contents as the tail moves.                  *)
LEMMA TailMovedTakes ==
  ASSUME NEW n \in Nat \ {0}, NEW B, NEW c \in Buffers(n, B), ~cbuffer_is_empty(c)
  PROVE  /\ TailMoved(c) \in Buffers(n, B)
         /\ TailMoved(c).head = c.head
         /\ TailMoved(c).cbuff = c.cbuff
         /\ Contents(TailMoved(c)) = Tail(Contents(c))
         /\ ~cbuffer_is_full(TailMoved(c))
<1> DEFINE d == TailMoved(c)
           k == cbuffer_current_size(c)
           S == B \cup {Blank, Erased}
<1>1. /\ d.size = n
      /\ d.tail = Wrapped(n, c.tail + 1)
      /\ d.head = c.head
      /\ d.cbuff = c.cbuff
      /\ d \in Buffers(n, B)
  BY BufferFields, Indexing DEF TailMoved, Buffers, Indices
<1>2. /\ c.size = n
      /\ c.head \in 0 .. n - 1
      /\ c.tail \in 0 .. n - 1
      /\ k = Wrapped(n, c.head - c.tail + n)
      /\ k \in 0 .. n - 1
      /\ c.head # c.tail
  BY BufferFields, Indexing DEF cbuffer_is_empty
<1>3. cbuffer_current_size(d) = k - 1 /\ k > 0
  <2>1. cbuffer_current_size(d) = Wrapped(n, d.head - d.tail + n)
    BY <1>1, Indexing
  <2>2. /\ Wrapped(n, c.head - Wrapped(n, c.tail + 1) + n) = Wrapped(n, c.head - c.tail + n) - 1
        /\ Wrapped(n, c.head - c.tail + n) > 0
    <3>1. c.head \in 0 .. n - 1 /\ c.tail \in 0 .. n - 1 /\ c.head # c.tail
      BY <1>2
    <3> QED BY <3>1, SizeMoves
  <2> HIDE DEF d, k
  <2> QED BY <1>1, <1>2, <2>1, <2>2
<1> HIDE DEF d, k
<1>4. /\ Contents(c) \in Seq(S)
      /\ Len(Contents(c)) = k
      /\ Contents(d) \in Seq(S)
      /\ Len(Contents(d)) = k - 1
  BY <1>1, <1>3, ContentsAre DEF k
<1>5. Contents(c) # <<>>
  BY <1>3, <1>4, EmptySeq
<1>6. /\ Tail(Contents(c)) \in Seq(S)
      /\ Len(Tail(Contents(c))) = k - 1
      /\ \A i \in 1 .. k - 1 : Tail(Contents(c))[i] = Contents(c)[i + 1]
  BY <1>4, <1>5, HeadTailProperties
<1>7. ASSUME NEW i \in 1 .. k - 1
      PROVE  Contents(d)[i] = Tail(Contents(c))[i]
  <2>1. i \in 1 .. k /\ i < k /\ i + 1 \in 1 .. k /\ c.tail + (i + 1) - 1 = c.tail + i
    BY <1>2
  <2>2. Wrapped(n, Wrapped(n, c.tail + 1) + i - 1) = Wrapped(n, c.tail + i)
    BY <1>2, <2>1, SlotsMove
  <2>3. Contents(d)[i] = d.cbuff[Wrapped(n, d.tail + i - 1)]
    <3>1. d \in Buffers(n, B) /\ cbuffer_current_size(d) = k - 1
      BY <1>1, <1>3
    <3> QED BY <3>1, ContentsAt, Zenon
  <2>4. Contents(c)[i + 1] = c.cbuff[Wrapped(n, c.tail + (i + 1) - 1)]
    BY <2>1, ContentsAre DEF k
  <2> QED BY <1>1, <1>6, <2>1, <2>2, <2>3, <2>4
<1>8. Contents(d) = Tail(Contents(c))
  <2>1. k - 1 \in Nat
    BY <1>2, <1>3
  <2> QED BY <1>4, <1>6, <1>7, <2>1, SeqEqual
<1>9. ~cbuffer_is_full(d)
  <2>1. cbuffer_current_size(d) # n - 1
    BY <1>2, <1>3
  <2> QED BY <1>1, <2>1, TestsCount
<1> QED BY <1>1, <1>8, <1>9 DEF d

-----------------------------------------------------------------------------
(* An enqueue on a buffer that is not full appends to the contents.        *)
LEMMA EnqueueAppends ==
  ASSUME NEW n \in Nat \ {0}, NEW B, NEW c \in Buffers(n, B), NEW b \in B,
         ~cbuffer_is_full(c)
  PROVE  /\ cbuffer_enqueue(c, b) \in Buffers(n, B)
         /\ Contents(cbuffer_enqueue(c, b)) = Append(Contents(c), b)
         /\ ~cbuffer_is_empty(cbuffer_enqueue(c, b))
         /\ cbuffer_enqueue(c, b).tail = c.tail
<1> DEFINE d == Stored(c, b)
<1>1. /\ d \in Buffers(n, B)
      /\ d.head = c.head
      /\ d.tail = c.tail
      /\ d.cbuff[c.head] = b
      /\ Contents(d) = Contents(c)
  BY StoreKeepsContents
<1>2. ~cbuffer_is_full(d)
  <2>1. d.size = c.size
    BY <1>1, BufferFields
  <2> QED BY <1>1, <2>1 DEF cbuffer_is_full, NextMod
<1>3. cbuffer_enqueue(c, b) = HeadMoved(d)
  BY DEF cbuffer_enqueue
<1> HIDE DEF d
<1>4. /\ HeadMoved(d) \in Buffers(n, B)
      /\ Contents(HeadMoved(d)) = Append(Contents(d), d.cbuff[d.head])
      /\ ~cbuffer_is_empty(HeadMoved(d))
      /\ HeadMoved(d).tail = d.tail
  BY <1>1, <1>2, HeadMovedAppends
<1> QED BY <1>1, <1>3, <1>4

(* A dequeue on a buffer that is not empty takes the head of the contents. *)
LEMMA DequeueTakes ==
  ASSUME NEW n \in Nat \ {0}, NEW B, NEW c \in Buffers(n, B), ~cbuffer_is_empty(c)
  PROVE  /\ cbuffer_dequeue(c) \in Buffers(n, B)
         /\ cbuffer_dequeue(c).head = c.head
         /\ cbuffer_dequeue(c).cbuff[c.head] = c.cbuff[c.head]
         /\ Contents(c) # <<>>
         /\ Oldest(c) = Head(Contents(c))
         /\ Contents(cbuffer_dequeue(c)) = Tail(Contents(c))
         /\ ~cbuffer_is_full(cbuffer_dequeue(c))
<1> DEFINE d == OldestErased(c)
<1>1. /\ d \in Buffers(n, B)
      /\ d.head = c.head
      /\ d.tail = c.tail
      /\ d.cbuff[c.head] = c.cbuff[c.head]
      /\ Contents(c) # <<>>
      /\ Oldest(c) = Head(Contents(c))
      /\ Tail(Contents(d)) = Tail(Contents(c))
  BY ErasedKeepsTail
<1>2. ~cbuffer_is_empty(d)
  BY <1>1 DEF cbuffer_is_empty
<1>3. cbuffer_dequeue(c) = TailMoved(d)
  BY DEF cbuffer_dequeue
<1> HIDE DEF d
<1>4. /\ TailMoved(d) \in Buffers(n, B)
      /\ TailMoved(d).head = d.head
      /\ TailMoved(d).cbuff = d.cbuff
      /\ Contents(TailMoved(d)) = Tail(Contents(d))
      /\ ~cbuffer_is_full(TailMoved(d))
  BY <1>1, <1>2, TailMovedTakes
<1> QED BY <1>1, <1>3, <1>4

-----------------------------------------------------------------------------
(* The calls of one caller.                                                *)

CallersBuffer(c) == BufferSize \in Nat \ {0} /\ c \in Buffers(BufferSize, Bytes)

CallerInv == CallerTypeOK /\ HeldAreBytes

(* A new buffer satisfies the invariant.                                   *)
LEMMA CallerStarts == CallerInit => CallerInv
<1> SUFFICES ASSUME CallerInit PROVE CallerInv
  OBVIOUS
<1>1. CallersBuffer(cb) /\ cb.head = 0 /\ cb.tail = 0 /\ cb.size = BufferSize
  BY CBufferFifoAssumption DEF CallerInit, cbuffer_init, CallersBuffer, Buffers, Indices
<1>2. cbuffer_current_size(cb) = 0
  BY <1>1, TestsCount DEF CallersBuffer, cbuffer_is_empty
<1> QED BY <1>1, <1>2 DEF CallerInit, CallerInv, CallerTypeOK, HeldAreBytes, CallersBuffer

(* The slots between the tail and the head hold bytes.                     *)
LEMMA CallerHoldsBytes ==
  ASSUME CallerInv
  PROVE  CallersBuffer(cb) /\ Contents(cb) \in Seq(Bytes)
<1>1. CallersBuffer(cb)
  BY CBufferFifoAssumption DEF CallerInv, CallerTypeOK, CallersBuffer
<1>2. /\ DOMAIN Contents(cb) = 1 .. cbuffer_current_size(cb)
      /\ Len(Contents(cb)) = cbuffer_current_size(cb)
      /\ Contents(cb) \in Seq(Bytes \cup {Blank, Erased})
  BY <1>1, ContentsAre DEF CallersBuffer
<1>3. \A i \in 1 .. Len(Contents(cb)) : Contents(cb)[i] \in Bytes
  BY <1>2 DEF CallerInv, HeldAreBytes
<1> QED BY <1>1, <1>2, <1>3

(* An enqueue keeps the invariant and is a step of the FIFO.               *)
LEMMA CallerEnqueues ==
  ASSUME CallerInv, NEW byte \in Bytes, CallEnqueue(byte)
  PROVE  CallerInv' /\ (Fifo!Put(byte) \/ Fifo!PutFails)
<1> CallersBuffer(cb) /\ Contents(cb) \in Seq(Bytes)
  BY CallerHoldsBytes
<1>1. CASE cbuffer_is_full(cb)
  <2>1. UNCHANGED cb /\ status' = 1 /\ data' = NoData
    BY <1>1 DEF CallEnqueue
  <2>2. Contents(cb)' = Contents(cb) /\ cbuffer_current_size(cb)' = cbuffer_current_size(cb)
    BY <2>1
  <2>3. Len(Contents(cb)) = BufferSize - 1
    <3>1. cbuffer_current_size(cb) = BufferSize - 1
      BY <1>1, TestsCount DEF CallersBuffer
    <3> QED BY <3>1, ContentsAre DEF CallersBuffer
  <2>4. CallerInv'
    BY <2>1, <2>2 DEF CallerInv, CallerTypeOK, HeldAreBytes
  <2>5. Fifo!PutFails
    BY <2>1, <2>2, <2>3 DEF Fifo!PutFails
  <2> QED BY <2>4, <2>5
<1>2. CASE ~cbuffer_is_full(cb)
  <2>1. cb' = cbuffer_enqueue(cb, byte) /\ status' = 0 /\ data' = NoData
    BY <1>2 DEF CallEnqueue
  <2>2. /\ CallersBuffer(cbuffer_enqueue(cb, byte))
        /\ Contents(cbuffer_enqueue(cb, byte)) = Append(Contents(cb), byte)
        /\ cbuffer_current_size(cb) < BufferSize - 1
    <3>1. /\ cbuffer_enqueue(cb, byte) \in Buffers(BufferSize, Bytes)
          /\ Contents(cbuffer_enqueue(cb, byte)) = Append(Contents(cb), byte)
      BY <1>2, EnqueueAppends DEF CallersBuffer
    <3>2. cbuffer_current_size(cb) \in 0 .. BufferSize - 1 /\ cbuffer_current_size(cb) # BufferSize - 1
      BY <1>2, Indexing, TestsCount DEF CallersBuffer
    <3>3. BufferSize \in Nat
      BY DEF CallersBuffer
    <3> QED BY <3>1, <3>2, <3>3 DEF CallersBuffer
  <2>3. Contents(cb)' = Contents(cb') /\ cbuffer_current_size(cb)' = cbuffer_current_size(cb')
    BY DEF Contents, cbuffer_current_size
  <2>4. CallersBuffer(cb') /\ Contents(cb)' = Append(Contents(cb), byte)
    BY <2>1, <2>2, <2>3
  <2>5. CallerInv'
    <3>1. CallerTypeOK'
      BY <2>1, <2>4 DEF CallerTypeOK, CallersBuffer
    <3>2. /\ Contents(cb)' \in Seq(Bytes)
          /\ Len(Contents(cb)') = cbuffer_current_size(cb)'
      <4>1. Len(Contents(cb')) = cbuffer_current_size(cb')
        BY <2>4, ContentsAre DEF CallersBuffer
      <4> QED BY <2>3, <2>4, <4>1, AppendProperties
    <3>3. HeldAreBytes'
      BY <3>2 DEF HeldAreBytes
    <3> QED BY <3>1, <3>3 DEF CallerInv
  <2>6. Fifo!Put(byte)
    <3>1. Len(Contents(cb)) < BufferSize - 1
      BY <2>2, ContentsAre DEF CallersBuffer
    <3> QED BY <2>1, <2>4, <3>1 DEF Fifo!Put
  <2> QED BY <2>5, <2>6
<1> QED BY <1>1, <1>2

(* So does a dequeue.                                                      *)
LEMMA CallerDequeues ==
  ASSUME CallerInv, CallDequeue
  PROVE  CallerInv' /\ (Fifo!Take \/ Fifo!TakeFails)
<1> CallersBuffer(cb) /\ Contents(cb) \in Seq(Bytes)
  BY CallerHoldsBytes
<1>1. CASE cbuffer_is_empty(cb)
  <2>1. UNCHANGED cb /\ status' = 1 /\ data' = NoData
    BY <1>1 DEF CallDequeue
  <2>2. Contents(cb)' = Contents(cb) /\ cbuffer_current_size(cb)' = cbuffer_current_size(cb)
    BY <2>1
  <2>3. Contents(cb) = <<>>
    BY <1>1, TestsCount DEF CallersBuffer
  <2>4. CallerInv'
    BY <2>1, <2>2 DEF CallerInv, CallerTypeOK, HeldAreBytes
  <2>5. Fifo!TakeFails
    BY <2>1, <2>2, <2>3 DEF Fifo!TakeFails
  <2> QED BY <2>4, <2>5
<1>2. CASE ~cbuffer_is_empty(cb)
  <2>1. data' = Oldest(cb) /\ cb' = cbuffer_dequeue(cb) /\ status' = 0
    BY <1>2 DEF CallDequeue
  <2>2. /\ CallersBuffer(cbuffer_dequeue(cb))
        /\ Contents(cb) # <<>>
        /\ Oldest(cb) = Head(Contents(cb))
        /\ Contents(cbuffer_dequeue(cb)) = Tail(Contents(cb))
    BY <1>2, DequeueTakes DEF CallersBuffer
  <2>3. Contents(cb)' = Contents(cb') /\ cbuffer_current_size(cb)' = cbuffer_current_size(cb')
    BY DEF Contents, cbuffer_current_size
  <2>4. CallersBuffer(cb') /\ Contents(cb)' = Tail(Contents(cb)) /\ data' = Head(Contents(cb))
    BY <2>1, <2>2, <2>3
  <2>5. data' \in Bytes /\ Contents(cb)' \in Seq(Bytes)
    BY <2>2, <2>4, HeadTailProperties
  <2>6. CallerInv'
    <3>1. CallerTypeOK'
      BY <2>1, <2>4, <2>5 DEF CallerTypeOK, CallersBuffer
    <3>2. Len(Contents(cb)') = cbuffer_current_size(cb)'
      <4>1. Len(Contents(cb')) = cbuffer_current_size(cb')
        BY <2>4, ContentsAre DEF CallersBuffer
      <4> QED BY <2>3, <4>1
    <3>3. HeldAreBytes'
      BY <2>5, <3>2 DEF HeldAreBytes
    <3> QED BY <3>1, <3>3 DEF CallerInv
  <2>7. Fifo!Take
    BY <2>1, <2>2, <2>4 DEF Fifo!Take
  <2> QED BY <2>6, <2>7
<1> QED BY <1>1, <1>2

(* Every reachable buffer is well formed and holds bytes only.             *)
THEOREM CallerInvariance == CallerSpec => []CallerInv
<1>1. CallerInv /\ [CallerNext]_callerVars => CallerInv'
  <2> SUFFICES ASSUME CallerInv, [CallerNext]_callerVars PROVE CallerInv'
    OBVIOUS
  <2>1. CASE UNCHANGED callerVars
    <3>1. UNCHANGED <<cb, status, data>>
      BY <2>1 DEF callerVars
    <3> QED BY <3>1 DEF CallerInv, CallerTypeOK, HeldAreBytes, Contents, cbuffer_current_size
  <2>2. CASE CallerNext
    BY <2>2, CallerEnqueues, CallerDequeues DEF CallerNext
  <2> QED BY <2>1, <2>2
<1> QED BY <1>1, CallerStarts, PTL DEF CallerSpec

(* cbuffer_enqueue and cbuffer_dequeue keep head and tail in range, for a  *)
(* buffer of every size.                                                   *)
THEOREM BufferTypeCorrect == CallerSpec => []CallerTypeOK
<1>1. CallerInv => CallerTypeOK
  BY DEF CallerInv
<1> QED BY <1>1, CallerInvariance, PTL

(* The counts of cbuffer.c add up in every reachable buffer of every size. *)
THEOREM SpaceIsAccounted == CallerSpec => []SpaceAccounted
<1>1. CallerInv => SpaceAccounted
  <2> SUFFICES ASSUME CallerInv PROVE SpaceAccounted
    OBVIOUS
  <2>1. CallersBuffer(cb)
    BY CBufferFifoAssumption DEF CallerInv, CallerTypeOK, CallersBuffer
  <2>2. BufferSize \in Nat \ {0} /\ cb.size = BufferSize
    BY <2>1, BufferFields DEF CallersBuffer
  <2>3. cbuffer_current_size(cb) \in 0 .. BufferSize - 1
    BY <2>1, Indexing DEF CallersBuffer
  <2>4. /\ cbuffer_is_empty(cb) <=> cbuffer_current_size(cb) = 0
        /\ cbuffer_is_full(cb) <=> cbuffer_current_size(cb) = BufferSize - 1
    BY <2>1, TestsCount DEF CallersBuffer
  <2> QED BY <2>2, <2>3, <2>4 DEF SpaceAccounted, cbuffer_space_left
<1> QED BY <1>1, CallerInvariance, PTL

(* cbuffer.c is a FIFO of size - 1 bytes, for every size.                  *)
THEOREM CBufferIsFifo == CallerSpec => FifoSpec
<1>1. CallerInit => Fifo!Init
  <2> SUFFICES ASSUME CallerInit PROVE Fifo!Init
    OBVIOUS
  <2>1. Contents(cb) = <<>>
    BY CBufferFifoAssumption, NewIsEmpty DEF CallerInit
  <2> QED BY <2>1 DEF CallerInit, Fifo!Init
<1>2. CallerInv /\ [CallerNext]_callerVars => [Fifo!Next]_Fifo!vars
  <2> SUFFICES ASSUME CallerInv, [CallerNext]_callerVars PROVE [Fifo!Next]_Fifo!vars
    OBVIOUS
  <2>1. CASE UNCHANGED callerVars
    BY <2>1 DEF callerVars, Fifo!vars, Contents, cbuffer_current_size
  <2>2. CASE CallerNext
    <3>1. CASE \E byte \in Bytes : CallEnqueue(byte)
      BY <3>1, CallerEnqueues DEF Fifo!Next
    <3>2. CASE CallDequeue
      BY <3>2, CallerDequeues DEF Fifo!Next
    <3> QED BY <2>2, <3>1, <3>2 DEF CallerNext
  <2> QED BY <2>1, <2>2
<1> QED BY <1>1, <1>2, CallerInvariance, PTL DEF CallerSpec, FifoSpec, Fifo!Spec

=============================================================================
