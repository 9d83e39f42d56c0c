------------------------------- MODULE FlatFile ------------------------------
(***************************************************************************)
(* What openfile.h promises of open files, one per thread: a file is a     *)
(* sequence of bytes of a fixed length with a current position.  A call    *)
(* transfers the bytes of its range that the file has, moves the position  *)
(* past them and touches no other byte, of its file or of another one.  A  *)
(* write reaches the file piece by piece.                                  *)
(***************************************************************************)
EXTENDS Integers, Sequences

CONSTANTS
  Threads,
  Byte,
  Zero,       (* what the files hold at first                              *)
  Length,     (* Length[t]: the bytes of the file that thread t has open   *)
  Sizes,      (* Sizes[t]: how many bytes thread t may ask to read         *)
  Texts,      (* Texts[t]: what it may write                               *)
  NoCall

VARIABLES
  content,    (* the bytes of each file                                    *)
  position,   (* the current position in each file                         *)
  call,       (* the call each thread is in                                *)
  got         (* the bytes a Read gives its caller, in the step it returns *)

vars == <<content, position, call, got>>

Read(n) == [kind |-> "Read", numBytes |-> n, from |-> <<>>]
Write(from) == [kind |-> "Write", numBytes |-> Len(from), from |-> from]

(* The bytes of its file that a call is about.                             *)
Span(t) ==
  {i \in 0 .. Length[t] - 1 : position[t] <= i /\ i < position[t] + call[t].numBytes}

Text(t, i) == call[t].from[i - position[t] + 1]

Init ==
  /\ content = [t \in Threads |-> [i \in 0 .. Length[t] - 1 |-> Zero]]
  /\ position = [t \in Threads |-> 0]
  /\ call = [t \in Threads |-> NoCall]
  /\ got = <<>>

Seek(t) ==
  /\ call[t] = NoCall
  /\ \E p \in 0 .. Length[t] : position' = [position EXCEPT ![t] = p]
  /\ UNCHANGED <<content, call>>

Begin(t) ==
  /\ call[t] = NoCall
  /\ \/ \E n \in Sizes[t] : call' = [call EXCEPT ![t] = Read(n)]
     \/ \E from \in Texts[t] : call' = [call EXCEPT ![t] = Write(from)]
  /\ UNCHANGED <<content, position>>

Progress(t) ==
  /\ call[t] # NoCall
  /\ call[t].kind = "Write"
  /\ \E part \in SUBSET Span(t) :
       content' = [content EXCEPT ![t] =
                     [i \in DOMAIN @ |-> IF i \in part THEN Text(t, i) ELSE @[i]]]
  /\ UNCHANGED <<position, call>>

Moved(t, n) == position' = [position EXCEPT ![t] = @ + n]

(* As many bytes as the range has in the file.                             *)
Count(t) == CHOOSE n \in 0 .. call[t].numBytes : Span(t) = position[t] .. position[t] + n - 1

ReadReturns(t) ==
  /\ call[t] # NoCall
  /\ call[t].kind = "Read"
  /\ got' = [i \in 1 .. Count(t) |-> content[t][position[t] + i - 1]]
  /\ Moved(t, Count(t))
  /\ call' = [call EXCEPT ![t] = NoCall]
  /\ UNCHANGED content

WriteReturns(t) ==
  /\ call[t] # NoCall
  /\ call[t].kind = "Write"
  /\ \A i \in Span(t) : content[t][i] = Text(t, i)
  /\ Moved(t, Count(t))
  /\ call' = [call EXCEPT ![t] = NoCall]
  /\ UNCHANGED content

Nothing == UNCHANGED <<content, position, call>>

Next ==
  \E t \in Threads :
    \/ ReadReturns(t)
    \/ got' = <<>> /\ (Seek(t) \/ Begin(t) \/ Progress(t) \/ WriteReturns(t) \/ Nothing)

Spec == Init /\ [][Next]_vars

=============================================================================
