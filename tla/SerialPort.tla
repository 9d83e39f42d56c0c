----------------------------- MODULE SerialPort -----------------------------
(***************************************************************************)
(* What a process may expect of the rs232 device: two byte streams.  A     *)
(* byte a write has taken stays in outgoing until it goes out on the line, *)
(* a byte the driver has received stays in incoming until a read returns   *)
(* it, both in order.  What empties the streams is a close that finds the  *)
(* device closed, perhaps late, when a process has opened it again; and an *)
(* open that finds itself alone, though a file that was open until then    *)
(* may have left bytes: they are lost and the device was never closed.     *)
(***************************************************************************)
EXTENDS Naturals, Sequences

CONSTANTS
  Byte,
  NoByte    (* nothing; also a byte lost to a bad user buffer              *)

VARIABLES
  opens,    (* how many times the device is open                           *)
  starting, (* an open that found itself alone has not yet its buffers     *)
  closing,  (* a close that found the device closed is not done            *)
  outgoing, (* bytes taken from the writers, not yet on the line           *)
  line,     (* the last byte that went out                                 *)
  incoming, (* bytes received, not yet given to a reader                   *)
  got       (* the last byte given to a reader                             *)

vars == <<opens, starting, closing, outgoing, line, incoming, got>>

Init ==
  /\ opens = 0
  /\ starting = FALSE
  /\ closing = FALSE
  /\ outgoing = <<>>
  /\ line = NoByte
  /\ incoming = <<>>
  /\ got = NoByte

Open ==
  /\ opens' = opens + 1
  /\ UNCHANGED <<starting, closing, outgoing, line, incoming, got>>

FirstOpen ==
  /\ opens = 1
  /\ starting' = TRUE
  /\ UNCHANGED <<opens, closing, outgoing, line, incoming, got>>

Close ==
  /\ opens > 0
  /\ opens' = opens - 1
  /\ UNCHANGED <<starting, closing, outgoing, line, incoming, got>>

LastClose ==
  /\ opens = 0
  /\ closing' = TRUE
  /\ UNCHANGED <<opens, starting, outgoing, line, incoming, got>>

(* A stream is dropped, except perhaps the byte that is being moved.       *)
Dropped(stream, rest) ==
  \/ rest \in {stream, <<>>}
  \/ stream # <<>> /\ rest = <<Head(stream)>>

(* One of those that may empties the streams; it, or another, may be done. *)
Drop ==
  /\ starting \/ closing
  /\ starting' \in {starting, FALSE}
  /\ closing' \in {closing, FALSE}
  /\ Dropped(outgoing, outgoing')
  /\ Dropped(incoming, incoming')
  /\ UNCHANGED <<opens, line, got>>

Write(byte) ==
  /\ opens > 0
  /\ outgoing' = Append(outgoing, byte)
  /\ UNCHANGED <<opens, starting, closing, line, incoming, got>>

Send ==
  /\ outgoing # <<>>
  /\ line' = Head(outgoing)
  /\ outgoing' = Tail(outgoing)
  /\ UNCHANGED <<opens, starting, closing, incoming, got>>

Receive(byte) ==
  /\ incoming' = Append(incoming, byte)
  /\ UNCHANGED <<opens, starting, closing, outgoing, line, got>>

Read ==
  /\ opens > 0
  /\ incoming # <<>>
  /\ got' \in {Head(incoming), NoByte}
  /\ incoming' = Tail(incoming)
  /\ UNCHANGED <<opens, starting, closing, outgoing, line>>

Next ==
  \/ Open
  \/ FirstOpen
  \/ Close
  \/ LastClose
  \/ Drop
  \/ \E byte \in Byte : Write(byte) \/ Receive(byte)
  \/ Send
  \/ Read

Spec == Init /\ [][Next]_vars

=============================================================================
