------------------------------- MODULE OpenFile -------------------------------
(***************************************************************************)
(* Reading and writing the open files of dev2 (openfile.cc), any bytes of  *)
(* a file through a disk that transfers whole sectors.  Each thread has a  *)
(* file of its own open and calls Seek, Read and Write; their sectors lie  *)
(* on one disk, which SynchDisk shares out.                                *)
(***************************************************************************)
EXTENDS SynchDisk, Integers, Functions

CONSTANTS
  SectorSize,
  dataSectors,   (* dataSectors[t]: where the file of thread t is, in order *)
  Length,        (* its length in bytes                                    *)
  Sizes,         (* Sizes[t]: how many bytes thread t may ask to read      *)
  Texts,         (* Texts[t]: what it may write                            *)
  Byte, Zero,
  Junk,          (* what an allocated buffer holds before it is filled     *)
  NoCall

Sectors == UNION {Range(dataSectors[t]) : t \in Threads}
Offsets == 0 .. SectorSize - 1

ASSUME OpenFileAssumption ==
  /\ SectorSize \in Nat \ {0}
  /\ \A t \in Threads : Sizes[t] \subseteq Nat /\ Texts[t] \subseteq Seq(Byte)
  /\ Zero \in Byte /\ Junk \notin Byte
  /\ \A t \in Threads :
       /\ dataSectors[t] \in Seq(Nat)
       /\ IsInjective(dataSectors[t])
       /\ Length[t] \in Nat
       /\ Length[t] \in (Len(dataSectors[t]) - 1) * SectorSize + 1
                          .. Len(dataSectors[t]) * SectorSize
       /\ \A u \in Threads \ {t} : Range(dataSectors[t]) \cap Range(dataSectors[u]) = {}

VARIABLES
  disk,           (* the bytes of each sector                              *)
  seekPosition,
  call,           (* the call each thread is in                            *)
  todo,           (* the sectors it has still to read and write            *)
  buf,            (* its buffer, a piece for each sector of the file       *)
  got             (* the bytes a Read gives its caller, as it returns      *)

files == <<disk, seekPosition, call, todo, buf>>
vars == <<diskVars, files, got>>

-----------------------------------------------------------------------------
ByteToSector(t, i) == dataSectors[t][i \div SectorSize + 1]

Blank(t) == [s \in 0 .. Len(dataSectors[t]) - 1 |-> [o \in Offsets |-> Junk]]

(* The bytes that are left of n at a position, with the end of the file.   *)
UpToTheEnd(t, position, n) ==
  IF n <= 0 \/ position >= Length[t] THEN 0
  ELSE IF position + n > Length[t] THEN Length[t] - position
  ELSE n

Sector(i) == i \div SectorSize

Aligned(i) == i % SectorSize = 0

Step(kind, sector) == [kind |-> kind, sector |-> sector]

(* One step for each sector from the first to the last.                    *)
Steps(kind, first, last) == [i \in 1 .. last - first + 1 |-> Step(kind, first + i - 1)]

LastUnread(first, last, position, end) ==   \* mutant: the last sector counts as read with the first
  IF ~Aligned(end) /\ first # last THEN <<Step("read", last)>> ELSE <<>>

(* WriteAt reads the last sector if it is written in part, unless it is    *)
(* also the first and has been read.                                       *)
LastRead(first, last, position, end) ==
  IF ~Aligned(end) /\ (first # last \/ Aligned(position)) THEN <<Step("read", last)>> ELSE <<>>

(* The sectors of ReadAt, and of WriteAt with n bytes of the file.         *)
Plan(kind, position, n) ==
  LET end == position + n
      first == Sector(position)
      last == Sector(end - 1)
  IN IF n = 0 THEN <<>>
     ELSE IF kind = "Read" THEN Steps("read", first, last)
     ELSE (IF Aligned(position) THEN <<>> ELSE <<Step("read", first)>>)
            \o LastRead(first, last, position, end)
            \o Steps("write", first, last)

NumBytes(t) == UpToTheEnd(t, seekPosition[t], call[t].numBytes)

(* The bytes the call is about, in the file.                               *)
InCall(t, i) == seekPosition[t] <= i /\ i < seekPosition[t] + NumBytes(t)

(* ReadAt, from a sector of a file: it stops at the end of the file.       *)
Fetched(t, s) ==
  [o \in Offsets |->
     IF s * SectorSize + o < Length[t]
       THEN disk[ByteToSector(t, s * SectorSize)][o] ELSE buf[t][s][o]]

(* The bytes to write, copied over what was read.                          *)
CopiedIn(t, s) ==
  [o \in Offsets |->
     LET i == s * SectorSize + o
     IN IF InCall(t, i) THEN call[t].from[i - seekPosition[t] + 1] ELSE buf[t][s][o]]

-----------------------------------------------------------------------------
Idle(t) == Runs(t, "out") /\ call[t] = NoCall

(* Positions inside the file, of all that the code takes.                  *)
Seek(t) ==
  /\ Idle(t)
  /\ \E p \in 0 .. Length[t] : seekPosition' = [seekPosition EXCEPT ![t] = p]
  /\ UNCHANGED <<diskVars, disk, call, todo, buf>>

(* Read and Write, which call ReadAt and WriteAt at seekPosition.          *)
Begin(t, c) ==
  /\ Idle(t)
  /\ call' = [call EXCEPT ![t] = c]
  /\ todo' = [todo EXCEPT ![t] =
                Plan(c.kind, seekPosition[t], UpToTheEnd(t, seekPosition[t], c.numBytes))]
  /\ UNCHANGED <<diskVars, disk, seekPosition, buf>>

(* SynchDisk::ReadSector and WriteSector; the disk transfers the data when *)
(* it takes the request.                                                   *)
AcquireDisk(t) == todo[t] # <<>> /\ Acquire(t) /\ UNCHANGED files

Transfer(t) ==
  LET step == Head(todo[t])
      s == step.sector
  IN \/ /\ step.kind = "read"
        /\ buf' = [buf EXCEPT ![t][s] = Fetched(t, s)]
        /\ UNCHANGED disk
     \/ /\ step.kind = "write"
        /\ disk' = [disk EXCEPT ![ByteToSector(t, s * SectorSize)] = CopiedIn(t, s)]
        /\ UNCHANGED buf

RequestSector(t) ==
  /\ Request(t)
  /\ IF active THEN UNCHANGED <<disk, buf>> ELSE Transfer(t)
  /\ UNCHANGED <<seekPosition, call, todo>>

ReleaseDisk(t) ==
  /\ Release(t)
  /\ todo' = [todo EXCEPT ![t] = IF pc'[t] = "out" THEN Tail(@) ELSE @]
  /\ UNCHANGED <<disk, seekPosition, call, buf>>

Overshot(t) == seekPosition[t] + call[t].numBytes   \* mutant: moved by what was asked

NewPosition(t) == seekPosition[t] + NumBytes(t)

(* The call copies out what it was asked for, and returns.                 *)
Return(t) ==
  /\ Runs(t, "out")
  /\ call[t] # NoCall /\ todo[t] = <<>>
  /\ got' = IF call[t].kind = "Write" THEN <<>>
            ELSE [i \in 1 .. NumBytes(t) |->
                    LET at == seekPosition[t] + i - 1
                    IN buf[t][Sector(at)][at % SectorSize]]
  /\ seekPosition' = [seekPosition EXCEPT ![t] = NewPosition(t)]
  /\ call' = [call EXCEPT ![t] = NoCall]
  /\ buf' = [buf EXCEPT ![t] = Blank(t)]
  /\ UNCHANGED <<diskVars, disk, todo>>

FinishThread(t) == Idle(t) /\ Finish(t) /\ UNCHANGED files

(* What a thread does in a call until it returns.                          *)
Works(t) ==
  \/ AcquireDisk(t)
  \/ (Acquired(t) \/ Signalled(t)) /\ UNCHANGED files
  \/ RequestSector(t)
  \/ ReleaseDisk(t)

-----------------------------------------------------------------------------
Init ==
  /\ DiskInit
  /\ disk = [s \in Sectors |-> [o \in Offsets |-> Zero]]
  /\ seekPosition = [t \in Threads |-> 0]
  /\ call = [t \in Threads |-> NoCall]
  /\ todo = [t \in Threads |-> <<>>]
  /\ buf = [t \in Threads |-> Blank(t)]
  /\ got = <<>>

(* A thread's file, whatever its sectors hold past its end.                *)
Flat == INSTANCE FlatFile WITH
  content <- [t \in Threads |->
                [i \in 0 .. Length[t] - 1 |-> disk[ByteToSector(t, i)][i % SectorSize]]],
  position <- seekPosition

Calls(t) ==
  {Flat!Read(n) : n \in Sizes[t]} \cup {Flat!Write(from) : from \in Texts[t]}

ASSUME NoCallAssumption == \A t \in Threads : NoCall \notin Calls(t)

Interrupts == (DiskInterrupt \/ TimeSlice \/ Halt) /\ UNCHANGED files

Next ==
  \/ \E t \in Threads : Return(t)
  \/ /\ got' = <<>>
     /\ \/ \E t \in Threads :
             \/ Seek(t)
             \/ \E c \in Calls(t) : Begin(t, c)
             \/ Works(t)
             \/ FinishThread(t)
        \/ Interrupts

Spec == Init /\ [][Next]_vars

(* A thread that is ready gets the processor, first come first served.     *)
(* The time slices come at random (-rs), not at every tick for ever, and a *)
(* disk request is done some ticks later.  A thread makes as many calls as *)
(* it likes, and ends: nothing takes the processor from one that computes  *)
(* for ever, or asks for no byte for ever, without a tick.                 *)
Fairness ==
  /\ \A t \in Threads :
       /\ SF_vars(Return(t) \/ (got' = <<>> /\ Works(t)))
       /\ SF_vars(got' = <<>> /\ FinishThread(t))
  /\ SF_vars(got' = <<>> /\ DiskInterrupt /\ UNCHANGED files)

FairSpec == Spec /\ Fairness

-----------------------------------------------------------------------------
(* The type of every variable.                                             *)
TypeOK ==
  /\ readyList \in Seq(Threads) /\ lockQueue \in Seq(Threads)
  /\ semaphoreQueue \in Seq(Threads)
  /\ currentThread \in Threads \cup {NULL} /\ state \in Threads \cup {NULL}
  /\ value \in Nat /\ active \in BOOLEAN
  /\ pc \in [Threads -> Interruptible \cup {"acquiring", "waiting", "finished"}]
  /\ halted \in {"no", "idle", "assert"}
  /\ disk \in [Sectors -> [Offsets -> Byte \cup {Junk}]]
  /\ \A t \in Threads :
       /\ seekPosition[t] \in 0 .. Length[t]
       /\ call[t] \in Calls(t) \cup {NoCall}
       /\ todo[t] \in Seq([kind : {"read", "write"}, sector : DOMAIN buf[t]])
       /\ buf[t] \in [0 .. Len(dataSectors[t]) - 1 -> [Offsets -> Byte \cup {Junk}]]
  /\ got \in Seq(Byte)

(* Read and Write do what FlatFile says (openfile.h), though the disk only *)
(* transfers whole sectors and takes the requests of all the threads in    *)
(* turn: the bytes around those written survive, those past the end of the *)
(* file, or never read, are not given to anybody, and the sectors of one   *)
(* file never receive what was meant for another.                          *)
FlatFileSpec == Flat!Spec

(* Every call returns: no thread is left asleep on the lock or on the      *)
(* semaphore, and the machine does not take itself for idle while a        *)
(* request is under way.                                                   *)
CallsReturn == \A t \in Threads : call[t] # NoCall ~> call[t] = NoCall

=============================================================================
