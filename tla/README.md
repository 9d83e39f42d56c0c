# Verification of the operating-systems assignments

The repository holds four assignments of an operating-systems course. Each adds kernel code
to a given base: a Linux driver for an RS-232 UART (dev1), and a file system (dev2), system
calls and processes (dev3) and demand paging (dev4) for Nachos, a kernel that runs inside a
simulated MIPS machine. This directory models that code in TLA+, model-checks it with TLC and
proves part of it with TLAPS.

    tlc -workers 2 -config Paging_memory.cfg MCPaging     # a run (section 3)
    tlapm PagingProofs.tla                                # a proof module (section 5)

## 1. Inventory

Paths are relative to the repository. `D1` is
`dev1-rs232-driver/rs232_tut-0.2/driver`; `D2`, `D3` and `D4` are the `nachos*/code`
directories of `dev2-filesys`, `dev3-process-management` and `dev4-memory-management`.

### dev1: the driver

| part | state | operations | interacts with |
|---|---|---|---|
| `cbuffer.c` | head, tail, array of bytes | init, enqueue, dequeue, is_empty, is_full, current_size, space_left | the driver calls it from processes and from the interrupt routine |
| `rs232_tp.c` | `uart_initialized`, `cbuf_in`, `cbuf_out`, `empty_thr_from_isr`, a wait queue | open, release, read, write, interrupt routine | UART registers (LSR, IER, IIR, RBR, THR); kernel wait queues; copies from and to user memory |
| `rs232_module.c` | what is registered with the kernel | insmod, rmmod | the kernel |
| `chat.c`, `test_cbuffer.c` | - | a user program with two threads on one open file; a test | the device |

Hard: the driver takes no lock. A read or write loses the processor between any two accesses
to data it shares with the interrupt routine; open and release of two processes overlap: open runs
under the kernel's big lock, which an allocation that sleeps lets go, release under none, and both
change the count in one access and test it in the next. A
flag tells the writer that the transmitter rests, so that it must start it: a flag set, cleared
or tested at the wrong moment loses a byte or stops the transmitter for ever. Correct means:
the bytes written reach the line, and the bytes received reach the reader, in order, once; a
sleeper is woken; the buffers exist exactly while the device is open.

### dev2: the file system

| part | state | operations | interacts with |
|---|---|---|---|
| `filesys.cc` (FileSystem) | the current directory's sector; the bitmap, headers and directories on the disk | format, start, Create, CreateDirectory, ChangeDirectory, Remove, Open, List | bitmap, headers, directories, through open files |
| `directory.cc`, `filehdr.cc`, `bitmap.cc` | a table of entries; a file's sectors; a bit for each sector | Find, Add, Remove, IsEmpty; Allocate, Deallocate; Find, Mark, Clear | read from and written to disk by FileSystem |
| `filesys.cc` (OpenFileTable) | ten pointers and a count | FindFile, AddFile, RemoveFile, RemoveAllFiles, TouchWriteableFiles | Open, Close, CloseAll, TouchOpenedFiles |
| `openfile.cc` | the position in a file; the buffer of a call | Seek, Read, Write (ReadAt, WriteAt) | whole sectors, through the synchronous disk |
| `synchdisk.cc`, `synch.cc` | a lock, a semaphore, their queues; the request under way | ReadSector, WriteSector; P, V; Acquire, Release | the disk's interrupt; the scheduler; the idle machine |

Hard: an operation changes the bitmap, a header and one or two directories, all copies read
from the disk and written back; what it has changed in memory before it fails must not reach
the disk; sectors are freed and given again. Correct means: no sector is shared or lost, and
what a caller sees is a tree. Concurrent calls and a crash in the middle of an operation are
excluded by the code's own comments (`filesys.cc:28-36`). Below it, threads share one disk that does
one request at a time: a lock whose Acquire tests once and sleeps once, a semaphore that the
disk's interrupt raises at any tick, an idle machine that must tell "waiting for the disk" from
"nothing left to do", and calls that begin and end inside a sector. Correct means: the disk never
has two requests, every call returns, and each file is a row of bytes.

### dev3: system calls and processes

| part | state | operations | interacts with |
|---|---|---|---|
| `exception.cc` | the flag `ENDED` and the code `EXIT_CODE`, one of each for the machine | Halt, Exit, Exec, Join, Create, Open, Read, Write, Close, Yield; traps | threads; the host's files |
| `addrspace.cc`, `progtest.cc` | the next free frame; the first frame of each space | load a program; save and restore the page table register | main memory |
| `thread.cc`, `scheduler.cc` | the ready list; where each thread is; the thread to be destroyed; a copy of the registers for each thread | Fork, Yield, Finish; ReadyToRun, FindNextToRun, Run | the timer (only with `-rs`); Idle, which stops the machine |

Frames are given in a row, in order, and never taken back. Join loops on Yield until the flag is
up, and answers the code; any Exit raises it and overwrites the code.

Hard: a switch happens at any tick, also while a thread is being created or loaded and has no
space yet; registers and page table must follow the thread that runs; two children end in
either order; loops of Yield must leave the processor to the others. Correct means: a program's memory and
registers are its own, every ready thread gets its turn, and Join gives the child's code.

### dev4: paging, processes, scheduling

| part | state | operations | interacts with |
|---|---|---|---|
| address spaces (`addrspace.cc`, `bitmap.cc`) | a page table and a queue of loaded pages for each space; the bitmap of frames; a swap file for each space | constructor, destructor, LoadFromExecutable, SwapOut, SwapIn | main memory, the executable, the swap file |
| fault handler and traps (`exception.cc:205-245`) | - | PageFault; every other trap ends the thread | address spaces, threads |
| kernel copies (`copy.cc`) | - | CopyFromUser, CopyToUser | translation, which raises faults inside the kernel |
| threads (`thread.cc`, `exception.cc:88-137`) | status, parent, join table and pid of each thread; `threadToBeDestroyed`; the next pid | Exec, Exit, Join, Yield, Halt | scheduler; malloc, which gives the same address again |
| scheduler (`scheduler.cc`, `list.cc`) | the ready list, sorted; the algorithm | ReadyToRun, FindNextToRun, Run | the timer, which forces Yield; Idle, which stops the machine |
| semaphores, locks (`synch.cc`) | - | P, V, ... | never waited on in this build |

Hard: programs fight for frames in every order; a page goes from executable to frame to
swap file and back; an instruction needs two pages; a copy in the kernel faults twice. A
thread's identity is an address that malloc gives again after it is deleted, while parents,
tables and lists may still hold it; a program may be preempted after each instruction. Correct
means: paging cannot be observed, frames are neither shared nor lost, the ready list is exact,
a thread is deleted once, the code that Join gives is the child's, and nobody sleeps or starves
for ever.

### The simulated machine and the rest

`machine/` comes with Nachos: it is the same in dev2, dev3 and dev4. Its processor (`mipssim.cc`,
`machine.cc`) executes one instruction at a time of a MIPS with delayed loads and delayed
branches; its state is the registers, the load still to be applied, and memory. A fault, a trap
or an interrupt may come between any two instructions. Hard: the load that is pending when an
instruction faults; a branch whose delay slot faults and is executed again; products of two words
out of half-words; widths, signs and the order of bytes. Correct means: each instruction
does what the architecture manual that the code names (Kane) says, and once.

Translation, ticks, time slices, the disk's request and the idle machine appear in the
modules of the kernels that see them. Consoles, network, statistics, the conversion of executables (`bin/`)
and the test programs are not the assignments' own logic.

## 2. Modules

| module | models | state |
|---|---|---|
| `Paging` | dev4 address spaces, faults, traps, kernel copies | `valid`, `physicalPage`: the two fields of a page table entry that matter; `loadedPages`: the queue; `freeFrame`: marked frames; `mainMemory`, `swapFile`: contents; `instr`: the instruction being restarted; `status`; `wild`: an index out of bounds has been used |
| `FlatMemory` | what paging promises | each program's private memory |
| `Processes` | dev4 threads and scheduler | the objects at each address (`FREE` if none), `readyList`, `currentThread`, `threadToBeDestroyed`, `serialPid`; history: what each pid's program ended with, which pids lost their parent to the end of another program |
| `UserPrograms` | dev3 system calls, spaces, threads, scheduler | `ENDED`, `EXIT_CODE`; `base`, `pageTable`, `mainMemory`; `registers` of the machine and `userRegisters` of each thread; `at`: where each thread is; history: `awaited`, `firstEnd` |
| `IsolatedPrograms` | what that kernel promises | for each program its memory, registers and state |
| `SynchDisk` | dev2 `synchdisk.cc`, locks, semaphores, scheduler, disk interrupt | `lock`, `semaphore` and their queues; `active`; `readyList`; the program counter of each thread in the driver |
| `OpenFile` | dev2 `openfile.cc` over `SynchDisk` | `disk`: bytes of each sector; `seekPosition`; for each thread its call, the sectors it has still to read and write, and its buffer |
| `FlatFile` | what an open file promises | a row of bytes and a position for each thread |
| `FileSystem` | dev2 names, directories, sectors | `freeMap`, `disk`: what each sector holds, `cdSector`, the last answer |
| `FileTree` | what the file system promises | a tree, a current path, the last answer |
| `CBuffer` | `cbuffer.c`, as operators on a buffer | |
| `CBufferFifo`, `BoundedFifo` | a buffer called by one caller; the queue it implements | `cb`, `status`, `data`; a sequence |
| `Rs232` | the driver and the UART | the code's variables; for each file where its open or release is (`file`); for each process its program counter and locals, and whether the buffer it works on is still the driver's (`given`); the UART's THR, RBR, interrupt enable and pending bits |
| `SerialPort` | what the driver promises | two streams of bytes, and who may drop them |
| `Mips` | the processor | registers, Hi, Lo, PC, NextPC, the delayed load, memory, the last exception |
| `MachineWords` | two's complement words of `ByteBits * 4` bits: the word that a number is cut to, unsigned values, bits, fields | |
| `MipsArchitecture` | what Kane's manual says of each instruction, except OR, SRL and SRLV of negative words, divisions by zero and unaligned accesses (LWL, LWR, SWL, SWR): in these it has the simulator's meaning, so nothing is shown of them | the same registers, without delayed loads in flight |
| `*Proofs` | proofs, see section 5 | |
| `MC*` | instances | |

`Rs232` extends `CBuffer`; `OpenFile` extends `SynchDisk`; `Mips` extends `MachineWords`. `Paging`,
`UserPrograms`, `OpenFile`, `FileSystem`, `CBufferFifo`, `Rs232` and `Mips` each instantiate their abstract
specification with a refinement mapping. `PROJECT.json` maps each definition to its lines.

**Grain of the actions.** In `Rs232` each access to shared data is a step, since the kernel is
preemptible; the interrupt routine runs to its end on the one processor, so a turn of its loop is
a step. The `++` and `--` of `uart_initialized` are one access each: one instruction, as compiled for
one processor. An open is `Count`, `TestFirst`, the two allocations, and the accesses to the UART, with
the divisor latch in place of THR, RBR and IER between `SetSpeed`'s two steps; a release is `Release`, `TestLast`,
the mask and two frees. A routine of `cbuffer.c` goes on with the buffer it was given when the driver's is
replaced or freed under it. What follows an access to freed memory, to a buffer that is not there, or to the divisor latch
instead of the register meant, is undefined: the model stops there (`Astray`, `IsrAstray`).
Nachos gives the processor to another thread only where its clock ticks (`machine/interrupt.cc`, OneTick): at a user instruction, or where the kernel turns interrupts on
again. So in `Paging`, `Processes`, `UserPrograms` and `OpenFile` everything between two ticks is one
step, and a time slice or the disk's interrupt may come after any. In `Processes` Join sleeps in the
middle of a system call, so it is two: `Join` and `Rejoin`. In `UserPrograms` a thread switched out
inside Fork, Yield or the start of a thread has a label of its own in `at`. In `FileSystem` an
operation is a step, and Nachos may stop and start between any two. In `Mips` a step is an instruction, a fault,
an exception or an interrupt.

**Data that is abstracted.** Bytes, words and names are model values, except in `Mips`, which computes
on words of a chosen width. In `Paging` a page has a few words, so that the page where an executable
ends can have words on both sides of the end; `FlatMemory` does not say which word an instruction stores to; in `UserPrograms` one word stands for a page, and what is
in the host's files is any word. In `FileSystem` the bytes of files are left out, but headers and
tables live in the sectors where the code puts them and stay there when they are freed; in `OpenFile`
names are left out, and the bytes are there.

**Faults as definitions.** A definition whose comment starts with "mutant" or "Fault" is a plausible
bug, put beside the definition it would replace; no specification uses it. `PROJECT.json`
"mutants" says which property each one breaks: a property that no fault breaks would say nothing.

## 3. Runs

| run | instance | shows | expected |
|---|---|---|---|
| `paging_memory` | 2 programs, 2 frames, 2 pages of 2 words, executable of 1 word | frames have one owner and the bitmap is exact; every resident page can be evicted; a fault ends a thread only if memory is full and the thread holds nothing; a running program keeps as many frames as it has; `Paging` implements `FlatMemory` | pass |
| `paging_restart` | 1 program, 2 frames, 3 pages | an instruction that touches two pages completes if its program holds two frames | pass |
| `paging_uninit` | executable that ends inside a page | "should be zero'ed before use" | violated |
| `processes_join` | 4 programs at 3 addresses, tables of 2 entries, arrival order and priorities with ageing | the ready list is exact; one carcass at most, and nobody runs on a deleted object; a child knows its parent unless cut off; a join table tells the truth about each child; whoever sleeps in Join is awaited by a child that will wake it, or was abandoned by a trap; nobody starves | pass |
| `processes_reuse` | same, arrival order | the assertion in AddChild | violated |
| `userprograms` | 3 programs of 1, 1 and 2 pages, 4 frames, 2 + 2 + 0 calls that return | `UserPrograms` implements `IsolatedPrograms`; Join gives the right code when the child is the last started and the first to end; every ready thread gets a turn | pass |
| `openfile` | 2 threads, sectors of 2 bytes, a file of 3 bytes in sectors 0 and 2, one of 1 byte in sector 1 | the disk has one request at a time and the driver's assertions hold; `OpenFile` implements `FlatFile`; every call returns | pass |
| `filesys_tree` | 8 sectors, 2 names, 3 entries in a table | sectors are owned once; `FileSystem` implements `FileTree` | pass |
| `cbuffer_fifo` | 4 slots | `cbuffer.c` is a bounded queue; its sizes agree | pass |
| `rs232_write` | 1 writer on the first of 2 files, 2 slots, calls of up to 2 bytes, no allocation sleeps | bytes go out in order, and are lost only where an open or a release may drop them; the flag is true when raised; the transmitter dies in one place only; while it lives writes return and the buffer drains | pass |
| `rs232_read` | 1 reader on the first of 2 files, 3 slots for the bytes received, calls of up to 2 bytes, allocations may sleep | bytes are read in order; no wakeup is lost; the device is lost in one way only, an open that comes while the last release frees | pass |
| `mips` | words of 8 bits (4 bytes of 2), 4 registers, 2 words of memory | every instruction, with every immediate and 14 x 14 edge operands, and 924 programs of 3 instructions from 4 sets of registers, with faults, interrupts and kernel answers between any two: each has the architecture's result, once | pass |

**Why the bounds are enough.** They were chosen so that each interesting case occurs, and the
faults show that it does. Two programs and two frames fewer than their pages: every eviction, reload
and starvation needs no more. `MaxQueue` bounds the queue of loaded pages, which kernel copies
lengthen by one duplicate each. Of a buffer's slots one stays free: the reader's three are
empty, neither, full and wrap; the writer's two are empty or full, and a call of two bytes fills them, waits, and is
emptied meanwhile; longer buffers of bytes to send are the matter of `cbuffer_fifo` and of the proofs, for every size. The bytes that arrive are of two values where somebody reads them and of one (`Heard`) where nobody does.
Two files are what an open and a release need to meet, and a third would only be another of
either; `MaxSize` bounds a call. Three addresses and four pids: an address is given to a second
thread while the first's entry is in a table (`MaxPid`), with `MaxKey` bounding the keys. `MaxCalls` bounds the
calls of a dev3 program that return: with two a program can start a child and join it, start two,
or join after somebody else's exit; four frames hold three programs of which one
has two pages. A file of three bytes in sectors of two has a whole sector, a sector that is not full, and the
other thread's sector between them: reads and writes of one and two bytes begin and end on both
sides of every boundary. Eight sectors leave
four for files, room for a directory inside a directory and for files beside and inside one, and the
disk and a directory both get full; `MaxDepth` is longer than any path that fits (assumption
`DiskAssumption`). Words of eight bits have what words of 32 have, sign, halves, four bytes
and carries between halves, and every operator is written for `ByteBits`; three
instructions are a load or branch, what is in its slot, and what follows (`Starts` lists them). Programs and file names are
symmetric where a cfg says `SYMMETRY`: nothing orders them; no run with a liveness property uses it.

**Deadlock** is not checked where the system may rightly stop: programs end (`Paging`,
`Processes`, `UserPrograms`, `Mips`), threads make no more calls (`OpenFile`), nothing has to arrive
(`Rs232`). It is checked in `cbuffer_fifo` and `filesys_tree`.

**Fairness.** `Paging`: each running program's instruction or fault is weakly fair, because the timer
preempts and the ready list is first come first served. `Processes`: weak fairness of Yield, which
the timer forces; no program has to make a call. `UserPrograms`: weak fairness of the kernel's own steps, which
nothing stops, and of Exit: a running program ends some time, but need not call anything else, and without `-rs`
nothing takes the processor from it. `OpenFile`: the
time slices of `-rs` are random, so each thread's steps inside a call are strongly fair, and so is the
disk's interrupt, which the machine schedules some ticks after the request; nobody has to make a call.
`Rs232`: weak fairness of each process that can run, also in the middle of an open or a release,
of the UART's transmitter and of the interrupt routine; strong fairness of each cause of an
interrupt, because the routine serves them in a fixed order and a byte takes longer to arrive
than its loop to empty. Nobody has to open, call, or send the driver a byte. `WriteTerminates` and `BufferDrains` are of the
time while the transmitter lives (`Dead`) and no release takes the device from an open that overtook it (`StatusIsTrue`). `FileSystem`, `Mips` and
`CBufferFifo` have no liveness property.

## 4. What the violations say, and what was met

* `paging_uninit` (`D4/userprog/addrspace.cc:301`): the page where the executable ends is filled by
  a read that stops at the end of the file; the rest of the frame keeps the previous owner's words,
  though `bin/noff.h:22-24` says that this segment "should be zero'ed before use".
* `processes_reuse` (`D4/threads/thread.cc:88`): `Find` matches an ended child of the same address,
  so a program that starts a second child at the address of a first it has not joined yet fails
  the assertion.

Met while modelling, in the models as the code has them. Some properties say exactly when they bite:

* dev1, `DiesOnlyInForce`: a write sees the buffer full, the interrupt routine sends everything and
  raises the flag, the write clears it (`rs232_tp.c:257`) and finds nothing to send. THR and buffer
  are empty and the flag that says so is down: nothing is sent until the last close. It is the only way
  as long as the UART may interrupt; the other is a late release that masks its interrupts under a new open.
* dev1, `OnlyLateOpenLosesDevice`: release decrements the count, then tests it, then frees the buffers
  (`rs232_tp.c:148`); an open in between allocates new ones, which the release frees. It is the only
  way; two releases can also both find nobody left, and free twice.
* dev1, `SerialPortSpec`: open increments the count (`rs232_tp.c:64`), then tests it. With bytes in the
  buffers of an open file, another open makes the count 2, the first file is released, which makes it 1 and is not the
  last release, and the open then finds 1 and initialises: the buffers are replaced (and leaked), and the bytes are
  lost though the device was never closed. This is `FirstOpen` and `Drop` in `SerialPort`; no other open loses bytes.
* dev1, `FlagMeansIdle` (`D1/rs232_tp.c:69`): open counts itself before it has buffers, and `cbuffer_init` allocates
  with GFP_KERNEL, which may sleep and let other opens run. A second open finds a count of 2 and returns. The flag is still
  up from the last time the device was open, since nothing clears it; its writer puts a byte in the buffer before
  the first open enables the interrupts; so the interrupt routine sends that byte and leaves the flag up, though
  `rs232_tp.c:369` says "Flag to indicate that THR is empty and cbuffer is empty". The next write overwrites the byte in
  the THR. `rs232_write` excludes it with `MaySleep = FALSE`; with `TRUE` TLC finds it.
* dev3, `JoinIsRight`: Join answers the code of the last exit, which is the child's in one case. The
  property says that it is, in that case; in the others `IsolatedPrograms` lets Join answer any code, and no property forbids a wrong one.
* dev4, `SleepersAwaited`: a trap ends a thread without telling its parent, which then sleeps in Join.

Others are stated by no property (the hazards in `PROJECT.json` give the lines). dev1: while open sets the
speed, the divisor latch is in place of THR, RBR and IER, and the interrupt routine (of a device that was not masked
before), a late release or, when an allocation slept, a write of another file reads or writes the speed. While an allocation of open sleeps, the others use a
buffer that is not there, or is being replaced. dev2: `Open` follows
ten pointers that nobody set; `Remove(".")` frees the current directory. dev3: an Open that fails leaves the program
counter on the system call; an overflow is executed again for ever; a second Finish overwrites
the thread to be destroyed, so that the first is never deleted; CopyFromUser stops at a zero byte and
Write then writes bytes nobody set. dev4: a kernel copy to a page that is not resident indexes the page
table with a kernel address; a trap gives back no frame; `ClearChildren` writes at the address
of a child that may be another program's by now; a program that exits with `0xBADC0DE` is never
joined; a program with one frame and an instruction on two pages faults for ever. Processor: OR
computes `rs | rs` and SRL shifts arithmetically; DIV by zero answers 0, and the smallest number
divided by -1 stops the host; LWL, LWR, SWL and SWR work on aligned addresses only. `MipsArchitecture`
has the architecture's meaning except in these instructions, where its comments say so.

## 5. Proofs

`PagingProofs` proves, for any number of programs, frames, pages and words, the theorems
`TypeCorrect`, `FramesHaveOneOwner`, `BitmapIsExact`, `ResidentPagesAreQueued` and
`StarvationNeedsFullMemory`. None of these invariants is inductive alone. A destructor clears the
frames that `physicalPage` names, a fault reads `valid`, and SwapOut looks in `loadedPages`: so
the invariant `IInv` is `TypeOK`, `OneOwner`, `MarkedIsMapped` and `ResidentQueued` with
`TablesAgree` (valid exactly if `physicalPage` is a frame) and `FreshTables` (a program not yet
started has loaded nothing). The proof has a lemma for each kind of load (into a clear frame, over a
victim, none) and a step for each action. Starvation is an action property, from the same
invariant: if no page in the queue is valid, no page of the thread is.
So is `ReplacementIsLocal` (`Spec => ResidencyNeverShrinks`): a load gains a page or exchanges one of the same
space for another, which the finite-set theorems count.
`PagingIsInvisible`, `Spec => FlatMemorySpec`, follows from `IInv` too. What a program
sees of a page is in its frame, in its swap block or in its executable (`PageOf`); a fault moves a
page, and its victim, from one of these to another, and may settle words that nothing had specified
(the end of the executable's last page); starts, ends and faults of the others leave it alone, by
`OneOwner`; a completed store changes one word.

`CBufferProofs` first has what `cbuffer.c` does to a buffer of any size, in terms of what the buffer holds
(`Contents`): the arithmetic of the wrapped indices, what each half of an enqueue and of a dequeue
changes, and that the tests of empty and full count. From these it proves of `CBufferFifo` that its
types hold, with the invariant that only bytes are held, that the two size functions agree with the
tests, and that the buffer implements `BoundedFifo`.

`Rs232Proofs` proves of the driver, for buffers of any size, any number of files and calls of any length,
`TypeCorrect`, `FlagIsTrue`, `PortRefined` (`Spec => SerialPortSpec`: what was written goes out in order, what was received is read in order),
`DiesThere` and `LateOpenOnly`. Its hypotheses are `OneWriter` and `OneReader`, at most one process of each kind, as
in the chat program (two writers do interleave their enqueues, since the driver has no lock around them), and
`OpensAlone`: allocations do not sleep, or there is one file, so that no open goes on while another is in the middle
(section 4, `FlagMeansIdle`, says what happens otherwise). Opens and releases still interleave at each access.
The invariant says for each place of write and read what the process there may
count on while the interrupt routine runs between any two of its accesses (`WriterAt`, `ReaderAt`): whether it
may touch the THR, which byte is in its hands, what is still so of the buffer it has tested. The
flag and the pending interrupt both mean an empty THR, and both are up only while
an open that initialises goes on (`ThrIdle`); the count is the number of files in use (`FilesCounted`), so that an open which
finds itself alone is alone, with nobody in a call, and has an empty buffer until it returns (`StartedEmpty`); the slots
in use hold bytes, but for the oldest one between the two halves of a dequeue (`BytesHeld`).
The streams of the refinement are put together from the THR, the byte in a process's hands
and the buffer; a step of the code either leaves both streams alone or moves one byte at one end.

`OpenFileProofs` proves, for any number of threads, files and sectors, `DiskIsSynchronous`, `TypeCorrect` and
`FlatFileRefined` (`Spec => FlatFileSpec`). Of the disk: Acquire does not test the lock again after Sleep, and is
right only because Release hands it over, still held, to the first thread of the queue. The invariant says where every
thread is: on the processor or in one queue at most (`Apart`), in the lock's queue exactly while it waits and somebody
else has the lock (`LockHeld`), in the semaphore's exactly while the disk works for it (`Served`). The queues
are reduced to their sets of members by lemmas on Append and Tail, and each action has a lemma.
Of the data: every sector that a call touches is in its buffer or on its list of reads to come; every sector it writes
has the call's bytes or is on its list of writes to come; and it reads before it writes (`Planned`, `Progressed`).
What a write gives back around the call's bytes is then what the file had, since no other thread has
a sector of this file; at the last step nothing is left to do, and the call has done at once
all that `FlatFile` does. Which bytes are in which sectors is division of the position by the sector's size.

`FileSystemProofs` proves `TypeCorrect`, `SectorsAreOwnedOnce` and `ImplementsTree` (`Spec => FileTreeSpec`)
for disks, tables and names of any number. What the operations change is one table; what the properties
speak of is the tree that a walk from the root reads from all of them. `Walk` is defined by recursion
over paths; that it is the one function which leads from each path to its name's entry in the table
above (`WalkIs`) is proved by looking at a shortest path for which it would not be (`FirstMissed`). An operation's
new tree is then found by proposing the new walk and looking at each table once (`WalkChanged`):
a name added or removed changes the walk at one path, provided that nothing is below it.
The invariant says of the directories that the walk finds that they have a table and their two dots,
and that ".." leads to the directory above (`Directories`); that each marked sector is in one
file of the walk (`Owned`), so that writing one table or one new header changes no other; and that
the current directory is one of them (`Here`), so that what Create adds is found again. A path that leads to
a directory is shorter than `MaxDepth`, since each directory on it takes its sectors
(`Shallow`): the bound on paths hides nothing. For the refinement, the files of a table are counted by the
paths that lead to them, and the free sectors by the sizes in the tree (`TableIs`, `FitsIs`).

`ProcessesProofs` proves `TypeCorrect`, `ReadyListIsExact`, `CarcassIsOne`, `FamilyTiesHold`,
`TablesTellTruth` and `SleepersAreAwaited` for any number of addresses, programs, priorities and codes.
These are conjuncts of one invariant because each needs the others: Exit wakes whoever `parent`
names, so the ready list stays exact only if parents live; a parent lives only while its table has
the entry that ClearChildren follows; and an entry can be followed only if pids tell apart the
threads an address has had (`Pidding`: a pid is of one live thread, and has no outcome yet). A sleeper needs
more than the property says: an entry without a code for the pid it waits for (`Sleeping`), and for
each such entry a child that lives or one of the three accidents (`Told`). The invariant is stated of
a table of objects, not of `thread`: an action computes a table and gives it to Dispatch, which is treated
once (`Dispatched`), and an end first gives a ledger of all threads but one (`LedgerWithout`), which
Finish completes (`Ended`). Where SortedInsert puts a thread needs that there is such a place, by the
least element of a set of numbers (`Least`).

`UserProgramsProofs` proves, for any number of threads, frames and pages, `TypeCorrect` and
`ProgramsAreIsolated`, `Spec => IsolatedProgramsSpec`. The invariant: the rows of frames of the
spaces are disjoint and below the next free frame (`Apart`); a thread has a row only once
it is loaded, and is loaded once (`LoadedOnce`); the machine translates to the row of the thread that
runs, whenever that thread has one (`Mapped`). A program's registers are the machine's
while it runs and its copy otherwise, so that a switch, whatever the call that makes it, moves registers
and changes nothing that a program sees (`Dispatch` is treated once); every step is then one of
`IsolatedPrograms` or a stutter.
`JoinAnswersRight` (`Spec => JoinIsRight`) is about the order in which the processor goes round. The current thread
and the ready list make a ring (`Ringed`), which a yield turns, an end shortens and Exec, which puts the child at the
end of the list, lengthens just before the parent: so the last child of a thread stays its neighbour while both
live (`Rotation`, `Removal` and `Insertion` say so of lists). When the first thread to end is such a child, its parent is
the next to run, and nobody can exit before it has taken the code (`CodeInv`, `ParentIsNext`).

`MipsProofs` proves, for bytes of any number of bits (a word has four), any programs, registers and memory,
`TypeCorrect` and `MipsIsKane` (`Spec => KaneSpec`): every instruction of a scheduled program does exactly what
`MipsArchitecture` says. The provers know nothing of powers or of bits, so it begins with them. 2^n is the number of
subsets of n things, from which it is positive, doubles and adds in the exponent (`PowerCounts`, `PowerAdds`).
Induction over the bits is replaced by the least number that would be an exception (`FirstMissed`): by it a word is
told by its bits, and every set of bits is that of a word (`BitsTell`, `BitsMade`), and C's masks, sign extensions
and the bytes that ReadMem, WriteMem, LWR and SWR put together become divisions, remainders and sums (`AndMask`, `ExtendedIs`,
`LowByte`, `HighByte`).
After n turns of Mult's loop two of its words hold the product of b by the low n bits of a, the other two hold b
shifted by n, and neither is longer than two words (`TurnKeeps`, `LoopFits`, `LoopMultiplies`). So MULT and MULTU leave the exact product
of any two words (`MultSigned`, `MultUnsigned`), DIV and DIVU a quotient and a remainder, and the three signs that
ADD, ADDI and SUB compare tell exactly when the result is not a word (`OverflowIs`).
The invariant `MachineInv` is the types, which is to say that what every instruction writes is a word, and that the code
is of decoded instructions. For the refinement the program's registers are the machine's with the pending
load applied: an exception or an interrupt applies the load and so changes none of them; a load is seen at once; a
result written under a pending load is the program's because a scheduled program does not write to that
register (`GprAfter`). A branch finds NextPCReg four bytes after PCReg, also when it is executed
again, so its target and its link are those of the architecture (`TargetIs`).

The proofs assume what the modules' named ASSUMEs say of the constants, which TLC evaluates in every run,
and nothing else but, in `Rs232Proofs`, its three hypotheses. `MipsIsKane` is of scheduled programs, and says nothing of the
instructions in which `MipsArchitecture` copies the simulator (section 2).

Only model-checked: liveness (`InstructionCompletes`, `WriteTerminates`, `BufferDrains`,
`ReadTerminates`, `NoStarvation`, `CallsReturn`, `TurnsCome`), which depends on fairness and ENABLED, and what
the two runs that expect a violation show.

## 6. Not modelled

* dev1: loading of the module (`rs232_module.c`), a ladder of sequential calls into a kernel that is not
  in the repository; `cbuffer_info`, logs and debugging counters; the UART's FIFO and error bits;
  the chat program; what follows a wild access (section 2).
* dev2: the table of open files beyond its first use, which follows pointers nobody set; concurrent
  calls of the file system and a crash in the middle of one, which its comments exclude; "." and ".."
  given to Create and Remove; files longer than a header can list; a Seek out of the file; condition variables, whose
  bodies are empty.
* dev3: what is in the host's files and in names: any word, any failure. A program that itself calls an unknown type
  (`exception.cc:252-256`), where the machine stops. A bad handle, which `exception.cc:443-455` dereferences, and a
  negative size are undefined in the code; `Killed` ends the program.
* dev4: semaphores, locks and consoles, which no program of this build waits on; file system calls,
  which go to the host; arguments and registers of system calls.
* Simulated machine: the order of pending interrupts and the clock (an interrupt comes at any tick);
  console, network, statistics, debugging output; decoding of instructions, which is a table.
* Toolchain and conversion of executables (`bin/`), test programs. Of the lines under `src/` most are
  these, the three copies of the Nachos base, and old versions (`_deprecated`, `bin.old`).

## 7. Plan

1. `Processes` composed with the frames of `Paging`: Exit deletes the space and the thread in
   one call, a trap does not; what is left behind.
2. `ModuleInit` (dev1): the ladder of `rs232_tut_init`, each step of which may fail, and
   `rs232_tut_exit`: what is registered after each.
3. `FileSystem`: `Remove(".")` and what follows; a crash between two writes of an operation, with the
   weaker property that survives it.
4. Proofs. Every safety property, action property and refinement of the runs has its theorem.
   Next, the safety half of the liveness properties: that nobody is overtaken in a ready list
   (`TurnsCome`, `CallsReturn`), and that each step of a write or of a read has fewer left to do (`WriteTerminates`).
