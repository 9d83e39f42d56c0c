------------------------------- MODULE Paging -------------------------------
(***************************************************************************)
(* Demand paging of the fourth assignment (nachos.tp4): the address spaces *)
(* of userprog/addrspace.cc, the page-fault handler of exception.cc, the   *)
(* kernel's copies to and from user memory (copy.cc), the bitmap of frames *)
(* and the simulated machine's translation and instruction restart.        *)
(*                                                                         *)
(* Kernel code is preempted only where it enables interrupts, and a fault  *)
(* handler, a one-byte copy or an exit never does: each is one action.     *)
(* Between two user instructions any other thread may run, so the actions  *)
(* of the address spaces interleave freely.                                *)
(***************************************************************************)
EXTENDS Integers, Sequences, FiniteSets

CONSTANTS
  Spaces,        (* address spaces: one per thread that runs a program     *)
  NumPhysPages,  (* frames of main memory                                  *)
  numPages,      (* pages of an address space                              *)
  PageSize,      (* words of a page                                        *)
  exeSize,       (* words of code and initialized data in the executable   *)
  Value,         (* what a word may hold                                   *)
  Zero,          (* the word bzero writes                                  *)
  Stored,        (* the values the programs store                          *)
  Image,         (* Image[s][a]: word a of the executable of s             *)
  Instructions,  (* the instructions: <<page of the code, of the operand>> *)
  Undef,         (* in FlatMemory: a word whose first value is unspecified *)
  Absent,        (* in FlatMemory: the memory of a space not running       *)
  MaxQueue       (* bound on loadedPages: the kernel copies stop there     *)

Frames == 0 .. NumPhysPages - 1
Pages == 0 .. numPages - 1
Words == 0 .. PageSize - 1

ASSUME PagingAssumption ==
  /\ NumPhysPages \in Nat \ {0}
  /\ numPages \in Nat \ {0}
  /\ PageSize \in Nat \ {0}
  /\ exeSize \in Nat
  /\ Zero \in Value
  /\ Stored \subseteq Value
  /\ Image \in [Spaces -> [0 .. exeSize - 1 -> Value]]
  /\ Instructions \subseteq Pages \X Pages
  /\ Undef \notin Value
  /\ Absent \notin [Pages -> [Words -> Value \cup {Undef}]]
  /\ MaxQueue \in Nat

VARIABLES
  status,       (* what became of the thread that owns the space           *)
  valid,        (* pageTable[p].valid                                      *)
  physicalPage, (* pageTable[p].physicalPage                               *)
  loadedPages,  (* the queue SwapOut takes its victim from                 *)
  freeFrame,    (* the frames marked in the kernel's bitmap                *)
  mainMemory,   (* the content of each frame                               *)
  swapFile,     (* the content of each block of the swap file              *)
  instr,        (* the user instruction being (re)started: the pages of    *)
                (* its code and of its operand                             *)
  wild          (* the kernel has indexed a page table out of its bounds   *)

vars == <<status, valid, physicalPage, loadedPages, freeFrame, mainMemory,
          swapFile, instr, wild>>

Unloaded == -1          (* physicalPage of a page never loaded             *)
IN_SWAP_FILE == -2
NoInstr == <<>>

ZeroPage == [w \in Words |-> Zero]
NoPages == [p \in Pages |-> FALSE]

-----------------------------------------------------------------------------
(* What the page table and the bitmap say.                                 *)

Running(s) == status[s] = "running"
Resident(s) == {p \in Pages : valid[s][p]}

FindUntested ==      \* mutant: the loop of Find does not Test the bit
  {0}
FindPastEnd ==       \* mutant: the loop of Find runs to i <= numBits
  LET clear == (0 .. NumPhysPages) \ freeFrame
  IN {f \in clear : \A g \in clear : f <= g}

(* BitMap::Find: the lowest clear bit; none when it returns -1.            *)
Find == {f \in Frames \ freeFrame : \A g \in Frames \ freeFrame : f <= g}

LowestVictim(s, queue, k) ==   \* mutant: the first valid page of the table
  /\ k \in 1 .. Len(queue)
  /\ valid[s][queue[k]]
  /\ \A p \in Resident(s) : queue[k] <= p

(* SwapOut rotates the queue up to the first page that is valid.           *)
IsVictim(s, queue, k) ==
  /\ k \in 1 .. Len(queue)
  /\ valid[s][queue[k]]
  /\ \A i \in 1 .. k - 1 : ~valid[s][queue[i]]

FrontNotValid(s, queue) ==   \* mutant: SwapOut looks at the front only
  ~valid[s][queue[1]]

(* No valid page found in the queue.                                       *)
NoVictim(s, queue) == \A i \in 1 .. Len(queue) : ~valid[s][queue[i]]

PopsTwice(queue, k) ==   \* mutant: the victim's pop is in the loop as well
  SubSeq(queue, k + 2, Len(queue)) \o SubSeq(queue, 1, k - 1)

(* The queue once the k pages in front of it are rotated and the k-th is   *)
(* popped.                                                                 *)
Rotated(queue, k) ==
  SubSeq(queue, k + 1, Len(queue)) \o SubSeq(queue, 1, k - 1)

(* The valid bits once p has replaced the victim.                          *)
Replaced(row, victim, p) == [row EXCEPT ![victim] = FALSE, ![p] = TRUE]

NeverFromSwap(s, p, old) ==   \* mutant: the swap file is never read back
  IF p * PageSize >= exeSize THEN ZeroPage
  ELSE [w \in Words |-> IF p * PageSize + w < exeSize
                          THEN Image[s][p * PageSize + w]
                          ELSE old[w]]

(* What LoadFromExecutable leaves in a frame that held old: the block of   *)
(* the swap file, zeroes past the executable, and else what ReadAt reads.  *)
(* ReadAt stops at the end of the file and leaves the rest of the frame.   *)
PageContent(s, p, old) ==
  IF physicalPage[s][p] = IN_SWAP_FILE THEN swapFile[s][p]
  ELSE IF p * PageSize >= exeSize THEN ZeroPage
  ELSE [w \in Words |-> IF p * PageSize + w < exeSize
                          THEN Image[s][p * PageSize + w]
                          ELSE old[w]]

(* SwapIn zeroes the block it has read.                                    *)
SwapBlocks(s, p) ==
  IF physicalPage[s][p] = IN_SWAP_FILE
    THEN [swapFile[s] EXCEPT ![p] = ZeroPage]
    ELSE swapFile[s]

-----------------------------------------------------------------------------
(* LoadFromExecutable: push the page, find a frame, fill it, map it.       *)
(* again is what a second call for the page, now valid, pushes after that. *)

LoadIntoClearFrame(s, p, again) ==
  \E f \in Find :
    /\ freeFrame' = freeFrame \cup {f}
    /\ loadedPages' = [loadedPages EXCEPT ![s] = Append(@, p) \o again]
    /\ valid' = [valid EXCEPT ![s][p] = TRUE]
    /\ physicalPage' = [physicalPage EXCEPT ![s][p] = f]
    /\ mainMemory' = [mainMemory EXCEPT ![f] = PageContent(s, p, @)]
    /\ swapFile' = [swapFile EXCEPT ![s] = SwapBlocks(s, p)]
    /\ UNCHANGED <<status, instr>>

FreesVictimOnly(s, p, again) ==   \* mutant: the handler returns after SwapOut
  \E k \in 1 .. Len(loadedPages[s]) :
    LET victim == loadedPages[s][k]
        f == physicalPage[s][victim]
    IN /\ freeFrame = Frames
       /\ IsVictim(s, loadedPages[s], k)
       /\ freeFrame' = freeFrame \ {f}
       /\ loadedPages' = [loadedPages EXCEPT ![s] = Rotated(@, k)]
       /\ valid' = [valid EXCEPT ![s][victim] = FALSE]
       /\ physicalPage' = [physicalPage EXCEPT ![s][victim] = IN_SWAP_FILE]
       /\ swapFile' = [swapFile EXCEPT ![s][victim] = mainMemory[f]]
       /\ UNCHANGED <<status, mainMemory, instr>>

(* No clear frame: SwapOut writes a victim of the same space to the swap   *)
(* file and gives its frame.                                               *)
LoadOverVictim(s, p, again) ==
  LET queue == Append(loadedPages[s], p) IN
  /\ freeFrame = Frames
  /\ \E k \in 1 .. Len(queue) :
       LET victim == queue[k]
           f == physicalPage[s][victim]
       IN /\ IsVictim(s, queue, k)
          /\ loadedPages' = [loadedPages EXCEPT ![s] = Rotated(queue, k) \o again]
          /\ valid' = [valid EXCEPT ![s] = Replaced(@, victim, p)]
          /\ physicalPage' = [physicalPage EXCEPT
               ![s] = [@ EXCEPT ![victim] = IN_SWAP_FILE, ![p] = f]]
          /\ mainMemory' = [mainMemory EXCEPT ![f] = PageContent(s, p, @)]
          /\ swapFile' = [swapFile EXCEPT
               ![s] = [SwapBlocks(s, p) EXCEPT ![victim] = mainMemory[f]]]
  /\ UNCHANGED <<status, freeFrame, instr>>

(* Neither a clear frame nor a page of its own to give up: the handler     *)
(* ends the thread.  The address space is not deleted.                     *)
Starve(s, p) ==
  LET queue == Append(loadedPages[s], p) IN
  /\ freeFrame = Frames
  /\ NoVictim(s, queue)
  /\ status' = [status EXCEPT ![s] = "starved"]
  /\ instr' = [instr EXCEPT ![s] = NoInstr]
  /\ loadedPages' = [loadedPages EXCEPT ![s] = queue]
  /\ UNCHANGED <<valid, physicalPage, freeFrame, mainMemory, swapFile>>

LoadFromExecutable(s, p, again) ==
  \/ LoadIntoClearFrame(s, p, again)
  \/ LoadOverVictim(s, p, again)
  \/ Starve(s, p)

-----------------------------------------------------------------------------
(* AddrSpace::AddrSpace: nothing is loaded, the swap file is truncated.    *)
NewAddrSpace(s) ==
  /\ status[s] = "none"
  /\ status' = [status EXCEPT ![s] = "running"]
  /\ swapFile' = [swapFile EXCEPT ![s] = [p \in Pages |-> ZeroPage]]
  /\ UNCHANGED <<valid, physicalPage, loadedPages, freeFrame, mainMemory, instr, wild>>

HeldPastFirst(s) ==   \* mutant: the loop of ~AddrSpace starts at page 1
  {physicalPage[s][p] : p \in {q \in Pages \ {0} :
       physicalPage[s][q] \notin {Unloaded, IN_SWAP_FILE}}}

(* The frames ~AddrSpace clears: those its page table holds.               *)
Held(s) ==
  {physicalPage[s][p] : p \in {q \in Pages :
       physicalPage[s][q] \notin {Unloaded, IN_SWAP_FILE}}}

(* SC_Exit deletes the space.  The object is gone; its fields return to    *)
(* what the next constructor gives them.                                   *)
Exit(s) ==
  /\ Running(s)
  /\ instr[s] = NoInstr
  /\ freeFrame' = freeFrame \ Held(s)
  /\ status' = [status EXCEPT ![s] = "none"]
  /\ valid' = [valid EXCEPT ![s] = NoPages]
  /\ physicalPage' = [physicalPage EXCEPT ![s] = [p \in Pages |-> Unloaded]]
  /\ loadedPages' = [loadedPages EXCEPT ![s] = <<>>]
  /\ swapFile' = [swapFile EXCEPT ![s] = [p \in Pages |-> ZeroPage]]
  /\ UNCHANGED <<mainMemory, instr, wild>>

(* The other user exceptions end the thread, and delete nothing.           *)
Trap(s) ==
  /\ Running(s)
  /\ status' = [status EXCEPT ![s] = "trapped"]
  /\ instr' = [instr EXCEPT ![s] = NoInstr]
  /\ UNCHANGED <<valid, physicalPage, loadedPages, freeFrame, mainMemory, swapFile, wild>>

(* The next user instruction: where it is fetched from, where its operand  *)
(* is.  (An instruction without operand has the page of its code twice.)   *)
Issue(s, pages) ==
  /\ Running(s)
  /\ instr[s] = NoInstr
  /\ instr' = [instr EXCEPT ![s] = pages]
  /\ UNCHANGED <<status, valid, physicalPage, loadedPages, freeFrame, mainMemory,
                 swapFile, wild>>

(* OneInstruction translates the fetch first, then the operand; a fault    *)
(* returns to Run, which starts the instruction over.                      *)
FaultingPage(s) ==
  IF ~valid[s][instr[s][1]] THEN instr[s][1] ELSE instr[s][2]

PageFault(s) ==
  /\ Running(s)
  /\ instr[s] # NoInstr
  /\ ~valid[s][FaultingPage(s)]
  /\ LoadFromExecutable(s, FaultingPage(s), <<>>)
  /\ UNCHANGED wild

(* Both pages translate: the instruction completes, with or without a      *)
(* store to its operand.                                                   *)
Complete(s) ==
  /\ Running(s)
  /\ instr[s] # NoInstr
  /\ valid[s][instr[s][1]]
  /\ valid[s][instr[s][2]]
  /\ instr' = [instr EXCEPT ![s] = NoInstr]
  /\ \/ UNCHANGED mainMemory
     \/ \E w \in Words, v \in Stored :
          mainMemory' = [mainMemory EXCEPT ![physicalPage[s][instr[s][2]]][w] = v]
  /\ UNCHANGED <<status, valid, physicalPage, loadedPages, freeFrame, swapFile, wild>>

(* CopyFromUser, one byte of a page that is not resident: ReadMem raises   *)
(* the fault itself and returns FALSE, and the loop raises it a second     *)
(* time for the page that is now valid.                                    *)
CopyFromUser(s, p) ==
  /\ Running(s)
  /\ instr[s] = NoInstr
  /\ ~valid[s][p]
  /\ Len(loadedPages[s]) + 2 <= MaxQueue
  /\ LoadFromExecutable(s, p, <<p>>)
  /\ UNCHANGED wild

(* CopyToUser, one byte: WriteMem stores it when the page is resident.     *)
CopyToUser(s, p, w, v) ==
  /\ Running(s)
  /\ instr[s] = NoInstr
  /\ valid[s][p]
  /\ mainMemory' = [mainMemory EXCEPT ![physicalPage[s][p]][w] = v]
  /\ UNCHANGED <<status, valid, physicalPage, loadedPages, freeFrame, swapFile,
                 instr, wild>>

(* When it is not, WriteMem loads the page, and the loop then raises a     *)
(* fault for the kernel's source buffer: its address, divided by PageSize, *)
(* indexes the page table far out of its bounds.  What the program does    *)
(* from there is undefined: nothing follows.                               *)
CopyToUserFault(s, p) ==
  /\ Running(s)
  /\ instr[s] = NoInstr
  /\ ~valid[s][p]
  /\ LoadFromExecutable(s, p, <<>>)
  /\ wild' = (status'[s] = "running")

-----------------------------------------------------------------------------
Init ==
  /\ status = [s \in Spaces |-> "none"]
  /\ valid = [s \in Spaces |-> NoPages]
  /\ physicalPage = [s \in Spaces |-> [p \in Pages |-> Unloaded]]
  /\ loadedPages = [s \in Spaces |-> <<>>]
  /\ freeFrame = {}
  /\ mainMemory = [f \in Frames |-> ZeroPage]
  /\ swapFile = [s \in Spaces |-> [p \in Pages |-> ZeroPage]]
  /\ instr = [s \in Spaces |-> NoInstr]
  /\ wild = FALSE

Step(s) ==
  \/ NewAddrSpace(s)
  \/ Exit(s)
  \/ Trap(s)
  \/ \E pages \in Instructions : Issue(s, pages)
  \/ PageFault(s)
  \/ Complete(s)
  \/ \E p \in Pages : CopyFromUser(s, p)
  \/ \E p \in Pages, w \in Words, v \in Stored : CopyToUser(s, p, w, v)
  \/ \E p \in Pages : CopyToUserFault(s, p)

Next == ~wild /\ \E s \in Spaces : Step(s)

Spec == Init /\ [][Next]_vars

(* The ready list is first come first served and the timer preempts a      *)
(* running program, so every program keeps executing its instruction.      *)
Fairness == \A s \in Spaces : WF_vars(~wild /\ (PageFault(s) \/ Complete(s)))

FairSpec == Spec /\ Fairness

-----------------------------------------------------------------------------
(* The type of every variable.                                             *)
TypeOK ==
  /\ status \in [Spaces -> {"none", "running", "starved", "trapped"}]
  /\ valid \in [Spaces -> [Pages -> BOOLEAN]]
  /\ physicalPage \in [Spaces -> [Pages -> Frames \cup {Unloaded, IN_SWAP_FILE}]]
  /\ loadedPages \in [Spaces -> Seq(Pages)]
  /\ freeFrame \in SUBSET Frames
  /\ mainMemory \in [Frames -> [Words -> Value]]
  /\ swapFile \in [Spaces -> [Pages -> [Words -> Value]]]
  /\ instr \in [Spaces -> {NoInstr} \cup Instructions]
  /\ wild \in BOOLEAN

(* The valid bit, which the machine's translation reads, and the frame     *)
(* number, which ~AddrSpace reads, say the same of every page.             *)
TablesAgree ==
  \A s \in Spaces, p \in Pages : valid[s][p] <=> physicalPage[s][p] \in Frames

(* No frame is mapped by two pages, of one address space or of two: a      *)
(* store of one program never lands in a page of another, nor in another   *)
(* page of its own.                                                        *)
OneOwner ==
  \A s, t \in Spaces : \A p, q \in Pages :
    valid[s][p] /\ valid[t][q] /\ physicalPage[s][p] = physicalPage[t][q]
      => s = t /\ p = q

(* A frame is marked in the bitmap exactly when some page table maps it:   *)
(* none is lost by a swap or an exit, none is given out while mapped.  The *)
(* tables of the threads that died without deleting their space count: the *)
(* frames those hold stay marked.                                          *)
MarkedIsMapped ==
  \A f \in Frames :
    f \in freeFrame <=>
      \E s \in Spaces, p \in Pages : valid[s][p] /\ physicalPage[s][p] = f

(* Every resident page is in the queue of its space, so that SwapOut,      *)
(* which looks for its victim there only, cannot miss it.                  *)
ResidentQueued ==
  \A s \in Spaces, p \in Pages :
    valid[s][p] => \E i \in 1 .. Len(loadedPages[s]) : loadedPages[s][i] = p

(* A space that has not started has loaded nothing.                        *)
FreshTables ==
  \A s \in Spaces, p \in Pages : status[s] = "none" => physicalPage[s][p] = Unloaded

(* A page fault ends a thread ("Error loading page") only when every frame *)
(* is marked and the thread itself holds none: as long as it has a page it *)
(* can give up, the fault is served.                                       *)
StarvesOnlyEmptyHanded ==
  [][\A s \in Spaces :
       status[s] = "running" /\ status'[s] = "starved"
         => Resident(s) = {} /\ freeFrame = Frames]_vars

(* Replacement is local: a fault, whoever's, never takes a frame from a    *)
(* running program for good.                                               *)
ResidencyNeverShrinks ==
  [][\A s \in Spaces :
       Running(s) /\ status'[s] = "running"
         => Cardinality(Resident(s)) <= Cardinality(Resident(s)')]_vars

(* An instruction that faults is restarted until it completes, provided    *)
(* its program holds as many frames as the instruction touches pages: the  *)
(* queue never keeps evicting the page the next restart needs.  With fewer *)
(* frames it does, for ever.                                               *)
InstructionCompletes ==
  \A s \in Spaces :
    /\ instr[s] # NoInstr
    /\ Cardinality(Resident(s)) >= Cardinality({instr[s][i] : i \in DOMAIN instr[s]})
    ~> instr[s] = NoInstr \/ wild

-----------------------------------------------------------------------------
(* What the program sees of a page, wherever the page is.                  *)
NoffImage ==
  [s \in Spaces |-> [p \in Pages |-> [w \in Words |->
     IF p * PageSize >= exeSize THEN Zero
     ELSE IF p * PageSize + w < exeSize THEN Image[s][p * PageSize + w]
     ELSE Undef]]]

PageOf(s, p) ==
  IF valid[s][p] THEN mainMemory[physicalPage[s][p]]
  ELSE IF physicalPage[s][p] = IN_SWAP_FILE THEN swapFile[s][p]
  ELSE NoffImage[s][p]

MemoryOf ==
  [s \in Spaces |-> IF Running(s) THEN [p \in Pages |-> PageOf(s, p)] ELSE Absent]

Flat == INSTANCE FlatMemory WITH memory <- MemoryOf, Initial <- NoffImage

(* Faults, evictions, swaps, exits of others and kernel copies are         *)
(* invisible: every program has the private memory FlatMemory specifies.   *)
FlatMemorySpec == Flat!Spec

(* noff.h: the uninitialized data segment "should be zero'ed before use".  *)
(* A resident word past the executable is zero or was stored by a program. *)
UninitDataZeroed ==
  \A s \in Spaces, p \in Pages, w \in Words :
    valid[s][p] /\ p * PageSize + w >= exeSize
      => mainMemory[physicalPage[s][p]][w] \in Stored \cup {Zero}

=============================================================================
