---------------------------- MODULE PagingProofs ----------------------------
(***************************************************************************)
(* Proofs about Paging, for every number of address spaces, pages, frames  *)
(* and words: the inductive invariant, the safety properties that follow   *)
(* from it, and the refinement of FlatMemory.                              *)
(***************************************************************************)
EXTENDS Paging, SequenceTheorems, FiniteSetTheorems, TLAPS

(* No property alone is inductive: that the frame of an evicted page has   *)
(* no other owner needs TablesAgree, that Find gives a frame nobody maps   *)
(* needs MarkedIsMapped, which Exit keeps only when frames have one owner. *)
IInv ==
  /\ TypeOK
  /\ TablesAgree
  /\ OneOwner
  /\ MarkedIsMapped
  /\ ResidentQueued
  /\ FreshTables

-----------------------------------------------------------------------------
(* Lemmas about the operators.                                             *)

LEMMA RotatedKeeps ==
  ASSUME NEW queue \in Seq(Pages), NEW k \in 1 .. Len(queue)
  PROVE  /\ Rotated(queue, k) \in Seq(Pages)
         /\ \A i \in 1 .. Len(queue) : i # k =>
              \E j \in 1 .. Len(Rotated(queue, k)) : Rotated(queue, k)[j] = queue[i]
<1> DEFINE back == SubSeq(queue, k + 1, Len(queue))
           front == SubSeq(queue, 1, k - 1)
<1>1. Len(queue) \in Nat /\ \A i \in 1 .. Len(queue) : queue[i] \in Pages
  BY LenProperties, ElementOfSeq
<1>2. /\ back \in Seq(Pages)
      /\ Len(back) = Len(queue) - k
      /\ \A i \in 1 .. Len(queue) - k : back[i] = queue[k + i]
  <2>1. \A i \in k + 1 .. Len(queue) : queue[i] \in Pages
    BY <1>1
  <2>2. /\ back \in Seq(Pages)
        /\ Len(back) = IF k + 1 <= Len(queue) THEN Len(queue) - (k + 1) + 1 ELSE 0
        /\ \A i \in 1 .. Len(queue) - (k + 1) + 1 : back[i] = queue[(k + 1) + i - 1]
    BY <1>1, <2>1, SubSeqProperties
  <2> QED
    BY <1>1, <2>2
<1>3. /\ front \in Seq(Pages)
      /\ Len(front) = k - 1
      /\ \A i \in 1 .. k - 1 : front[i] = queue[i]
  <2>1. \A i \in 1 .. k - 1 : queue[i] \in Pages
    BY <1>1
  <2>2. /\ front \in Seq(Pages)
        /\ Len(front) = IF 1 <= k - 1 THEN (k - 1) - 1 + 1 ELSE 0
        /\ \A i \in 1 .. (k - 1) - 1 + 1 : front[i] = queue[1 + i - 1]
    BY <1>1, <2>1, SubSeqProperties
  <2> QED
    BY <1>1, <2>2
<1>4. /\ back \o front \in Seq(Pages)
      /\ Len(back \o front) = Len(back) + Len(front)
      /\ \A i \in 1 .. Len(back) + Len(front) :
           (back \o front)[i] = IF i <= Len(back) THEN back[i] ELSE front[i - Len(back)]
  BY <1>2, <1>3, ConcatProperties
<1> HIDE DEF back, front
<1>5. ASSUME NEW i \in 1 .. Len(queue), i # k
      PROVE  \E j \in 1 .. Len(back \o front) : (back \o front)[j] = queue[i]
  <2>1. CASE i > k
    <3>1. /\ i - k \in 1 .. Len(back \o front)
          /\ (back \o front)[i - k] = queue[i]
      BY <1>1, <1>2, <1>3, <1>4, <2>1
    <3> QED
      BY <3>1
  <2>2. CASE i < k
    <3>1. /\ Len(back) + i \in 1 .. Len(back \o front)
          /\ (back \o front)[Len(back) + i] = queue[i]
      BY <1>1, <1>2, <1>3, <1>4, <2>2
    <3> QED
      BY <3>1
  <2> QED
    BY <1>1, <1>5, <2>1, <2>2
<1> QED
  BY <1>4, <1>5 DEF Rotated, back, front

(* What ends up in the frame of a loaded page is a page of words.          *)
LEMMA PageContentType ==
  ASSUME TypeOK, NEW s \in Spaces, NEW p \in Pages, NEW old \in [Words -> Value]
  PROVE  PageContent(s, p, old) \in [Words -> Value]
<1>1. CASE physicalPage[s][p] = IN_SWAP_FILE
  BY <1>1 DEF PageContent, TypeOK
<1>2. CASE physicalPage[s][p] # IN_SWAP_FILE /\ p * PageSize >= exeSize
  BY <1>2, PagingAssumption DEF PageContent, ZeroPage
<1>3. CASE physicalPage[s][p] # IN_SWAP_FILE /\ ~(p * PageSize >= exeSize)
  <2>1. ASSUME NEW w \in Words
        PROVE  (IF p * PageSize + w < exeSize THEN Image[s][p * PageSize + w] ELSE old[w])
                 \in Value
    <3>1. p \in Nat /\ w \in Nat /\ PageSize \in Nat /\ exeSize \in Nat
      BY PagingAssumption DEF Pages, Words
    <3>2. p * PageSize \in Nat
      BY <3>1
    <3>3. p * PageSize + w < exeSize => p * PageSize + w \in 0 .. exeSize - 1
      BY <3>1, <3>2
    <3> QED
      BY <3>3, PagingAssumption
  <2> QED
    BY <1>3, <2>1 DEF PageContent
<1> QED
  BY <1>1, <1>2, <1>3

(* SwapIn's zeroes keep the swap file a file of blocks.                    *)
LEMMA SwapBlocksType ==
  ASSUME TypeOK, NEW s \in Spaces, NEW p \in Pages
  PROVE  SwapBlocks(s, p) \in [Pages -> [Words -> Value]]
<1>1. ZeroPage \in [Words -> Value]
  BY PagingAssumption DEF ZeroPage
<1> QED
  BY <1>1 DEF SwapBlocks, TypeOK

(* The queue of a space after a push keeps what it had.                    *)
LEMMA PushKeeps ==
  ASSUME NEW queue \in Seq(Pages), NEW p \in Pages, NEW again \in Seq(Pages)
  PROVE  /\ Append(queue, p) \in Seq(Pages)
         /\ Len(Append(queue, p)) = Len(queue) + 1
         /\ \A i \in 1 .. Len(queue) : Append(queue, p)[i] = queue[i]
         /\ Append(queue, p)[Len(queue) + 1] = p
         /\ queue \o again \in Seq(Pages)
         /\ \A i \in 1 .. Len(queue) : /\ i \in 1 .. Len(queue \o again)
                                       /\ (queue \o again)[i] = queue[i]
  BY AppendProperties, ConcatProperties, LenProperties

-----------------------------------------------------------------------------
(* A load keeps the invariant, whichever way it finds its frame.           *)

LEMMA LoadIntoClearFrameKeeps ==
  ASSUME IInv, NEW s \in Spaces, NEW p \in Pages, NEW again \in Seq(Pages),
         Running(s), ~valid[s][p], LoadIntoClearFrame(s, p, again), wild' \in BOOLEAN
  PROVE  IInv'
<1> PICK f \in Frames :
      /\ f \in Find
      /\ freeFrame' = freeFrame \cup {f}
      /\ loadedPages' = [loadedPages EXCEPT ![s] = Append(@, p) \o again]
      /\ valid' = [valid EXCEPT ![s][p] = TRUE]
      /\ physicalPage' = [physicalPage EXCEPT ![s][p] = f]
      /\ mainMemory' = [mainMemory EXCEPT ![f] = PageContent(s, p, @)]
      /\ swapFile' = [swapFile EXCEPT ![s] = SwapBlocks(s, p)]
      /\ UNCHANGED <<status, instr>>
  BY DEF LoadIntoClearFrame, Find
<1>1. f \notin freeFrame
  BY DEF Find
<1>2. TypeOK'
  <2>1. mainMemory' \in [Frames -> [Words -> Value]]
    BY PageContentType DEF IInv, TypeOK
  <2>2. swapFile' \in [Spaces -> [Pages -> [Words -> Value]]]
    BY SwapBlocksType DEF IInv, TypeOK
  <2>3. Append(loadedPages[s], p) \o again \in Seq(Pages)
    BY AppendProperties, ConcatProperties DEF IInv, TypeOK
  <2> QED
    BY <2>1, <2>2, <2>3 DEF IInv, TypeOK
<1>3. /\ \A t \in Spaces, q \in Pages : ~(t = s /\ q = p) =>
           valid'[t][q] = valid[t][q] /\ physicalPage'[t][q] = physicalPage[t][q]
      /\ valid'[s][p] /\ physicalPage'[s][p] = f
  BY DEF IInv, TypeOK
<1>4. TablesAgree'
  BY <1>3 DEF IInv, TablesAgree, Frames, TypeOK
<1>5. \A t \in Spaces, q \in Pages : valid[t][q] => physicalPage[t][q] # f
  BY <1>1 DEF IInv, MarkedIsMapped
<1>6. OneOwner'
  BY <1>3, <1>5 DEF IInv, OneOwner
<1>7. MarkedIsMapped'
  BY <1>3 DEF IInv, MarkedIsMapped, Frames
<1>8. ResidentQueued'
  <2> SUFFICES ASSUME NEW t \in Spaces, NEW q \in Pages, valid'[t][q]
               PROVE  \E i \in 1 .. Len(loadedPages'[t]) : loadedPages'[t][i] = q
    BY DEF ResidentQueued
  <2> DEFINE queue == Append(loadedPages[s], p)
  <2>1. loadedPages[s] \in Seq(Pages) /\ Len(loadedPages[s]) \in Nat
    BY LenProperties DEF IInv, TypeOK
  <2>2. /\ queue \in Seq(Pages)
        /\ Len(queue) = Len(loadedPages[s]) + 1
        /\ \A i \in 1 .. Len(loadedPages[s]) : queue[i] = loadedPages[s][i]
        /\ queue[Len(loadedPages[s]) + 1] = p
    BY <2>1, PushKeeps
  <2> HIDE DEF queue
  <2>3. \A i \in 1 .. Len(queue) : /\ i \in 1 .. Len(queue \o again)
                                   /\ (queue \o again)[i] = queue[i]
    BY <2>2, PushKeeps
  <2>4. loadedPages'[s] = queue \o again
    BY DEF IInv, TypeOK, queue
  <2>5. CASE t # s
    BY <1>3, <2>5 DEF IInv, TypeOK, ResidentQueued
  <2>6. CASE t = s /\ q = p
    <3>1. Len(loadedPages[s]) + 1 \in 1 .. Len(queue)
      BY <2>1, <2>2
    <3> QED
      BY <2>2, <2>3, <2>4, <2>6, <3>1
  <2>7. CASE t = s /\ q # p
    <3>1. PICK i \in 1 .. Len(loadedPages[s]) : loadedPages[s][i] = q
      BY <1>3, <2>7 DEF IInv, ResidentQueued
    <3>2. i \in 1 .. Len(queue) /\ queue[i] = q
      BY <2>1, <2>2, <3>1
    <3> QED
      BY <2>3, <2>4, <2>7, <3>2
  <2> QED
    BY <2>5, <2>6, <2>7
<1>9. FreshTables'
  BY <1>3 DEF IInv, FreshTables, Running
<1> QED
  BY <1>2, <1>4, <1>6, <1>7, <1>8, <1>9 DEF IInv

LEMMA LoadOverVictimKeeps ==
  ASSUME IInv, NEW s \in Spaces, NEW p \in Pages, NEW again \in Seq(Pages),
         Running(s), ~valid[s][p], LoadOverVictim(s, p, again), wild' \in BOOLEAN
  PROVE  IInv'
<1> DEFINE queue == Append(loadedPages[s], p)
<1>0. /\ loadedPages[s] \in Seq(Pages) /\ Len(loadedPages[s]) \in Nat
      /\ queue \in Seq(Pages)
      /\ Len(queue) = Len(loadedPages[s]) + 1
      /\ \A i \in 1 .. Len(loadedPages[s]) : queue[i] = loadedPages[s][i]
      /\ queue[Len(loadedPages[s]) + 1] = p
  <2>1. loadedPages[s] \in Seq(Pages) /\ Len(loadedPages[s]) \in Nat
    BY LenProperties DEF IInv, TypeOK
  <2> QED
    BY <2>1, PushKeeps
<1>1. \A k \in 1 .. Len(queue) : IsVictim(s, queue, k) =>
        queue[k] \in Pages /\ valid[s][queue[k]] /\ physicalPage[s][queue[k]] \in Frames
  <2> SUFFICES ASSUME NEW k \in 1 .. Len(queue), IsVictim(s, queue, k)
               PROVE  /\ queue[k] \in Pages
                      /\ valid[s][queue[k]]
                      /\ physicalPage[s][queue[k]] \in Frames
    OBVIOUS
  <2>1. queue[k] \in Pages
    BY <1>0, ElementOfSeq
  <2> QED
    BY <2>1 DEF IsVictim, IInv, TablesAgree
<1>2. PICK k \in 1 .. Len(queue), victim \in Pages, f \in Frames :
        /\ victim = queue[k] /\ f = physicalPage[s][victim]
        /\ valid[s][victim]
        /\ loadedPages' = [loadedPages EXCEPT ![s] = Rotated(queue, k) \o again]
        /\ valid' = [valid EXCEPT ![s] = Replaced(@, victim, p)]
        /\ physicalPage' = [physicalPage EXCEPT
             ![s] = [@ EXCEPT ![victim] = IN_SWAP_FILE, ![p] = f]]
        /\ mainMemory' = [mainMemory EXCEPT ![f] = PageContent(s, p, @)]
        /\ swapFile' = [swapFile EXCEPT
             ![s] = [SwapBlocks(s, p) EXCEPT ![victim] = mainMemory[f]]]
        /\ UNCHANGED <<status, freeFrame, instr>>
  BY <1>1 DEF LoadOverVictim
<1>3. /\ valid' \in [Spaces -> [Pages -> BOOLEAN]]
      /\ physicalPage' \in [Spaces -> [Pages -> Frames \cup {Unloaded, IN_SWAP_FILE}]]
      /\ valid'[s][p] /\ physicalPage'[s][p] = f
      /\ ~valid'[s][victim] /\ physicalPage'[s][victim] = IN_SWAP_FILE
      /\ \A t \in Spaces, q \in Pages : ~(t = s /\ q \in {p, victim}) =>
           valid'[t][q] = valid[t][q] /\ physicalPage'[t][q] = physicalPage[t][q]
  <2>1. victim # p
    BY <1>2
  <2>2. TypeOK
    BY DEF IInv
  <2> QED
    BY <1>2, <2>1, <2>2 DEF TypeOK, Replaced
<1>4. /\ Rotated(queue, k) \in Seq(Pages)
      /\ \A i \in 1 .. Len(queue) : i # k =>
           \E j \in 1 .. Len(Rotated(queue, k)) : Rotated(queue, k)[j] = queue[i]
  BY <1>0, RotatedKeeps
<1>5. TypeOK'
  <2>1. mainMemory' \in [Frames -> [Words -> Value]]
    BY <1>2, PageContentType DEF IInv, TypeOK
  <2>2. swapFile' \in [Spaces -> [Pages -> [Words -> Value]]]
    <3>1. [SwapBlocks(s, p) EXCEPT ![victim] = mainMemory[f]] \in [Pages -> [Words -> Value]]
      BY <1>2, SwapBlocksType DEF IInv, TypeOK
    <3> QED
      BY <1>2, <3>1 DEF IInv, TypeOK
  <2>3. Rotated(queue, k) \o again \in Seq(Pages)
    BY <1>4, ConcatProperties
  <2>4. loadedPages' \in [Spaces -> Seq(Pages)]
    BY <1>2, <2>3 DEF IInv, TypeOK
  <2> QED
    BY <1>2, <1>3, <2>1, <2>2, <2>4 DEF IInv, TypeOK
<1> HIDE DEF queue
<1>6. TablesAgree'
  <2>1. IN_SWAP_FILE \notin Frames
    BY DEF IN_SWAP_FILE, Frames
  <2> QED
    BY <1>2, <1>3, <2>1 DEF IInv, TablesAgree
<1>7. \A t \in Spaces, q \in Pages :
        valid[t][q] /\ physicalPage[t][q] = f => t = s /\ q = victim
  BY <1>2 DEF IInv, OneOwner
<1>8. OneOwner'
  <2> SUFFICES ASSUME NEW t \in Spaces, NEW u \in Spaces, NEW q \in Pages, NEW r \in Pages,
                      valid'[t][q], valid'[u][r], physicalPage'[t][q] = physicalPage'[u][r]
               PROVE  t = u /\ q = r
    BY DEF OneOwner
  <2>1. CASE t = s /\ q = p
    BY <1>2, <1>3, <1>7, <2>1
  <2>2. CASE u = s /\ r = p
    BY <1>2, <1>3, <1>7, <2>2
  <2>3. CASE ~(t = s /\ q = p) /\ ~(u = s /\ r = p)
    <3>1. ~(t = s /\ q \in {p, victim}) /\ ~(u = s /\ r \in {p, victim})
      BY <1>3, <2>3
    <3>2. /\ valid[t][q] /\ valid[u][r]
          /\ physicalPage[t][q] = physicalPage[u][r]
      BY <1>3, <3>1
    <3> QED
      BY <3>2 DEF IInv, OneOwner
  <2> QED
    BY <2>1, <2>2, <2>3
<1>9. MarkedIsMapped'
  <2> SUFFICES ASSUME NEW g \in Frames
               PROVE  g \in freeFrame <=>
                        \E t \in Spaces, q \in Pages : valid'[t][q] /\ physicalPage'[t][q] = g
    BY <1>2 DEF MarkedIsMapped
  <2>1. CASE g = f
    <3>1. f \in freeFrame
      BY <1>2 DEF IInv, MarkedIsMapped
    <3> QED
      BY <1>3, <2>1, <3>1
  <2>2. CASE g # f
    <3>1. ASSUME NEW t \in Spaces, NEW q \in Pages, valid[t][q], physicalPage[t][q] = g
          PROVE  valid'[t][q] /\ physicalPage'[t][q] = g
      BY <1>2, <1>3, <2>2, <3>1
    <3>2. ASSUME NEW t \in Spaces, NEW q \in Pages, valid'[t][q], physicalPage'[t][q] = g
          PROVE  valid[t][q] /\ physicalPage[t][q] = g
      BY <1>2, <1>3, <2>2, <3>2
    <3> QED
      BY <3>1, <3>2 DEF IInv, MarkedIsMapped
  <2> QED
    BY <2>1, <2>2
<1>10. ResidentQueued'
  <2> SUFFICES ASSUME NEW t \in Spaces, NEW q \in Pages, valid'[t][q]
               PROVE  \E i \in 1 .. Len(loadedPages'[t]) : loadedPages'[t][i] = q
    BY DEF ResidentQueued
  <2>1. CASE t # s
    BY <1>2, <1>3, <2>1 DEF IInv, TypeOK, ResidentQueued
  <2>2. CASE t = s
    <3>1. PICK i \in 1 .. Len(queue) : queue[i] = q
      <4>1. CASE q = p
        <5>1. Len(loadedPages[s]) + 1 \in 1 .. Len(queue)
          BY <1>0
        <5> QED
          BY <1>0, <4>1, <5>1
      <4>2. CASE q # p
        <5>1. valid[s][q]
          BY <1>3, <2>2, <4>2
        <5>2. PICK i \in 1 .. Len(loadedPages[s]) : loadedPages[s][i] = q
          BY <5>1 DEF IInv, ResidentQueued
        <5>3. i \in 1 .. Len(queue) /\ queue[i] = q
          BY <1>0, <5>2
        <5> QED
          BY <5>3
      <4> QED
        BY <4>1, <4>2
    <3>2. i # k
      BY <1>2, <1>3, <2>2, <3>1
    <3>3. PICK j \in 1 .. Len(Rotated(queue, k)) : Rotated(queue, k)[j] = q
      BY <1>4, <3>1, <3>2
    <3>4. /\ j \in 1 .. Len(Rotated(queue, k) \o again)
          /\ (Rotated(queue, k) \o again)[j] = q
      BY <1>4, <3>3, PushKeeps, ConcatProperties, LenProperties
    <3>5. loadedPages'[s] = Rotated(queue, k) \o again
      BY <1>2 DEF IInv, TypeOK
    <3> QED
      BY <2>2, <3>4, <3>5
  <2> QED
    BY <2>1, <2>2
<1>11. FreshTables'
  BY <1>2, <1>3 DEF IInv, FreshTables, Running
<1> QED
  BY <1>5, <1>6, <1>8, <1>9, <1>10, <1>11 DEF IInv

(* A thread that starves leaves its tables as they are.                    *)
LEMMA StarveKeeps ==
  ASSUME IInv, NEW s \in Spaces, NEW p \in Pages, Starve(s, p), wild' \in BOOLEAN
  PROVE  IInv'
<1>1. loadedPages[s] \in Seq(Pages) /\ Len(loadedPages[s]) \in Nat
  BY LenProperties DEF IInv, TypeOK
<1>2. /\ Append(loadedPages[s], p) \in Seq(Pages)
      /\ Len(Append(loadedPages[s], p)) = Len(loadedPages[s]) + 1
      /\ \A i \in 1 .. Len(loadedPages[s]) : Append(loadedPages[s], p)[i] = loadedPages[s][i]
  BY <1>1, AppendProperties
<1>3. TypeOK'
  BY <1>2 DEF Starve, IInv, TypeOK, NoInstr
<1>4. ResidentQueued'
  <2> SUFFICES ASSUME NEW t \in Spaces, NEW q \in Pages, valid[t][q]
               PROVE  \E i \in 1 .. Len(loadedPages'[t]) : loadedPages'[t][i] = q
    BY DEF ResidentQueued, Starve
  <2>1. PICK i \in 1 .. Len(loadedPages[t]) : loadedPages[t][i] = q
    BY DEF IInv, ResidentQueued
  <2>2. i \in 1 .. Len(loadedPages'[t]) /\ loadedPages'[t][i] = q
    BY <1>1, <1>2, <2>1 DEF Starve, IInv, TypeOK
  <2> QED
    BY <2>2
<1>5. TablesAgree' /\ OneOwner' /\ MarkedIsMapped'
  BY DEF Starve, IInv, TablesAgree, OneOwner, MarkedIsMapped
<1>6. FreshTables'
  BY DEF Starve, IInv, TypeOK, FreshTables
<1> QED
  BY <1>3, <1>4, <1>5, <1>6 DEF IInv

LEMMA LoadKeeps ==
  ASSUME IInv, NEW s \in Spaces, NEW p \in Pages, NEW again \in Seq(Pages),
         Running(s), ~valid[s][p], LoadFromExecutable(s, p, again), wild' \in BOOLEAN
  PROVE  IInv'
  BY LoadIntoClearFrameKeeps, LoadOverVictimKeeps, StarveKeeps DEF LoadFromExecutable

-----------------------------------------------------------------------------
(* The other actions.                                                      *)

(* ~AddrSpace reads the frames to clear off physicalPage, the machine off  *)
(* the valid bits: the tables agree, so the frames cleared are exactly     *)
(* those of the space, and no other space maps any of them.                *)
LEMMA ExitKeeps ==
  ASSUME IInv, NEW s \in Spaces, Exit(s)
  PROVE  IInv'
<1>1. \A g \in Frames : g \in Held(s) <=> \E p \in Pages : valid[s][p] /\ physicalPage[s][p] = g
  <2>1. \A p \in Pages : physicalPage[s][p] \in Frames <=>
                           physicalPage[s][p] \notin {Unloaded, IN_SWAP_FILE}
    BY DEF IInv, TypeOK, Frames, Unloaded, IN_SWAP_FILE
  <2> QED
    BY <2>1 DEF IInv, TablesAgree, Held
<1>2. /\ freeFrame' = freeFrame \ Held(s)
      /\ \A t \in Spaces, p \in Pages : valid'[t][p] <=> t # s /\ valid[t][p]
      /\ \A t \in Spaces : t # s => /\ physicalPage'[t] = physicalPage[t]
                                    /\ loadedPages'[t] = loadedPages[t]
      /\ \A p \in Pages : physicalPage'[s][p] = Unloaded
  BY DEF Exit, IInv, TypeOK, NoPages
<1>3. TypeOK'
  <2>1. ZeroPage \in [Words -> Value]
    BY PagingAssumption DEF ZeroPage
  <2>2. <<>> \in Seq(Pages)
    BY EmptySeq
  <2>3. freeFrame' \in SUBSET Frames
    BY <1>2 DEF IInv, TypeOK
  <2> QED
    BY <2>1, <2>2, <2>3 DEF Exit, IInv, TypeOK, NoPages
<1>4. TablesAgree'
  <2>1. Unloaded \notin Frames
    BY DEF Unloaded, Frames
  <2> QED
    BY <1>2, <2>1 DEF IInv, TablesAgree
<1>5. OneOwner'
  BY <1>2 DEF IInv, OneOwner
<1>6. MarkedIsMapped'
  <2> SUFFICES ASSUME NEW g \in Frames
               PROVE  g \in freeFrame' <=>
                        \E t \in Spaces, q \in Pages : valid'[t][q] /\ physicalPage'[t][q] = g
    BY DEF MarkedIsMapped
  <2>1. ASSUME g \in freeFrame'
        PROVE  \E t \in Spaces, q \in Pages : valid'[t][q] /\ physicalPage'[t][q] = g
    BY <1>1, <1>2, <2>1 DEF IInv, MarkedIsMapped
  <2>2. ASSUME NEW t \in Spaces, NEW q \in Pages, valid'[t][q], physicalPage'[t][q] = g
        PROVE  g \in freeFrame'
    <3>1. t # s /\ valid[t][q] /\ physicalPage[t][q] = g
      BY <1>2, <2>2
    <3>2. g \notin Held(s)
      BY <1>1, <3>1 DEF IInv, OneOwner
    <3> QED
      BY <1>2, <3>1, <3>2 DEF IInv, MarkedIsMapped
  <2> QED
    BY <2>1, <2>2
<1>7. ResidentQueued'
  BY <1>2 DEF IInv, ResidentQueued
<1>8. FreshTables'
  BY <1>2 DEF Exit, IInv, TypeOK, FreshTables
<1> QED
  BY <1>3, <1>4, <1>5, <1>6, <1>7, <1>8 DEF IInv

(* The steps that touch no page table, bitmap or queue.                    *)
LEMMA TablesUnchanged ==
  ASSUME IInv, TypeOK', UNCHANGED <<valid, physicalPage, loadedPages, freeFrame>>,
         \A s \in Spaces : status'[s] = "none" => status[s] = "none"
  PROVE  IInv'
  BY DEF IInv, TablesAgree, OneOwner, MarkedIsMapped, ResidentQueued, FreshTables

(* A program's store, or the kernel's on its behalf, is a word.            *)
LEMMA StoreType ==
  ASSUME TypeOK, NEW s \in Spaces, NEW p \in Pages, NEW w \in Words, NEW v \in Stored
  PROVE  [mainMemory EXCEPT ![physicalPage[s][p]][w] = v] \in [Frames -> [Words -> Value]]
  BY PagingAssumption DEF TypeOK

LEMMA InitKeeps == Init => IInv
<1> SUFFICES ASSUME Init
             PROVE  IInv
  OBVIOUS
<1>1. TypeOK
  <2>1. ZeroPage \in [Words -> Value]
    BY PagingAssumption DEF ZeroPage
  <2>2. <<>> \in Seq(Pages)
    BY EmptySeq
  <2> QED
    BY <2>1, <2>2 DEF Init, TypeOK, NoPages
<1>2. TablesAgree /\ OneOwner /\ MarkedIsMapped /\ ResidentQueued /\ FreshTables
  BY DEF Init, NoPages, TablesAgree, OneOwner, MarkedIsMapped, ResidentQueued, FreshTables,
         Unloaded, Frames
<1> QED
  BY <1>1, <1>2 DEF IInv

LEMMA StepKeeps ==
  ASSUME IInv, NEW s \in Spaces, Step(s)
  PROVE  IInv'
<1>0. TypeOK
  BY DEF IInv
<1>1. CASE NewAddrSpace(s)
  <2>1. ZeroPage \in [Words -> Value]
    BY PagingAssumption DEF ZeroPage
  <2>2. TypeOK'
    BY <1>0, <1>1, <2>1 DEF NewAddrSpace, TypeOK
  <2> QED
    BY <1>0, <1>1, <2>2, TablesUnchanged DEF NewAddrSpace, TypeOK
<1>2. CASE Exit(s)
  BY <1>2, ExitKeeps
<1>3. CASE Trap(s)
  <2>1. TypeOK'
    BY <1>0, <1>3 DEF Trap, TypeOK
  <2> QED
    BY <1>0, <1>3, <2>1, TablesUnchanged DEF Trap, TypeOK
<1>4. ASSUME NEW pages \in Instructions, Issue(s, pages)
      PROVE  IInv'
  <2>1. TypeOK'
    BY <1>0, <1>4 DEF Issue, TypeOK
  <2> QED
    BY <1>4, <2>1, TablesUnchanged DEF Issue
<1>5. CASE PageFault(s)
  <2>1. FaultingPage(s) \in Pages
    BY <1>0, <1>5, PagingAssumption DEF PageFault, FaultingPage, TypeOK
  <2>2. <<>> \in Seq(Pages) /\ wild' \in BOOLEAN
    BY <1>0, <1>5, EmptySeq DEF PageFault, TypeOK
  <2> QED
    BY <1>5, <2>1, <2>2, LoadKeeps DEF PageFault
<1>6. CASE Complete(s)
  <2>1. PICK p \in Pages : instr[s][2] = p
    BY <1>0, <1>6, PagingAssumption DEF Complete, TypeOK
  <2>2. mainMemory' \in [Frames -> [Words -> Value]]
    <3>1. CASE UNCHANGED mainMemory
      BY <1>0, <3>1 DEF TypeOK
    <3>2. ASSUME NEW w \in Words, NEW v \in Stored,
                 mainMemory' = [mainMemory EXCEPT ![physicalPage[s][p]][w] = v]
          PROVE  mainMemory' \in [Frames -> [Words -> Value]]
      BY <1>0, <3>2, StoreType
    <3> QED
      BY <1>6, <2>1, <3>1, <3>2 DEF Complete
  <2>3. TypeOK'
    BY <1>0, <1>6, <2>2 DEF Complete, TypeOK
  <2> QED
    BY <1>6, <2>3, TablesUnchanged DEF Complete
<1>7. ASSUME NEW p \in Pages, CopyFromUser(s, p)
      PROVE  IInv'
  <2>1. <<p>> \in Seq(Pages) /\ wild' \in BOOLEAN
    BY <1>0, <1>7 DEF CopyFromUser, TypeOK
  <2> QED
    BY <1>7, <2>1, LoadKeeps DEF CopyFromUser
<1>8. ASSUME NEW p \in Pages, NEW w \in Words, NEW v \in Stored, CopyToUser(s, p, w, v)
      PROVE  IInv'
  <2>1. TypeOK'
    BY <1>0, <1>8, StoreType DEF CopyToUser, TypeOK
  <2> QED
    BY <1>8, <2>1, TablesUnchanged DEF CopyToUser
<1>9. ASSUME NEW p \in Pages, CopyToUserFault(s, p)
      PROVE  IInv'
  <2>1. <<>> \in Seq(Pages) /\ wild' \in BOOLEAN
    BY <1>9, EmptySeq DEF CopyToUserFault
  <2> QED
    BY <1>9, <2>1, LoadKeeps DEF CopyToUserFault
<1> QED
  BY <1>1, <1>2, <1>3, <1>4, <1>5, <1>6, <1>7, <1>8, <1>9 DEF Step

LEMMA StutterKeeps == IInv /\ UNCHANGED vars => IInv'
  BY DEF IInv, vars, TypeOK, TablesAgree, OneOwner, MarkedIsMapped, ResidentQueued,
         FreshTables

-----------------------------------------------------------------------------
(* The invariant that carries every other result: types, the agreement of  *)
(* the valid bits with the frame numbers, one owner per frame, the bitmap  *)
(* in step with the page tables, every resident page in its queue.         *)
THEOREM Invariance == Spec => []IInv
<1>1. Init => IInv
  BY InitKeeps
<1>2. IInv /\ [Next]_vars => IInv'
  BY StepKeeps, StutterKeeps DEF Next
<1> QED
  BY <1>1, <1>2, PTL DEF Spec

(* Every variable keeps its type.                                          *)
THEOREM TypeCorrect == Spec => []TypeOK
<1>1. IInv => TypeOK
  BY DEF IInv
<1> QED
  BY <1>1, Invariance, PTL

(* Whatever the programs do, no frame is ever mapped by two pages.         *)
THEOREM FramesHaveOneOwner == Spec => []OneOwner
<1>1. IInv => OneOwner
  BY DEF IInv
<1> QED
  BY <1>1, Invariance, PTL

(* The bitmap of frames marks exactly the frames the page tables map.      *)
THEOREM BitmapIsExact == Spec => []MarkedIsMapped
<1>1. IInv => MarkedIsMapped
  BY DEF IInv
<1> QED
  BY <1>1, Invariance, PTL

(* Every resident page stays in the queue SwapOut searches.                *)
THEOREM ResidentPagesAreQueued == Spec => []ResidentQueued
<1>1. IInv => ResidentQueued
  BY DEF IInv
<1> QED
  BY <1>1, Invariance, PTL

-----------------------------------------------------------------------------
(* Starvation.                                                             *)

(* SwapOut finds no valid page in the queue only if there is none at all.  *)
LEMMA StarveEmptyHanded ==
  ASSUME IInv, NEW s \in Spaces, NEW p \in Pages, Starve(s, p)
  PROVE  Resident(s) = {} /\ freeFrame = Frames
<1> SUFFICES ASSUME NEW q \in Pages, valid[s][q]
             PROVE  FALSE
  BY DEF Starve, Resident
<1>1. PICK i \in 1 .. Len(loadedPages[s]) : loadedPages[s][i] = q
  BY DEF IInv, ResidentQueued
<1>2. loadedPages[s] \in Seq(Pages) /\ Len(loadedPages[s]) \in Nat
  BY LenProperties DEF IInv, TypeOK
<1>3. i \in 1 .. Len(Append(loadedPages[s], p)) /\ Append(loadedPages[s], p)[i] = q
  BY <1>1, <1>2, AppendProperties
<1> QED
  BY <1>3 DEF Starve, NoVictim

LEMMA LoadStarves ==
  ASSUME IInv, NEW s \in Spaces, NEW p \in Pages, NEW again, Running(s),
         LoadFromExecutable(s, p, again), NEW t \in Spaces, status'[t] = "starved",
         status[t] = "running"
  PROVE  Resident(t) = {} /\ freeFrame = Frames
<1>1. Starve(s, p)
  BY DEF LoadFromExecutable, LoadIntoClearFrame, LoadOverVictim
<1>2. t = s
  BY <1>1 DEF Starve, IInv, TypeOK
<1> QED
  BY <1>1, <1>2, StarveEmptyHanded

(* A page fault ends a thread only if every frame is marked and the thread *)
(* maps none of them.                                                      *)
THEOREM StarvationNeedsFullMemory == Spec => StarvesOnlyEmptyHanded
<1> DEFINE Fair == \A s \in Spaces :
      status[s] = "running" /\ status'[s] = "starved"
        => Resident(s) = {} /\ freeFrame = Frames
<1>1. ASSUME IInv, [Next]_vars
      PROVE  [Fair]_vars
  <2>1. CASE UNCHANGED vars
    BY <2>1
  <2>2. ASSUME NEW s \in Spaces, Step(s), NEW t \in Spaces,
               status[t] = "running", status'[t] = "starved"
        PROVE  Resident(t) = {} /\ freeFrame = Frames
    <3>1. CASE NewAddrSpace(s) \/ Exit(s) \/ Trap(s) \/ Complete(s)
      BY <1>1, <2>2, <3>1 DEF NewAddrSpace, Exit, Trap, Complete, IInv, TypeOK
    <3>2. ASSUME NEW pages \in Instructions, Issue(s, pages)
          PROVE  FALSE
      BY <2>2, <3>2 DEF Issue
    <3>3. CASE PageFault(s)
      <4>1. PICK p \in Pages : p = FaultingPage(s)
        BY <1>1, <3>3, PagingAssumption DEF PageFault, FaultingPage, IInv, TypeOK
      <4> QED
        BY <1>1, <2>2, <3>3, <4>1, LoadStarves DEF PageFault
    <3>4. ASSUME NEW p \in Pages, CopyFromUser(s, p)
          PROVE  Resident(t) = {} /\ freeFrame = Frames
      BY <1>1, <2>2, <3>4, LoadStarves DEF CopyFromUser
    <3>5. ASSUME NEW p \in Pages, NEW w \in Words, NEW v \in Stored, CopyToUser(s, p, w, v)
          PROVE  FALSE
      BY <2>2, <3>5 DEF CopyToUser
    <3>6. ASSUME NEW p \in Pages, CopyToUserFault(s, p)
          PROVE  Resident(t) = {} /\ freeFrame = Frames
      BY <1>1, <2>2, <3>6, LoadStarves DEF CopyToUserFault
    <3> QED
      BY <2>2, <3>1, <3>2, <3>3, <3>4, <3>5, <3>6 DEF Step
  <2> QED
    BY <1>1, <2>1, <2>2 DEF Next
<1> QED
  BY <1>1, Invariance, PTL DEF Spec, StarvesOnlyEmptyHanded

-----------------------------------------------------------------------------
(* Replacement.                                                            *)

(* A set gains an element, or exchanges one for another.                   *)
GainsOrExchanges(before, after) ==
  \E p \in Pages \ before :
    \/ after = before \cup {p}
    \/ \E victim \in before : after = (before \ {victim}) \cup {p}

LEMMA NeverSmaller ==
  ASSUME NEW before \in SUBSET Pages, NEW after, GainsOrExchanges(before, after)
  PROVE  Cardinality(before) <= Cardinality(after)
<1>1. IsFiniteSet(before)
  <2>1. IsFiniteSet(Pages)
    BY FS_Interval, PagingAssumption DEF Pages
  <2> QED
    BY <2>1, FS_Subset
<1>2. PICK p \in Pages \ before :
        \/ after = before \cup {p}
        \/ \E victim \in before : after = (before \ {victim}) \cup {p}
  BY DEF GainsOrExchanges
<1>3. PICK n \in Nat : n = Cardinality(before)
  BY <1>1, FS_CardinalityType
<1>4. CASE after = before \cup {p}
  <2>1. Cardinality(after) = n + 1
    BY <1>1, <1>2, <1>3, <1>4, FS_AddElement
  <2> QED
    BY <1>3, <2>1
<1>5. ASSUME NEW victim \in before, after = (before \ {victim}) \cup {p}
      PROVE  Cardinality(before) <= Cardinality(after)
  <2>1. PICK rest : rest = before \ {victim}
    OBVIOUS
  <2>2. IsFiniteSet(rest) /\ Cardinality(rest) = n - 1
    BY <1>1, <1>3, <2>1, FS_RemoveElement
  <2>3. p \notin rest /\ after = rest \cup {p}
    BY <1>2, <1>5, <2>1
  <2>4. Cardinality(after) = (n - 1) + 1
    BY <2>2, <2>3, FS_AddElement
  <2> QED
    BY <1>3, <2>4
<1> QED
  BY <1>2, <1>4, <1>5

(* A load maps the page, and unmaps one other at most, of the same space.  *)
LEMMA LoadExchanges ==
  ASSUME IInv, NEW s \in Spaces, NEW p \in Pages, NEW again, ~valid[s][p],
         LoadFromExecutable(s, p, again), NEW t \in Spaces, status'[t] = "running"
  PROVE  valid'[t] = valid[t] \/ GainsOrExchanges(Resident(t), Resident(t)')
<1>1. valid \in [Spaces -> [Pages -> BOOLEAN]] /\ p \in Pages \ Resident(s)
  BY DEF IInv, TypeOK, Resident
<1>2. CASE LoadIntoClearFrame(s, p, again)
  <2>1. valid' = [valid EXCEPT ![s][p] = TRUE]
    BY <1>2 DEF LoadIntoClearFrame
  <2>2. CASE t = s
    <3>1. Resident(t)' = Resident(t) \cup {p}
      BY <1>1, <2>1, <2>2 DEF Resident
    <3> QED
      BY <1>1, <2>2, <3>1 DEF GainsOrExchanges
  <2> QED
    BY <1>1, <2>1, <2>2
<1>3. CASE LoadOverVictim(s, p, again)
  <2>1. PICK queue : queue = Append(loadedPages[s], p)
    OBVIOUS
  <2>2. PICK k \in 1 .. Len(queue) :
          valid[s][queue[k]] /\ valid' = [valid EXCEPT ![s] = Replaced(@, queue[k], p)]
    BY <1>3, <2>1 DEF LoadOverVictim, IsVictim
  <2>3. queue \in Seq(Pages)
    BY <2>1, AppendProperties DEF IInv, TypeOK
  <2>4. PICK victim \in Pages : victim = queue[k]
    BY <2>3, ElementOfSeq
  <2>5. victim \in Resident(s) /\ victim # p
    BY <1>1, <2>2, <2>4 DEF Resident
  <2>6. CASE t = s
    <3>1. valid'[s] = [valid[s] EXCEPT ![victim] = FALSE, ![p] = TRUE]
      BY <1>1, <2>2, <2>4 DEF Replaced
    <3>2. Resident(t)' = (Resident(t) \ {victim}) \cup {p}
      BY <1>1, <2>5, <2>6, <3>1 DEF Resident
    <3> QED
      BY <1>1, <2>5, <2>6, <3>2 DEF GainsOrExchanges
  <2> QED
    BY <1>1, <2>2, <2>6
<1>4. CASE Starve(s, p)
  BY <1>4 DEF Starve
<1> QED
  BY <1>2, <1>3, <1>4 DEF LoadFromExecutable

(* A program that goes on running keeps as many frames as it had: a fault  *)
(* replaces pages of its own space only.                                   *)
THEOREM ReplacementIsLocal == Spec => ResidencyNeverShrinks
<1> DEFINE Fair == \A s \in Spaces :
      Running(s) /\ status'[s] = "running" => Cardinality(Resident(s)) <= Cardinality(Resident(s)')
<1>1. ASSUME IInv, NEW t \in Spaces, valid'[t] = valid[t]
      PROVE  Cardinality(Resident(t)) <= Cardinality(Resident(t)')
  <2>1. Resident(t)' = Resident(t)
    BY <1>1 DEF Resident
  <2>2. Cardinality(Resident(t)) \in Nat
    <3>1. IsFiniteSet(Pages)
      BY FS_Interval, PagingAssumption DEF Pages
    <3>2. Resident(t) \subseteq Pages
      BY DEF Resident
    <3> QED
      BY <3>1, <3>2, FS_Subset, FS_CardinalityType
  <2>3. PICK n \in Nat : n = Cardinality(Resident(t))
    BY <2>2
  <2> QED
    BY <2>1, <2>3
<1>2. ASSUME IInv, NEW s \in Spaces, Step(s), NEW t \in Spaces, Running(t), status'[t] = "running"
      PROVE  valid'[t] = valid[t] \/ GainsOrExchanges(Resident(t), Resident(t)')
  <2>1. CASE NewAddrSpace(s) \/ Trap(s) \/ Complete(s)
    BY <2>1 DEF NewAddrSpace, Trap, Complete
  <2>2. CASE Exit(s)
    <3>1. t # s
      BY <1>2, <2>2 DEF Exit, IInv, TypeOK
    <3> QED
      BY <1>2, <2>2, <3>1 DEF Exit, IInv, TypeOK
  <2>3. ASSUME NEW pages \in Instructions, Issue(s, pages)
        PROVE  valid'[t] = valid[t]
    BY <2>3 DEF Issue
  <2>4. CASE PageFault(s)
    <3>1. PICK p \in Pages : p = FaultingPage(s)
      BY <1>2, <2>4, PagingAssumption DEF PageFault, FaultingPage, IInv, TypeOK
    <3> QED
      BY <1>2, <2>4, <3>1, LoadExchanges DEF PageFault
  <2>5. ASSUME NEW p \in Pages, CopyFromUser(s, p) \/ CopyToUserFault(s, p)
        PROVE  valid'[t] = valid[t] \/ GainsOrExchanges(Resident(t), Resident(t)')
    BY <1>2, <2>5, LoadExchanges DEF CopyFromUser, CopyToUserFault
  <2>6. ASSUME NEW p \in Pages, NEW w \in Words, NEW v \in Stored, CopyToUser(s, p, w, v)
        PROVE  valid'[t] = valid[t]
    BY <2>6 DEF CopyToUser
  <2> QED
    BY <1>2, <2>1, <2>2, <2>3, <2>4, <2>5, <2>6 DEF Step
<1>3. IInv /\ [Next]_vars => [Fair]_vars
  <2> SUFFICES ASSUME IInv, [Next]_vars, NEW t \in Spaces, Running(t), status'[t] = "running"
               PROVE  Cardinality(Resident(t)) <= Cardinality(Resident(t)')
    OBVIOUS
  <2>1. CASE UNCHANGED vars
    BY <1>1, <2>1 DEF vars
  <2>2. ASSUME NEW s \in Spaces, Step(s)
        PROVE  Cardinality(Resident(t)) <= Cardinality(Resident(t)')
    <3>1. valid'[t] = valid[t] \/ GainsOrExchanges(Resident(t), Resident(t)')
      BY <1>2, <2>2
    <3>2. Resident(t) \in SUBSET Pages
      BY DEF Resident
    <3> QED
      BY <1>1, <3>1, <3>2, NeverSmaller
  <2> QED
    BY <2>1, <2>2 DEF Next
<1> QED
  BY <1>3, Invariance, PTL DEF Spec, ResidencyNeverShrinks

-----------------------------------------------------------------------------
(* Paging implements FlatMemory: demand loading, replacement and swapping  *)
(* are invisible to the programs.  A step changes what a program sees of   *)
(* at most one page, because the frame it writes has one owner, and the    *)
(* block of a page that leaves memory is written as it leaves.             *)

Contents == [Words -> Value \cup {Undef}]

LEMMA NoffImageType == NoffImage \in [Spaces -> [Pages -> Contents]]
<1> SUFFICES ASSUME NEW s \in Spaces, NEW p \in Pages, NEW w \in Words
             PROVE  (IF p * PageSize >= exeSize THEN Zero
                     ELSE IF p * PageSize + w < exeSize THEN Image[s][p * PageSize + w]
                     ELSE Undef) \in Value \cup {Undef}
  BY DEF NoffImage, Contents
<1>1. p \in Nat /\ w \in Nat /\ PageSize \in Nat /\ exeSize \in Nat
  BY PagingAssumption DEF Pages, Words
<1>2. p * PageSize \in Nat
  BY <1>1
<1>3. p * PageSize + w < exeSize => p * PageSize + w \in 0 .. exeSize - 1
  BY <1>1, <1>2
<1> QED
  BY <1>3, PagingAssumption

LEMMA PageOfType ==
  ASSUME IInv, NEW s \in Spaces, NEW p \in Pages
  PROVE  PageOf(s, p) \in Contents
<1>1. valid[s][p] => physicalPage[s][p] \in Frames
  BY DEF IInv, TablesAgree
<1>2. valid[s][p] => mainMemory[physicalPage[s][p]] \in [Words -> Value]
  BY <1>1 DEF IInv, TypeOK
<1>3. swapFile[s][p] \in [Words -> Value]
  BY DEF IInv, TypeOK
<1>4. [Words -> Value] \subseteq Contents
  BY DEF Contents
<1> QED
  BY <1>2, <1>3, <1>4, NoffImageType DEF PageOf

(* The memory of a running program is that of its pages, and is there.     *)
LEMMA RunningMemory ==
  ASSUME IInv, NEW s \in Spaces, Running(s)
  PROVE  /\ MemoryOf[s] = [p \in Pages |-> PageOf(s, p)]
         /\ MemoryOf[s] # Absent
<1>1. MemoryOf[s] = [p \in Pages |-> PageOf(s, p)]
  BY DEF MemoryOf
<1>2. [p \in Pages |-> PageOf(s, p)] \in [Pages -> Contents]
  BY PageOfType
<1> QED
  BY <1>1, <1>2, PagingAssumption DEF Contents

(* When one page of one running program changes, so does the flat memory.  *)
LEMMA OnePageChanges ==
  ASSUME NEW s \in Spaces, NEW p \in Pages, NEW content, Running(s), UNCHANGED status,
         PageOf(s, p)' = content,
         \A t \in Spaces, q \in Pages :
           Running(t) /\ ~(t = s /\ q = p) => PageOf(t, q)' = PageOf(t, q)
  PROVE  MemoryOf' = [MemoryOf EXCEPT ![s][p] = content]
<1> DEFINE after == [MemoryOf EXCEPT ![s][p] = content]
<1>1. \A t \in Spaces : Running(t)' <=> Running(t)
  BY DEF Running
<1>2. MemoryOf' = [t \in Spaces |->
                     IF Running(t)' THEN [q \in Pages |-> PageOf(t, q)'] ELSE Absent]
  BY DEF MemoryOf
<1>3. after = [t \in Spaces |-> IF t = s THEN [MemoryOf[s] EXCEPT ![p] = content]
                                         ELSE MemoryOf[t]]
  BY DEF MemoryOf
<1>4. ASSUME NEW t \in Spaces
      PROVE  MemoryOf'[t] = after[t]
  <2>1. CASE t = s
    <3>1. MemoryOf'[s] = [q \in Pages |-> PageOf(s, q)']
      BY <1>1, <1>2
    <3>2. MemoryOf[s] = [q \in Pages |-> PageOf(s, q)]
      BY DEF MemoryOf
    <3>3. [MemoryOf[s] EXCEPT ![p] = content]
            = [q \in Pages |-> IF q = p THEN content ELSE PageOf(s, q)]
      BY <3>2
    <3>4. \A q \in Pages : PageOf(s, q)' = IF q = p THEN content ELSE PageOf(s, q)
      OBVIOUS
    <3> QED
      BY <1>3, <2>1, <3>1, <3>3, <3>4
  <2>2. CASE t # s /\ Running(t)
    <3>1. MemoryOf'[t] = [q \in Pages |-> PageOf(t, q)']
      BY <1>1, <1>2, <2>2
    <3>2. MemoryOf[t] = [q \in Pages |-> PageOf(t, q)]
      BY <2>2 DEF MemoryOf
    <3>3. \A q \in Pages : PageOf(t, q)' = PageOf(t, q)
      BY <2>2
    <3> QED
      BY <1>3, <2>2, <3>1, <3>2, <3>3
  <2>3. CASE t # s /\ ~Running(t)
    BY <1>1, <1>2, <1>3, <2>3 DEF MemoryOf
  <2> QED
    BY <2>1, <2>2, <2>3
<1> QED
  BY <1>2, <1>3, <1>4

(* When a program starts or ends, the others keep their memory.            *)
LEMMA OneMemoryChanges ==
  ASSUME NEW s \in Spaces, NEW content,
         MemoryOf'[s] = content,
         \A t \in Spaces : t # s => (Running(t)' <=> Running(t)),
         \A t \in Spaces, q \in Pages :
           Running(t) /\ t # s => PageOf(t, q)' = PageOf(t, q)
  PROVE  MemoryOf' = [MemoryOf EXCEPT ![s] = content]
<1>1. MemoryOf' = [t \in Spaces |->
                     IF Running(t)' THEN [q \in Pages |-> PageOf(t, q)'] ELSE Absent]
  BY DEF MemoryOf
<1>2. [MemoryOf EXCEPT ![s] = content]
        = [t \in Spaces |-> IF t = s THEN content ELSE MemoryOf[t]]
  BY DEF MemoryOf
<1>3. ASSUME NEW t \in Spaces, t # s
      PROVE  MemoryOf'[t] = MemoryOf[t]
  <2>1. CASE Running(t)
    <3>1. \A q \in Pages : PageOf(t, q)' = PageOf(t, q)
      BY <1>3, <2>1
    <3>2. MemoryOf[t] = [q \in Pages |-> PageOf(t, q)]
      BY <2>1 DEF MemoryOf
    <3>3. MemoryOf'[t] = [q \in Pages |-> PageOf(t, q)']
      BY <1>1, <1>3, <2>1
    <3> QED
      BY <3>1, <3>2, <3>3
  <2>2. CASE ~Running(t)
    BY <1>1, <1>3, <2>2 DEF MemoryOf
  <2> QED
    BY <2>1, <2>2
<1> QED
  BY <1>1, <1>2, <1>3

(* When no page changes, neither does the flat memory.                     *)
LEMMA NothingChanges ==
  ASSUME \A t \in Spaces : Running(t)' <=> Running(t),
         \A t \in Spaces, q \in Pages : Running(t) => PageOf(t, q)' = PageOf(t, q)
  PROVE  MemoryOf' = MemoryOf
<1>1. MemoryOf' = [t \in Spaces |->
                     IF Running(t)' THEN [q \in Pages |-> PageOf(t, q)'] ELSE Absent]
  BY DEF MemoryOf
<1>2. ASSUME NEW t \in Spaces
      PROVE  MemoryOf'[t] = MemoryOf[t]
  <2>1. CASE Running(t)
    <3>1. \A q \in Pages : PageOf(t, q)' = PageOf(t, q)
      BY <2>1
    <3>2. MemoryOf[t] = [q \in Pages |-> PageOf(t, q)]
      BY <2>1 DEF MemoryOf
    <3>3. MemoryOf'[t] = [q \in Pages |-> PageOf(t, q)']
      BY <1>1, <2>1
    <3> QED
      BY <3>1, <3>2, <3>3
  <2>2. CASE ~Running(t)
    BY <1>1, <2>2 DEF MemoryOf
  <2> QED
    BY <2>1, <2>2
<1> QED
  BY <1>1, <1>2 DEF MemoryOf

-----------------------------------------------------------------------------
(* A load settles the page: words that were undefined take whatever the    *)
(* frame held, the other ones show what they showed.                       *)

LEMMA LoadSettles ==
  ASSUME IInv, NEW s \in Spaces, NEW p \in Pages, NEW f \in Frames,
         NEW content \in [Words -> Value], Running(s), ~valid[s][p],
         content = PageContent(s, p, mainMemory[f])
  PROVE  \A w \in Words : PageOf(s, p)[w] # Undef => content[w] = PageOf(s, p)[w]
<1> SUFFICES ASSUME NEW w \in Words, PageOf(s, p)[w] # Undef
             PROVE  content[w] = PageOf(s, p)[w]
  OBVIOUS
<1>1. CASE physicalPage[s][p] = IN_SWAP_FILE
  BY <1>1 DEF PageOf, PageContent
<1>2. CASE physicalPage[s][p] # IN_SWAP_FILE
  <2>1. PageOf(s, p)[w] = IF p * PageSize >= exeSize THEN Zero
                          ELSE IF p * PageSize + w < exeSize
                            THEN Image[s][p * PageSize + w]
                            ELSE Undef
    BY <1>2 DEF PageOf, NoffImage
  <2>2. CASE p * PageSize >= exeSize
    BY <1>2, <2>1, <2>2 DEF PageContent, ZeroPage
  <2>3. CASE ~(p * PageSize >= exeSize)
    BY <1>2, <2>1, <2>3 DEF PageContent
  <2> QED
    BY <2>2, <2>3
<1> QED
  BY <1>1, <1>2

(* A step that leaves status alone and changes one page, as a settlement.  *)
LEMMA SettleStep ==
  ASSUME IInv, NEW s \in Spaces, NEW p \in Pages, NEW content \in [Words -> Value],
         Running(s), UNCHANGED status, PageOf(s, p)' = content,
         \A w \in Words : PageOf(s, p)[w] # Undef => content[w] = PageOf(s, p)[w],
         \A t \in Spaces, q \in Pages :
           Running(t) /\ ~(t = s /\ q = p) => PageOf(t, q)' = PageOf(t, q)
  PROVE  Flat!Next
<1>1. MemoryOf' = [MemoryOf EXCEPT ![s][p] = content]
  BY OnePageChanges
<1>2. MemoryOf[s] # Absent /\ MemoryOf[s][p] = PageOf(s, p)
  BY RunningMemory
<1>3. Flat!Settle(s, p)
  BY <1>1, <1>2 DEF Flat!Settle
<1> QED
  BY <1>3 DEF Flat!Next

LEMMA LoadIntoClearFrameRefines ==
  ASSUME IInv, NEW s \in Spaces, NEW p \in Pages, NEW again, Running(s), ~valid[s][p],
         LoadIntoClearFrame(s, p, again)
  PROVE  Flat!Next
<1>1. PICK f \in Frames :
        /\ f \in Find
        /\ valid' = [valid EXCEPT ![s][p] = TRUE]
        /\ physicalPage' = [physicalPage EXCEPT ![s][p] = f]
        /\ mainMemory' = [mainMemory EXCEPT ![f] = PageContent(s, p, @)]
        /\ swapFile' = [swapFile EXCEPT ![s] = SwapBlocks(s, p)]
        /\ UNCHANGED <<status, instr>>
  BY DEF LoadIntoClearFrame, Find
<1>2. TypeOK /\ mainMemory[f] \in [Words -> Value]
  BY DEF IInv, TypeOK
<1>3. PICK content \in [Words -> Value] : content = PageContent(s, p, mainMemory[f])
  BY <1>2, PageContentType
<1>4. PageOf(s, p)' = content
  <2>1. valid'[s][p] /\ physicalPage'[s][p] = f /\ mainMemory'[f] = content
    BY <1>1, <1>2, <1>3 DEF TypeOK
  <2> QED
    BY <2>1 DEF PageOf
<1>5. ASSUME NEW t \in Spaces, NEW q \in Pages, ~(t = s /\ q = p)
      PROVE  PageOf(t, q)' = PageOf(t, q)
  <2>1. valid'[t][q] = valid[t][q] /\ physicalPage'[t][q] = physicalPage[t][q]
    BY <1>1, <1>2, <1>5 DEF TypeOK
  <2>2. valid[t][q] => physicalPage[t][q] # f
    BY <1>1 DEF Find, IInv, MarkedIsMapped
  <2>3. valid[t][q] => mainMemory'[physicalPage[t][q]] = mainMemory[physicalPage[t][q]]
    BY <1>1, <1>2, <2>2 DEF TypeOK, IInv, TablesAgree
  <2>4. swapFile'[t][q] = swapFile[t][q]
    BY <1>1, <1>2, <1>5 DEF TypeOK, SwapBlocks
  <2> QED
    BY <2>1, <2>3, <2>4 DEF PageOf
<1> QED
  BY <1>1, <1>3, <1>4, <1>5, LoadSettles, SettleStep

LEMMA LoadOverVictimRefines ==
  ASSUME IInv, NEW s \in Spaces, NEW p \in Pages, NEW again, Running(s), ~valid[s][p],
         LoadOverVictim(s, p, again)
  PROVE  Flat!Next
<1> DEFINE queue == Append(loadedPages[s], p)
<1>1. queue \in Seq(Pages)
  BY AppendProperties DEF IInv, TypeOK
<1>2. \A k \in 1 .. Len(queue) : IsVictim(s, queue, k) =>
        queue[k] \in Pages /\ valid[s][queue[k]] /\ physicalPage[s][queue[k]] \in Frames
  <2> SUFFICES ASSUME NEW k \in 1 .. Len(queue), IsVictim(s, queue, k)
               PROVE  /\ queue[k] \in Pages
                      /\ valid[s][queue[k]]
                      /\ physicalPage[s][queue[k]] \in Frames
    OBVIOUS
  <2>1. queue[k] \in Pages
    BY <1>1, ElementOfSeq
  <2> QED
    BY <2>1 DEF IsVictim, IInv, TablesAgree
<1>3. PICK victim \in Pages, f \in Frames :
        /\ f = physicalPage[s][victim]
        /\ valid[s][victim]
        /\ valid' = [valid EXCEPT ![s] = Replaced(@, victim, p)]
        /\ physicalPage' = [physicalPage EXCEPT
             ![s] = [@ EXCEPT ![victim] = IN_SWAP_FILE, ![p] = f]]
        /\ mainMemory' = [mainMemory EXCEPT ![f] = PageContent(s, p, @)]
        /\ swapFile' = [swapFile EXCEPT
             ![s] = [SwapBlocks(s, p) EXCEPT ![victim] = mainMemory[f]]]
        /\ UNCHANGED <<status, freeFrame, instr>>
  BY <1>2 DEF LoadOverVictim
<1> HIDE DEF queue
<1>4. TypeOK /\ mainMemory[f] \in [Words -> Value] /\ victim # p
  BY <1>3 DEF IInv, TypeOK, Replaced
<1>5. PICK content \in [Words -> Value] : content = PageContent(s, p, mainMemory[f])
  BY <1>4, PageContentType
<1>6. PageOf(s, p)' = content
  <2>1. valid'[s][p] /\ physicalPage'[s][p] = f /\ mainMemory'[f] = content
    BY <1>3, <1>4, <1>5 DEF TypeOK, Replaced
  <2> QED
    BY <2>1 DEF PageOf
<1>7. SwapBlocks(s, p) \in [Pages -> [Words -> Value]]
  BY <1>4, SwapBlocksType
<1>8. PageOf(s, victim)' = PageOf(s, victim)
  <2>1. ~valid'[s][victim] /\ physicalPage'[s][victim] = IN_SWAP_FILE
    BY <1>3, <1>4 DEF TypeOK, Replaced
  <2>2. swapFile'[s][victim] = mainMemory[f]
    BY <1>3, <1>4, <1>7 DEF TypeOK
  <2> QED
    BY <1>3, <2>1, <2>2 DEF PageOf
<1>9. ASSUME NEW t \in Spaces, NEW q \in Pages, ~(t = s /\ q \in {p, victim})
      PROVE  PageOf(t, q)' = PageOf(t, q)
  <2>1. valid'[t][q] = valid[t][q] /\ physicalPage'[t][q] = physicalPage[t][q]
    BY <1>3, <1>4, <1>9 DEF TypeOK, Replaced
  <2>2. valid[t][q] => physicalPage[t][q] # f
    BY <1>3, <1>9 DEF IInv, OneOwner
  <2>3. valid[t][q] => mainMemory'[physicalPage[t][q]] = mainMemory[physicalPage[t][q]]
    BY <1>3, <1>4, <2>2 DEF TypeOK, IInv, TablesAgree
  <2>4. swapFile'[t][q] = swapFile[t][q]
    <3>1. CASE t # s
      BY <1>3, <1>4, <3>1 DEF TypeOK
    <3>2. CASE t = s
      <4>1. SwapBlocks(s, p)[q] = swapFile[s][q]
        BY <1>4, <1>9, <3>2 DEF TypeOK, SwapBlocks
      <4>2. swapFile'[s] = [SwapBlocks(s, p) EXCEPT ![victim] = mainMemory[f]]
        BY <1>3, <1>4 DEF TypeOK
      <4> QED
        BY <1>7, <1>9, <3>2, <4>1, <4>2
    <3> QED
      BY <3>1, <3>2
  <2> QED
    BY <2>1, <2>3, <2>4 DEF PageOf
<1> QED
  BY <1>3, <1>5, <1>6, <1>8, <1>9, LoadSettles, SettleStep

-----------------------------------------------------------------------------
(* Starts, ends and stores.                                                *)

(* The program of s ends, its tables whole or emptied; the frames of the   *)
(* others keep their content.                                              *)
LEMMA EndStep ==
  ASSUME IInv, NEW s \in Spaces, Running(s), ~Running(s)',
         \A t \in Spaces : t # s => (Running(t)' <=> Running(t)),
         \A t \in Spaces, q \in Pages : t # s => PageOf(t, q)' = PageOf(t, q)
  PROVE  Flat!Next
<1>1. MemoryOf'[s] = Absent
  BY DEF MemoryOf
<1>2. MemoryOf' = [MemoryOf EXCEPT ![s] = Absent]
  BY <1>1, OneMemoryChanges
<1>3. Flat!End(s)
  BY <1>2, RunningMemory DEF Flat!End
<1> QED
  BY <1>3 DEF Flat!Next

LEMMA StarveRefines ==
  ASSUME IInv, NEW s \in Spaces, NEW p \in Pages, Running(s), Starve(s, p)
  PROVE  Flat!Next
<1>1. /\ ~Running(s)'
      /\ \A t \in Spaces : t # s => (Running(t)' <=> Running(t))
  BY DEF Starve, IInv, TypeOK, Running
<1>2. \A t \in Spaces, q \in Pages : PageOf(t, q)' = PageOf(t, q)
  BY DEF Starve, PageOf
<1> QED
  BY <1>1, <1>2, EndStep

LEMMA LoadRefines ==
  ASSUME IInv, NEW s \in Spaces, NEW p \in Pages, NEW again, Running(s), ~valid[s][p],
         LoadFromExecutable(s, p, again)
  PROVE  Flat!Next
  BY LoadIntoClearFrameRefines, LoadOverVictimRefines, StarveRefines DEF LoadFromExecutable

LEMMA TrapRefines ==
  ASSUME IInv, NEW s \in Spaces, Trap(s)
  PROVE  Flat!Next
<1>1. /\ Running(s) /\ ~Running(s)'
      /\ \A t \in Spaces : t # s => (Running(t)' <=> Running(t))
  BY DEF Trap, IInv, TypeOK, Running
<1>2. \A t \in Spaces, q \in Pages : PageOf(t, q)' = PageOf(t, q)
  BY DEF Trap, PageOf
<1> QED
  BY <1>1, <1>2, EndStep

LEMMA ExitRefines ==
  ASSUME IInv, NEW s \in Spaces, Exit(s)
  PROVE  Flat!Next
<1>1. /\ Running(s) /\ ~Running(s)'
      /\ \A t \in Spaces : t # s => (Running(t)' <=> Running(t))
  BY DEF Exit, IInv, TypeOK, Running
<1>2. ASSUME NEW t \in Spaces, NEW q \in Pages, t # s
      PROVE  PageOf(t, q)' = PageOf(t, q)
  <2>1. /\ valid'[t] = valid[t] /\ physicalPage'[t] = physicalPage[t]
        /\ swapFile'[t] = swapFile[t] /\ mainMemory' = mainMemory
    BY <1>2 DEF Exit, IInv, TypeOK
  <2> QED
    BY <2>1 DEF PageOf
<1> QED
  BY <1>1, <1>2, EndStep

(* A space that starts has nothing loaded: it shows its image.             *)
LEMMA StartRefines ==
  ASSUME IInv, NEW s \in Spaces, NewAddrSpace(s)
  PROVE  Flat!Next
<1>1. /\ ~Running(s) /\ Running(s)' /\ status[s] = "none"
      /\ \A t \in Spaces : t # s => (Running(t)' <=> Running(t))
  BY DEF NewAddrSpace, IInv, TypeOK, Running
<1>2. ASSUME NEW q \in Pages
      PROVE  PageOf(s, q)' = NoffImage[s][q]
  <2>1. physicalPage[s][q] = Unloaded
    BY <1>1 DEF IInv, FreshTables
  <2>2. ~valid[s][q] /\ physicalPage[s][q] # IN_SWAP_FILE
    BY <2>1 DEF IInv, TablesAgree, Unloaded, IN_SWAP_FILE, Frames
  <2>3. valid' = valid /\ physicalPage' = physicalPage
    BY DEF NewAddrSpace
  <2> QED
    BY <2>2, <2>3 DEF PageOf
<1>3. MemoryOf'[s] = NoffImage[s]
  <2>1. MemoryOf'[s] = [q \in Pages |-> PageOf(s, q)']
    BY <1>1 DEF MemoryOf
  <2>2. NoffImage[s] = [q \in Pages |-> NoffImage[s][q]]
    BY NoffImageType
  <2> QED
    BY <1>2, <2>1, <2>2
<1>4. ASSUME NEW t \in Spaces, NEW q \in Pages, t # s
      PROVE  PageOf(t, q)' = PageOf(t, q)
  <2>1. /\ valid' = valid /\ physicalPage' = physicalPage
        /\ swapFile'[t] = swapFile[t] /\ mainMemory' = mainMemory
    BY <1>4 DEF NewAddrSpace, IInv, TypeOK
  <2> QED
    BY <2>1 DEF PageOf
<1>5. MemoryOf' = [MemoryOf EXCEPT ![s] = NoffImage[s]]
  BY <1>1, <1>3, <1>4, OneMemoryChanges
<1>6. Flat!Start(s)
  BY <1>1, <1>5 DEF Flat!Start, MemoryOf
<1> QED
  BY <1>6 DEF Flat!Next

(* A store into a resident page: its frame has no other owner.             *)
LEMMA StoreRefines ==
  ASSUME IInv, NEW s \in Spaces, NEW p \in Pages, NEW w \in Words, NEW v \in Stored,
         Running(s), valid[s][p],
         mainMemory' = [mainMemory EXCEPT ![physicalPage[s][p]][w] = v],
         UNCHANGED <<status, valid, physicalPage, swapFile>>
  PROVE  Flat!Next
<1>1. PICK f \in Frames : f = physicalPage[s][p]
  BY DEF IInv, TablesAgree
<1>2. /\ mainMemory'[f] = [mainMemory[f] EXCEPT ![w] = v]
      /\ \A g \in Frames : g # f => mainMemory'[g] = mainMemory[g]
  BY <1>1 DEF IInv, TypeOK
<1>3. PICK content : content = [PageOf(s, p) EXCEPT ![w] = v]
  OBVIOUS
<1>4. PageOf(s, p)' = content
  BY <1>1, <1>2, <1>3 DEF PageOf
<1>5. ASSUME NEW t \in Spaces, NEW q \in Pages, ~(t = s /\ q = p)
      PROVE  PageOf(t, q)' = PageOf(t, q)
  <2>1. valid[t][q] => physicalPage[t][q] # f /\ physicalPage[t][q] \in Frames
    BY <1>1, <1>5 DEF IInv, OneOwner, TablesAgree
  <2> QED
    BY <1>2, <2>1 DEF PageOf
<1>6. MemoryOf' = [MemoryOf EXCEPT ![s][p] = content]
  BY <1>4, <1>5, OnePageChanges
<1>7. MemoryOf[s] # Absent /\ MemoryOf[s][p] = PageOf(s, p)
  BY RunningMemory
<1>8. [MemoryOf EXCEPT ![s][p] = content] = [MemoryOf EXCEPT ![s][p][w] = v]
  BY <1>3, <1>7 DEF MemoryOf
<1>9. v \in Value
  BY PagingAssumption
<1>10. Flat!Store(s, p, w, v)
  BY <1>6, <1>7, <1>8 DEF Flat!Store
<1> QED
  BY <1>9, <1>10 DEF Flat!Next

(* An instruction that starts, or completes without a store.               *)
LEMMA InvisibleStep ==
  ASSUME UNCHANGED <<status, valid, physicalPage, mainMemory, swapFile>>
  PROVE  MemoryOf' = MemoryOf
<1>1. \A t \in Spaces : Running(t)' <=> Running(t)
  BY DEF Running
<1>2. \A t \in Spaces, q \in Pages : PageOf(t, q)' = PageOf(t, q)
  BY DEF PageOf
<1> QED
  BY <1>1, <1>2, NothingChanges

-----------------------------------------------------------------------------
LEMMA InitRefines == Init => Flat!Init
  BY DEF Init, Flat!Init, MemoryOf, Running

LEMMA StepRefines ==
  ASSUME IInv, NEW s \in Spaces, Step(s)
  PROVE  Flat!Next \/ MemoryOf' = MemoryOf
<1>1. CASE NewAddrSpace(s)
  BY <1>1, StartRefines
<1>2. CASE Exit(s)
  BY <1>2, ExitRefines
<1>3. CASE Trap(s)
  BY <1>3, TrapRefines
<1>4. ASSUME NEW pages \in Instructions, Issue(s, pages)
      PROVE  MemoryOf' = MemoryOf
  BY <1>4, InvisibleStep DEF Issue
<1>5. CASE PageFault(s)
  <2>1. PICK p \in Pages : p = FaultingPage(s)
    BY <1>5, PagingAssumption DEF PageFault, FaultingPage, IInv, TypeOK
  <2> QED
    BY <1>5, <2>1, LoadRefines DEF PageFault
<1>6. CASE Complete(s)
  <2>1. PICK p \in Pages : p = instr[s][2]
    BY <1>6, PagingAssumption DEF Complete, IInv, TypeOK
  <2>2. CASE UNCHANGED mainMemory
    BY <1>6, <2>2, InvisibleStep DEF Complete
  <2>3. ASSUME NEW w \in Words, NEW v \in Stored,
               mainMemory' = [mainMemory EXCEPT ![physicalPage[s][p]][w] = v]
        PROVE  Flat!Next
    BY <1>6, <2>1, <2>3, StoreRefines DEF Complete
  <2> QED
    BY <1>6, <2>1, <2>2, <2>3 DEF Complete
<1>7. ASSUME NEW p \in Pages, CopyFromUser(s, p)
      PROVE  Flat!Next
  BY <1>7, LoadRefines DEF CopyFromUser
<1>8. ASSUME NEW p \in Pages, NEW w \in Words, NEW v \in Stored, CopyToUser(s, p, w, v)
      PROVE  Flat!Next
  BY <1>8, StoreRefines DEF CopyToUser
<1>9. ASSUME NEW p \in Pages, CopyToUserFault(s, p)
      PROVE  Flat!Next
  BY <1>9, LoadRefines DEF CopyToUserFault
<1> QED
  BY <1>1, <1>2, <1>3, <1>4, <1>5, <1>6, <1>7, <1>8, <1>9 DEF Step

(* Paging implements FlatMemory: whatever the number of frames and of      *)
(* programs, each program has the memory of its image and its own stores.  *)
THEOREM PagingIsInvisible == Spec => FlatMemorySpec
<1>1. Init => Flat!Init
  BY InitRefines
<1>2. IInv /\ [Next]_vars => [Flat!Next]_MemoryOf
  <2>1. CASE UNCHANGED vars
    BY <2>1, InvisibleStep DEF vars
  <2> QED
    BY <2>1, StepRefines DEF Next
<1> QED
  BY <1>1, <1>2, Invariance, PTL DEF Spec, FlatMemorySpec, Flat!Spec

=============================================================================
