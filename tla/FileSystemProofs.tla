--------------------------- MODULE FileSystemProofs ---------------------------
(* For disks, tables and trees of every size: no sector is given to two files  *)
(* or lost, and the sectors implement the tree of FileTree.                    *)
(*                                                                             *)
(* Walk is the only function that leads from the root to each path by the      *)
(* entries of the tables (WalkIs). So what an operation does to the tree is    *)
(* found by proposing the new walk and looking at each table once.             *)
EXTENDS FileSystem, FiniteSetTheorems, FunctionTheorems, SequenceTheorems, TLAPS

-------------------------------------------------------------------------------
(* Paths.                                                                      *)

Up(path) == Seqs!Front(path)
Own(path) == Seqs!Last(path)

\* A path is a sequence of names that is not too long.
LEMMA PathsAre ==
    \A p : p \in Paths <=> p \in Seq(Names) /\ Len(p) <= MaxDepth
<1> MaxDepth \in Nat
  BY DiskAssumption
<1> Paths = UNION {[1 .. m -> Names] : m \in 0 .. MaxDepth}
  BY DEF Paths, Seqs!BoundedSeq, Seqs!SeqOf
<1>1. ASSUME NEW p \in Paths
      PROVE  p \in Seq(Names) /\ Len(p) <= MaxDepth
  <2>1. PICK m \in 0 .. MaxDepth : p \in [1 .. m -> Names]
    OBVIOUS
  <2>2. p \in Seq(Names) /\ Len(p) = m
    BY <2>1
  <2> QED
    BY <2>2
<1>2. ASSUME NEW p \in Seq(Names), Len(p) <= MaxDepth
      PROVE  p \in Paths
  <2>1. Len(p) \in 0 .. MaxDepth /\ p \in [1 .. Len(p) -> Names]
    BY <1>2
  <2> QED
    BY <2>1
<1> QED
  BY <1>1, <1>2

\* The root is a path.
LEMMA RootIsPath == <<>> \in Paths
<1>1. <<>> \in Seq(Names)
  OBVIOUS
<1>2. Len(<<>>) <= MaxDepth
  BY DiskAssumption
<1> QED
  BY <1>1, <1>2, PathsAre

\* A path that is not the root is a path and a name.
LEMMA PathIs ==
    ASSUME NEW p \in Paths, p # <<>>
    PROVE  /\ Up(p) \in Paths
           /\ Own(p) \in Names
           /\ p = Append(Up(p), Own(p))
           /\ Len(p) = Len(Up(p)) + 1
<1>1. p \in Seq(Names) /\ Len(p) <= MaxDepth
  BY PathsAre
<1>2. PICK q \in Seq(Names), n \in Names : p = Append(q, n)
  BY <1>1, SequenceEmptyOrAppend
<1>3. Len(p) = Len(q) + 1 /\ Len(q) \in Nat /\ p[Len(p)] = n
  BY <1>2, AppendProperties
<1>4. SubSeq(p, 1, Len(p) - 1) = q
  <2>1. Len(p) - 1 = Len(q) /\ 1 \in Int
    BY <1>3
  <2>2. SubSeq(p, 1, Len(q)) = q
    BY <1>2
  <2> QED
    BY <2>1, <2>2
<1>5. Up(p) = q /\ Own(p) = n
  BY <1>3, <1>4 DEF Up, Own, Seqs!Front, Seqs!Last
<1>6. q \in Paths
  BY <1>1, <1>3, PathsAre, DiskAssumption
<1> QED
  BY <1>2, <1>3, <1>5, <1>6

\* A name after a path that is not too long.
LEMMA PathAppended ==
    ASSUME NEW q \in Paths, NEW n \in Names, Len(q) < MaxDepth
    PROVE  /\ Append(q, n) \in Paths
           /\ Append(q, n) # <<>>
           /\ Up(Append(q, n)) = q
           /\ Own(Append(q, n)) = n
<1> DEFINE p == Append(q, n)
<1>1. q \in Seq(Names)
  BY PathsAre
<1>2. p \in Seq(Names) /\ Len(p) = Len(q) + 1 /\ Len(q) \in Nat /\ p # <<>>
  BY <1>1, AppendProperties
<1>3. p \in Paths
  <2>1. MaxDepth \in Nat
    BY DiskAssumption
  <2>2. Len(p) <= MaxDepth
    BY <1>2, <2>1
  <2> QED
    BY <1>2, <2>2, PathsAre
<1>4. p = Append(Up(p), Own(p)) /\ Up(p) \in Seq(Names)
  BY <1>2, <1>3, PathIs, PathsAre
<1>5. Up(p) = q /\ Own(p) = n
  BY <1>1, <1>4, AppendInjective
<1> QED
  BY <1>2, <1>3, <1>5

-------------------------------------------------------------------------------
(* The walk.                                                                   *)

\* The entry a path leads to, of the one its parent leads to.
Named(w, p) == IF w[Up(p)].isDirectory THEN Found(Fetch(w[Up(p)].sector), Own(p)) ELSE {}
Missing(p) == Entry(p, Nowhere, FALSE)
Reached(w, p) ==
    IF p = <<>> THEN Entry(p, DirectorySector, TRUE)
    ELSE IF Named(w, p) = {} THEN Missing(p) ELSE CHOOSE e \in Named(w, p) : TRUE

IsWalk(w) == w = [p \in Paths |-> Reached(w, p)]

\* A set of natural numbers has a least element: the intervals that end at its
\* elements are ordered as they are.
LEMMA Least ==
  ASSUME NEW S \in SUBSET Nat, S # {}
  PROVE  \E i \in S : \A j \in S : i <= j
<1> DEFINE T == {0 .. i : i \in S}
<1>1. T \subseteq FiniteSubsetsOf(Nat)
  <2> SUFFICES ASSUME NEW i \in S PROVE 0 .. i \in FiniteSubsetsOf(Nat)
    OBVIOUS
  <2>1. IsFiniteSet(0 .. i)
    BY FS_Interval
  <2>2. 0 .. i \in SUBSET Nat
    OBVIOUS
  <2> QED
    BY <2>1, <2>2 DEF FiniteSubsetsOf
<1>2. IsWellFoundedOn(StrictSubsetOrdering(Nat), FiniteSubsetsOf(Nat))
  BY FS_StrictSubsetOrderingWellFounded
<1>3. T # {}
  OBVIOUS
<1> HIDE DEF T
<1>4. PICK x \in T : \A y \in T : ~(<<y, x>> \in StrictSubsetOrdering(Nat))
  BY <1>1, <1>2, <1>3, WFMin
<1>5. PICK i \in S : x = 0 .. i
  BY DEF T
<1>6. ASSUME NEW j \in S, j < i
      PROVE  FALSE
  <2>1. 0 .. j \in T
    BY DEF T
  <2>2. 0 .. j \subseteq 0 .. i /\ 0 .. j \in SUBSET Nat /\ 0 .. i \in SUBSET Nat
    BY <1>6
  <2>3. i \in 0 .. i /\ i \notin 0 .. j
    BY <1>6
  <2>4. <<0 .. j, 0 .. i>> \in StrictSubsetOrdering(Nat)
    BY <2>2, <2>3 DEF StrictSubsetOrdering
  <2> QED
    BY <1>4, <1>5, <2>1, <2>4
<1> QED
  BY <1>6

\* What no number is the first to miss, no number misses.
LEMMA FirstMissed ==
  ASSUME NEW S \in SUBSET Nat,
         \A n \in S : \E m \in S : m < n
  PROVE  S = {}
<1> SUFFICES ASSUME S # {} PROVE FALSE
  OBVIOUS
<1>1. PICK i \in S : \A j \in S : i <= j
  BY Least
<1>2. PICK m \in S : m < i
  OBVIOUS
<1> QED
  BY <1>1, <1>2

\* Two walks are one: they first differ nowhere.
LEMMA SameWalk ==
  ASSUME NEW v, NEW w, IsWalk(v), IsWalk(w)
  PROVE  v = w
<1> DEFINE S == {n \in Nat : \E p \in Paths : Len(p) = n /\ v[p] # w[p]}
<1>1. ASSUME NEW n \in S
      PROVE  \E m \in S : m < n
  <2>1. PICK p \in Paths : Len(p) = n /\ v[p] # w[p]
    OBVIOUS
  <2>2. v[p] = Reached(v, p) /\ w[p] = Reached(w, p)
    BY DEF IsWalk
  <2>3. p # <<>>
    BY <2>1, <2>2 DEF Reached
  <2>4. Up(p) \in Paths /\ Len(p) = Len(Up(p)) + 1 /\ Len(Up(p)) \in Nat
    BY <2>3, PathIs, PathsAre
  <2>5. v[Up(p)] # w[Up(p)]
    BY <2>1, <2>2, <2>3 DEF Reached, Named
  <2>6. Len(Up(p)) \in S /\ Len(Up(p)) < n
    BY <2>1, <2>4, <2>5
  <2> QED
    BY <2>6
<1>2. S = {}
  <2> HIDE DEF S
  <2>1. S \subseteq Nat
    BY DEF S
  <2> QED
    BY <1>1, <2>1, FirstMissed
<1>3. \A p \in Paths : v[p] = w[p]
  <2> SUFFICES ASSUME NEW p \in Paths PROVE v[p] = w[p]
    OBVIOUS
  <2>1. Len(p) \in Nat
    BY PathsAre
  <2> QED
    BY <1>2, <2>1
<1>4. v = [p \in Paths |-> v[p]] /\ w = [p \in Paths |-> w[p]]
  BY DEF IsWalk
<1> QED
  BY <1>3, <1>4

\* There is a walk: one for the paths of each length, from the one before.
LEMMA SomeWalk == \E w : IsWalk(w)
<1> DEFINE Partial(w, n) ==
             /\ w = [p \in Paths |-> w[p]]
             /\ \A p \in Paths : Len(p) <= n => w[p] = Reached(w, p)
           S == {n \in Nat : ~ \E w : Partial(w, n)}
<1>1. ASSUME NEW n \in S
      PROVE  \E m \in S : m < n
  <2>1. CASE n = 0
    <3> DEFINE w == [p \in Paths |-> Entry(p, DirectorySector, TRUE)]
    <3>1. w = [p \in Paths |-> w[p]]
      OBVIOUS
    <3>2. ASSUME NEW p \in Paths, Len(p) <= 0
          PROVE  w[p] = Reached(w, p)
      <4>1. p = <<>>
        BY <3>2, PathsAre
      <4> QED
        BY <4>1 DEF Reached
    <3>3. Partial(w, n)
      BY <2>1, <3>1, <3>2
    <3> HIDE DEF w
    <3> QED
      BY <3>3
  <2>2. CASE n # 0
    <3>1. n - 1 \in Nat /\ n - 1 < n
      BY <2>2
    <3> SUFFICES ASSUME n - 1 \notin S PROVE FALSE
      BY <3>1
    <3>2. PICK v : Partial(v, n - 1)
      BY <3>1
    <3> DEFINE w == [p \in Paths |-> IF Len(p) <= n - 1 THEN v[p] ELSE Reached(v, p)]
    <3>3. w = [p \in Paths |-> w[p]]
      OBVIOUS
    <3>4. ASSUME NEW p \in Paths, Len(p) <= n
          PROVE  w[p] = Reached(w, p)
      <4>1. Len(p) \in Nat
        BY PathsAre
      <4>2. w[p] = Reached(v, p)
        BY <3>2, <3>4, <4>1
      <4>3. CASE p = <<>>
        BY <4>2, <4>3 DEF Reached
      <4>4. CASE p # <<>>
        <5>1. Up(p) \in Paths /\ Len(p) = Len(Up(p)) + 1 /\ Len(Up(p)) \in Nat
          BY <4>4, PathIs, PathsAre
        <5>2. Len(Up(p)) <= n - 1
          BY <3>4, <5>1
        <5>3. w[Up(p)] = v[Up(p)]
          BY <5>1, <5>2
        <5> HIDE DEF w
        <5>4. Reached(w, p) = Reached(v, p)
          BY <5>3 DEF Reached, Named
        <5> QED
          BY <4>2, <5>4
      <4> QED
        BY <4>3, <4>4
    <3>5. Partial(w, n)
      BY <3>3, <3>4
    <3> HIDE DEF w
    <3> QED
      BY <3>5
  <2> QED
    BY <2>1, <2>2
<1>2. S = {}
  <2> HIDE DEF S
  <2>1. S \subseteq Nat
    BY DEF S
  <2> QED
    BY <1>1, <2>1, FirstMissed
<1>3. MaxDepth \in Nat
  BY DiskAssumption
<1>4. PICK w : Partial(w, MaxDepth)
  BY <1>2, <1>3
<1>5. \A p \in Paths : w[p] = Reached(w, p)
  BY <1>4, PathsAre
<1>6. w = [p \in Paths |-> Reached(w, p)]
  BY <1>4, <1>5
<1> QED
  BY <1>6 DEF IsWalk

\* Walk is a walk, and the only one.
LEMMA WalkIs == IsWalk(Walk) /\ \A w : IsWalk(w) => w = Walk
<1> DEFINE Body(w) ==
      [path \in Paths |->
         IF path = <<>> THEN Entry(path, DirectorySector, TRUE)
         ELSE LET up    == w[Seqs!Front(path)]
                  found == IF up.isDirectory
                           THEN Found(Fetch(up.sector), Seqs!Last(path)) ELSE {}
              IN  IF found = {} THEN Entry(path, Nowhere, FALSE) ELSE CHOOSE e \in found : TRUE]
<1>1. Walk = CHOOSE w : w = Body(w)
  BY DEF Walk
<1>2. \A w : IsWalk(w) <=> w = Body(w)
  BY DEF IsWalk, Reached, Named, Missing, Up, Own
<1> HIDE DEF Body
<1>3. IsWalk(Walk)
  BY <1>1, <1>2, SomeWalk
<1> QED
  BY <1>3, SameWalk

-------------------------------------------------------------------------------
(* The invariant.                                                              *)

At(p) == Walk[p].sector
IsDir(p) == Walk[p].isDirectory
Data(p) == disk[At(p)].data
Listed(p) == Fetch(At(p))

Live == {p \in Paths : At(p) # Nowhere}
Extent(p) == {At(p)} \cup Data(p)

DiskType ==
    /\ disk \in [Sectors -> [data : SUBSET Sectors, entries : SUBSET EntrySet]]
    /\ \A s \in Sectors :
        /\ IsFiniteSet(disk[s].entries)
        /\ Cardinality(disk[s].entries) <= NumDirEntries
        /\ disk[s].data = {} \/ disk[s].entries = {}
        /\ \A e, f \in disk[s].entries : e.name = f.name => e = f

OtherTypes ==
    /\ freeMap \subseteq Sectors
    /\ cdSector \in Sectors
    /\ answer \in BOOLEAN /\ halted \in BOOLEAN

\* A directory has its dots, unless it is the root.
DotsOf(p) ==
    IF p = <<>> THEN {} ELSE {Entry(Dot, At(p), TRUE), Entry(DotDot, At(Up(p)), TRUE)}

Directories ==
    \A p \in Paths : IsDir(p) =>
        /\ At(p) \in Sectors
        /\ Cardinality(Data(p)) = DirectorySectors
        /\ {e \in Listed(p) : e.name \in {Dot, DotDot}} = DotsOf(p)

Owned ==
    /\ {FreeMapSector, 2} \subseteq freeMap
    /\ \A p \in Live : Extent(p) \subseteq freeMap \ {FreeMapSector, 2}
    /\ \A s \in freeMap \ {FreeMapSector, 2} : \E p \in Live : s \in Extent(p)
    /\ \A p \in Live : At(p) \notin Data(p)
    /\ \A p, q \in Live : p # q => Extent(p) \cap Extent(q) = {}

\* The current directory is one that a path leads to.
Here == \E p \in Live : IsDir(p) /\ At(p) = cdSector

\* The header of the root stays as the disk was formatted.
Rooted == disk[DirectorySector].data = RootData

IInv == DiskType /\ OtherTypes /\ Directories /\ Rooted /\ Owned /\ Here

-------------------------------------------------------------------------------
(* Tables and entries.                                                         *)

\* The sectors of the disk are natural numbers, and finitely many.
LEMMA SectorsAre ==
    /\ Sectors \subseteq Nat /\ IsFiniteSet(Sectors)
    /\ SystemSectors \subseteq Sectors /\ DirectorySector \in Sectors
    /\ Nowhere \notin Sectors
<1>1. NumSectors \in Nat /\ SystemSectors \subseteq Sectors
  BY DiskAssumption
<1>2. IsFiniteSet(0 .. NumSectors - 1)
  BY <1>1, FS_Interval
<1>3. Sectors \subseteq Nat /\ IsFiniteSet(Sectors) /\ Nowhere \notin Sectors
  BY <1>1, <1>2 DEF Sectors, Nowhere
<1>4. DirectorySector \in SystemSectors
  BY DEF SystemSectors
<1> QED
  BY <1>1, <1>3, <1>4

\* The least of a set of numbers is in it.
LEMMA MinIs ==
    ASSUME NEW S \in SUBSET Nat, S # {}
    PROVE  Min(S) \in S /\ \A y \in S : Min(S) <= y
<1>1. \E i \in S : \A j \in S : i <= j
  BY Least
<1> QED
  BY <1>1 DEF Min

\* What is fetched through a header that lists a sector is a table.
LEMMA FetchIs ==
    ASSUME DiskType, NEW h \in Sectors, disk[h].data # {}
    PROVE  /\ Min(disk[h].data) \in disk[h].data
           /\ Fetch(h) \subseteq EntrySet
           /\ IsFiniteSet(Fetch(h))
           /\ Cardinality(Fetch(h)) <= NumDirEntries
           /\ \A e, f \in Fetch(h) : e.name = f.name => e = f
<1>1. disk[h].data \in SUBSET Sectors
  BY DEF DiskType
<1>2. Min(disk[h].data) \in disk[h].data
  BY <1>1, SectorsAre, MinIs
<1>3. Min(disk[h].data) \in Sectors
  BY <1>1, <1>2
<1> DEFINE s == Min(disk[h].data)
<1>4. Fetch(h) = disk[s].entries
  BY DEF Fetch
<1>5. disk[s].entries \subseteq EntrySet
  BY <1>3 DEF DiskType
<1> HIDE DEF s
<1>6. s \in Sectors
  BY <1>3 DEF s
<1>7. /\ IsFiniteSet(disk[s].entries)
      /\ Cardinality(disk[s].entries) <= NumDirEntries
      /\ \A e, f \in disk[s].entries : e.name = f.name => e = f
  BY <1>6 DEF DiskType
<1> QED
  BY <1>2, <1>4, <1>5, <1>7

\* An empty set has no elements to count.
LEMMA CountedIsNotEmpty ==
    ASSUME NEW S, Cardinality(S) = DirectorySectors
    PROVE  S # {}
<1>1. Cardinality({}) = 0
  BY FS_EmptySet
<1>2. DirectorySectors # 0
  BY DiskAssumption
<1> QED
  BY <1>1, <1>2

\* The table of a directory.
LEMMA ListedIs ==
    ASSUME DiskType, Directories, NEW p \in Paths, IsDir(p)
    PROVE  /\ At(p) \in Sectors
           /\ Data(p) # {}
           /\ Min(Data(p)) \in Data(p)
           /\ Listed(p) \subseteq EntrySet
           /\ IsFiniteSet(Listed(p))
           /\ Cardinality(Listed(p)) <= NumDirEntries
           /\ \A e, f \in Listed(p) : e.name = f.name => e = f
           /\ {e \in Listed(p) : e.name \in {Dot, DotDot}} = DotsOf(p)
<1>1. /\ At(p) \in Sectors
      /\ Cardinality(Data(p)) = DirectorySectors
      /\ {e \in Listed(p) : e.name \in {Dot, DotDot}} = DotsOf(p)
  BY DEF Directories
<1>2. Data(p) # {}
  BY <1>1, CountedIsNotEmpty
<1> QED
  BY <1>1, <1>2, FetchIs DEF Data, Listed

\* Where a path leads is the entry of its last name in its parent's table.
LEMMA WalkStep ==
    ASSUME DiskType, Directories, NEW p \in Paths, p # <<>>
    PROVE  /\ Up(p) \in Paths /\ Own(p) \in Names
           /\ \A e \in Listed(Up(p)) : IsDir(Up(p)) /\ e.name = Own(p) => Walk[p] = e
           /\ \/ IsDir(Up(p)) /\ Walk[p] \in Listed(Up(p)) /\ Walk[p].name = Own(p)
              \/ /\ Walk[p] = Missing(p)
                 /\ IsDir(Up(p)) => \A e \in Listed(Up(p)) : e.name # Own(p)
<1>1. Up(p) \in Paths /\ Own(p) \in Names
  BY PathIs
<1>2. Walk[p] = Reached(Walk, p)
  BY WalkIs DEF IsWalk
<1>3. Walk[p] = IF Named(Walk, p) = {} THEN Missing(p) ELSE CHOOSE e \in Named(Walk, p) : TRUE
  BY <1>2 DEF Reached
<1>4. Named(Walk, p) = IF IsDir(Up(p)) THEN {e \in Listed(Up(p)) : e.name = Own(p)} ELSE {}
  BY DEF Named, Found, Listed, At, IsDir
<1>5. Named(Walk, p) # {} => Walk[p] \in Named(Walk, p)
  BY <1>3
<1>6. IsDir(Up(p)) => \A e, f \in Listed(Up(p)) : e.name = f.name => e = f
  BY <1>1, ListedIs
<1>7. CASE IsDir(Up(p))
  <2>1. Named(Walk, p) = {e \in Listed(Up(p)) : e.name = Own(p)}
    BY <1>4, <1>7
  <2>2. CASE Named(Walk, p) = {}
    <3>1. \A e \in Listed(Up(p)) : e.name # Own(p)
      BY <2>1, <2>2
    <3>2. Walk[p] = Missing(p)
      BY <1>3, <2>2
    <3> QED
      BY <1>1, <3>1, <3>2
  <2>3. CASE Named(Walk, p) # {}
    <3>1. Walk[p] \in Listed(Up(p)) /\ Walk[p].name = Own(p)
      BY <1>5, <2>1, <2>3
    <3>2. \A e \in Listed(Up(p)) : e.name = Own(p) => Walk[p] = e
      BY <1>6, <1>7, <3>1
    <3> QED
      BY <1>1, <1>7, <3>1, <3>2
  <2> QED
    BY <2>2, <2>3
<1>8. CASE ~ IsDir(Up(p))
  BY <1>1, <1>3, <1>4, <1>8
<1> QED
  BY <1>7, <1>8

\* Where a path leads: to a sector of the disk, or nowhere; only what is
\* somewhere is a directory, or has something below it.
LEMMA WalkType ==
    ASSUME DiskType, Directories, NEW p \in Paths
    PROVE  /\ p \in Live => At(p) \in Sectors
           /\ p \notin Live => Walk[p] = Missing(p) /\ ~ IsDir(p)
           /\ IsDir(p) \in BOOLEAN
           /\ IsDir(p) => p \in Live
           /\ p \in Live /\ p # <<>> =>
                /\ Up(p) \in Live /\ IsDir(Up(p))
                /\ Walk[p] \in Listed(Up(p)) /\ Walk[p].name = Own(p)
           /\ p = <<>> => p \in Live /\ At(p) = DirectorySector /\ IsDir(p)
<1>1. Nowhere \notin Sectors /\ DirectorySector \in Sectors
  BY SectorsAre
<1>2. Missing(p).sector = Nowhere /\ Missing(p).isDirectory = FALSE
  BY DEF Missing, Entry
<1>3. CASE p = <<>>
  <2>1. Walk[p] = Entry(p, DirectorySector, TRUE)
    BY <1>3, WalkIs DEF IsWalk, Reached
  <2>2. At(p) = DirectorySector /\ IsDir(p) = TRUE
    BY <2>1 DEF At, IsDir, Entry
  <2> QED
    BY <1>1, <1>3, <2>2 DEF Live
<1>4. CASE p # <<>>
  <2>1. CASE IsDir(Up(p)) /\ Walk[p] \in Listed(Up(p)) /\ Walk[p].name = Own(p)
    <3>1. Up(p) \in Paths
      BY <1>4, PathIs
    <3>2. Walk[p] \in EntrySet
      BY <2>1, <3>1, ListedIs
    <3>3. At(p) \in Sectors /\ IsDir(p) \in BOOLEAN
      BY <3>2 DEF EntrySet, At, IsDir
    <3>4. p \in Live
      BY <1>1, <3>3 DEF Live
    <3>5. Up(p) \in Live
      BY <1>1, <2>1, <3>1 DEF Live, Directories
    <3> QED
      BY <1>4, <2>1, <3>3, <3>4, <3>5
  <2>2. CASE Walk[p] = Missing(p)
    <3>1. At(p) = Nowhere /\ IsDir(p) = FALSE
      BY <1>2, <2>2 DEF At, IsDir
    <3>2. p \notin Live
      BY <3>1 DEF Live
    <3> QED
      BY <1>4, <2>2, <3>1, <3>2
  <2> QED
    BY <1>4, <2>1, <2>2, WalkStep
<1> QED
  BY <1>3, <1>4

\* An entry of a directory that has a name is a file, or a directory, of it.
LEMMA EntryStep ==
    ASSUME DiskType, Directories, NEW q \in Paths, IsDir(q), Len(q) < MaxDepth,
           NEW e \in Listed(q), e.name \in Names
    PROVE  Walk[Append(q, e.name)] = e /\ Append(q, e.name) \in Live
<1> DEFINE p == Append(q, e.name)
<1>1. p \in Paths /\ p # <<>> /\ Up(p) = q /\ Own(p) = e.name
  BY PathAppended
<1> HIDE DEF p
<1>2. Walk[p] = e
  BY <1>1, WalkStep
<1>3. e \in EntrySet
  BY ListedIs
<1>4. At(p) \in Sectors
  BY <1>2, <1>3 DEF At, EntrySet
<1>5. p \in Live
  BY <1>1, <1>4, SectorsAre DEF Live
<1> QED
  BY <1>2, <1>5 DEF p

-------------------------------------------------------------------------------
(* A path to a directory is shorter than the longest paths: each directory on  *)
(* it, but for the root, takes its sectors.                                    *)

Extents(n) == UNION {Extent(q) : q \in {q \in Live : q # <<>> /\ Len(q) <= n}}
Each == 1 + DirectorySectors

\* A directory takes the sectors of its table and one more.
LEMMA ExtentCounted ==
    ASSUME DiskType, Directories, Owned, NEW p \in Live, IsDir(p)
    PROVE  IsFiniteSet(Extent(p)) /\ Cardinality(Extent(p)) = Each /\ Extent(p) \subseteq Sectors
<1>1. p \in Paths
  BY DEF Live
<1>2. At(p) \in Sectors /\ Cardinality(Data(p)) = DirectorySectors
  BY <1>1 DEF Directories
<1>3. Data(p) \subseteq Sectors
  BY <1>2 DEF Data, DiskType
<1>4. IsFiniteSet(Data(p))
  BY <1>3, SectorsAre, FS_Subset
<1>5. At(p) \notin Data(p)
  BY DEF Owned
<1>6. IsFiniteSet(Data(p) \cup {At(p)}) /\ Cardinality(Data(p) \cup {At(p)}) = DirectorySectors + 1
  BY <1>2, <1>4, <1>5, FS_AddElement
<1>7. DirectorySectors + 1 = Each
  BY DiskAssumption DEF Each
<1>8. Extent(p) = Data(p) \cup {At(p)}
  BY DEF Extent
<1> QED
  BY <1>2, <1>3, <1>6, <1>7, <1>8

\* The directories on a path of n names take n times that.
LEMMA Filled ==
    ASSUME DiskType, Directories, Owned, NEW p \in Live, IsDir(p)
    PROVE  \E S \in SUBSET Extents(Len(p)) : IsFiniteSet(S) /\ Cardinality(S) = Len(p) * Each
<1> DEFINE Enough(n) == \E S \in SUBSET Extents(n) : IsFiniteSet(S) /\ Cardinality(S) = n * Each
           Wrong == {n \in Nat : ~ Enough(n) /\ \E q \in Live : IsDir(q) /\ Len(q) = n}
<1>0. Each \in Nat
  BY DiskAssumption DEF Each
<1>1. ASSUME NEW n \in Wrong
      PROVE  \E m \in Wrong : m < n
  <2>1. PICK q \in Live : IsDir(q) /\ Len(q) = n
    OBVIOUS
  <2>2. q \in Paths /\ n \in Nat
    BY DEF Live
  <2>3. CASE q = <<>>
    <3>1. n = 0
      BY <2>1, <2>3
    <3>2. IsFiniteSet({}) /\ Cardinality({}) = n * Each
      BY <1>0, <3>1, FS_EmptySet
    <3>3. Enough(n)
      BY <3>2
    <3> QED
      BY <3>3
  <2>4. CASE q # <<>>
    <3>1. Up(q) \in Live /\ IsDir(Up(q))
      BY <2>2, <2>4, WalkType
    <3>2. Up(q) \in Paths /\ n = Len(Up(q)) + 1
      BY <2>1, <2>2, <2>4, PathIs
    <3>3. Len(Up(q)) \in Nat
      BY <3>2, PathsAre
    <3> DEFINE m == Len(Up(q))
    <3> SUFFICES ASSUME Enough(m) PROVE Enough(n)
      BY <3>1, <3>2, <3>3
    <3>4. PICK S \in SUBSET Extents(m) : IsFiniteSet(S) /\ Cardinality(S) = m * Each
      OBVIOUS
    <3> HIDE DEF m
    <3>5. m \in Nat /\ n = m + 1
      BY <3>2, <3>3 DEF m
    <3>6. S \cap Extent(q) = {}
      <4> SUFFICES ASSUME NEW s \in S, s \in Extent(q) PROVE FALSE
        OBVIOUS
      <4>1. PICK r \in Live : Len(r) <= m /\ s \in Extent(r)
        BY <3>4 DEF Extents
      <4>2. r # q
        BY <2>1, <3>5, <4>1
      <4> QED
        BY <4>1, <4>2 DEF Owned
    <3>7. IsFiniteSet(Extent(q)) /\ Cardinality(Extent(q)) = Each
      BY <2>1, ExtentCounted
    <3>8. /\ IsFiniteSet(S \cup Extent(q))
          /\ Cardinality(S \cup Extent(q)) = m * Each + Each - Cardinality({})
      BY <3>4, <3>6, <3>7, FS_Union
    <3>9. m * Each + Each - Cardinality({}) = n * Each
      BY <1>0, <3>5, FS_EmptySet
    <3>10. S \subseteq Extents(n)
      <4> SUFFICES ASSUME NEW s \in S PROVE s \in Extents(n)
        OBVIOUS
      <4>1. PICK r \in Live : r # <<>> /\ Len(r) <= m /\ s \in Extent(r)
        BY <3>4 DEF Extents
      <4>2. Len(r) \in Nat
        BY DEF Live, Paths
      <4>3. Len(r) <= n
        BY <3>5, <4>1, <4>2
      <4> QED
        BY <4>1, <4>3 DEF Extents
    <3>11. Extent(q) \subseteq Extents(n)
      BY <2>1, <2>2, <2>4 DEF Extents
    <3> QED
      BY <3>8, <3>9, <3>10, <3>11
  <2> QED
    BY <2>3, <2>4
<1>2. Wrong = {}
  <2> HIDE DEF Wrong
  <2>1. Wrong \subseteq Nat
    BY DEF Wrong
  <2> QED
    BY <1>1, <2>1, FirstMissed
<1>3. Len(p) \in Nat
  BY PathsAre DEF Live
<1>4. Len(p) \notin Wrong
  BY <1>2
<1>5. Enough(Len(p))
  BY <1>3, <1>4
<1> QED
  BY <1>5

\* A path to a directory can be followed by a name.
LEMMA Shallow ==
    ASSUME DiskType, Directories, Rooted, Owned, NEW p \in Live, IsDir(p)
    PROVE  Len(p) < MaxDepth
<1> DEFINE Room == NumSectors - Cardinality(SystemSectors)
<1>1. PICK S \in SUBSET Extents(Len(p)) : IsFiniteSet(S) /\ Cardinality(S) = Len(p) * Each
  BY Filled
<1>2. S \cap SystemSectors = {}
  <2> SUFFICES ASSUME NEW s \in S, s \in SystemSectors PROVE FALSE
    OBVIOUS
  <2>1. PICK q \in Live : q # <<>> /\ s \in Extent(q)
    BY <1>1 DEF Extents
  <2>2. s \notin {FreeMapSector, 2}
    BY <2>1 DEF Owned
  <2>3. s \in {DirectorySector} \cup RootData
    BY <2>2 DEF SystemSectors
  <2>4. <<>> \in Live /\ At(<<>>) = DirectorySector
    BY RootIsPath, WalkType
  <2>5. s \in Extent(<<>>)
    BY <2>3, <2>4 DEF Extent, Data, Rooted
  <2> QED
    BY <2>1, <2>4, <2>5 DEF Owned
<1>3. S \subseteq Sectors
  <2> SUFFICES ASSUME NEW s \in S PROVE s \in Sectors
    OBVIOUS
  <2>1. PICK q \in Live : s \in Extent(q)
    BY <1>1 DEF Extents
  <2>2. q \in Paths
    BY DEF Live
  <2>3. At(q) \in Sectors
    BY <2>2, WalkType
  <2> QED
    BY <2>1, <2>3 DEF Extent, Data, DiskType
<1>4. IsFiniteSet(Sectors) /\ Cardinality(Sectors) = NumSectors
  <2>1. NumSectors \in Nat
    BY DiskAssumption
  <2>2. IsFiniteSet(0 .. NumSectors - 1) /\ Cardinality(0 .. NumSectors - 1) = NumSectors
    BY <2>1, FS_Interval
  <2> QED
    BY <2>2 DEF Sectors
<1>5. IsFiniteSet(SystemSectors) /\ Cardinality(SystemSectors) \in Nat
  BY <1>4, SectorsAre, FS_Subset, FS_CardinalityType
<1>6. Cardinality(S \cup SystemSectors) = Cardinality(S) + Cardinality(SystemSectors)
  <2>1. Cardinality(S \cup SystemSectors)
          = Cardinality(S) + Cardinality(SystemSectors) - Cardinality({})
    BY <1>1, <1>2, <1>5, FS_Union
  <2>2. Cardinality(S) \in Nat /\ Cardinality({}) = 0
    BY <1>1, FS_CardinalityType, FS_EmptySet
  <2> QED
    BY <1>5, <2>1, <2>2
<1>7. Cardinality(S \cup SystemSectors) <= NumSectors
  BY <1>3, <1>4, SectorsAre, FS_Subset
<1>8. Len(p) \in Nat
  BY PathsAre DEF Live
<1>9. Each \in Nat \ {0}
  BY DiskAssumption DEF Each
<1>10. NumSectors \in Nat /\ MaxDepth \in Nat /\ MaxDepth > Room \div Each
  BY DiskAssumption DEF Each
<1>11. Len(p) * Each \in Nat
  BY <1>8, <1>9
<1>12. Room \in Nat /\ Len(p) * Each <= Room
  BY <1>1, <1>5, <1>6, <1>7, <1>10, <1>11
<1> HIDE DEF Room
<1>13. /\ Room \div Each \in Nat
       /\ Room = Each * (Room \div Each) + (Room % Each)
       /\ Room % Each \in 0 .. Each - 1
  BY <1>9, <1>12
<1>14. ASSUME Len(p) >= MaxDepth
       PROVE  FALSE
  <2> DEFINE d == Room \div Each
         r == Room % Each
  <2>4. /\ d \in Nat /\ r \in 0 .. Each - 1
        /\ Room = Each * d + r
        /\ MaxDepth > d /\ MaxDepth \in Nat
    BY <1>10, <1>13
  <2> HIDE DEF d, r
  <2>5. Each * d \in Nat
    BY <1>9, <2>4
  <2>1. d \in Nat /\ Len(p) >= d + 1 /\ Room < Each * d + Each
    BY <1>8, <1>9, <1>14, <2>4, <2>5
  <2>2. Each * d + Each = (d + 1) * Each
    BY <1>9, <2>1
  <2>3. (d + 1) * Each <= Len(p) * Each
    BY <1>8, <1>9, <2>1
  <2> QED
    BY <1>9, <1>11, <1>12, <2>1, <2>2, <2>3
<1> QED
  BY <1>8, <1>10, <1>14

-------------------------------------------------------------------------------
(* How one table changes the walk.                                             *)

\* The walk of the next state, too, is the only one.
LEMMA WalkNext == (IsWalk(Walk) /\ \A w : IsWalk(w) => w = Walk)'
<1>1. IsWalk(Walk) /\ \A w : IsWalk(w) => w = Walk
  BY WalkIs
<1> QED
  BY <1>1, PTL

WalkWith(p, x) == [q \in Paths |-> IF q = p THEN x ELSE Walk[q]]

OtherTablesKept(c, p) ==
    \A q \in Live : \A h : q # c /\ q # p /\ IsDir(q) /\ h = At(q) => Fetch(h)' = Fetch(h)

\* In the table of c the name is of the entry x, or is none.
NameSet(c, name, x) ==
    \A h : h = At(c) =>
        /\ {e \in Fetch(h)' : e.name # name} = {e \in Fetch(h) : e.name # name}
        /\ {e \in Fetch(h)' : e.name = name} = IF x.sector = Nowhere THEN {} ELSE {x}

NothingBelow(p) == \A q \in Paths : q # <<>> /\ Up(q) = p => q \notin Live
NothingIn(x) == x.isDirectory => \A e \in Fetch(x.sector)' : e.name \notin Names

\* The tables of the directories but one stay, that one gains or loses one name,
\* and nothing is below that name before or after: the walk changes there only.
LEMMA WalkChanged ==
    ASSUME DiskType, Directories,
           NEW c \in Live, IsDir(c), Len(c) < MaxDepth,
           NEW name \in Names, NEW x, NEW p, p = Append(c, name),
           OtherTablesKept(c, p), NameSet(c, name, x), NothingBelow(p), NothingIn(x),
           x.sector = Nowhere => x = Missing(p)
    PROVE  Walk' = WalkWith(p, x)
<1>0. /\ \A q \in Live : \A h : q # c /\ q # p /\ IsDir(q) /\ h = At(q) => Fetch(h)' = Fetch(h)
      /\ \A q \in Paths : q # <<>> /\ Up(q) = p => q \notin Live
      /\ x.isDirectory => \A e \in Fetch(x.sector)' : e.name \notin Names
      /\ \A h : h = At(c) =>
           /\ {e \in Fetch(h)' : e.name # name} = {e \in Fetch(h) : e.name # name}
           /\ {e \in Fetch(h)' : e.name = name} = IF x.sector = Nowhere THEN {} ELSE {x}
  BY DEF OtherTablesKept, NameSet, NothingBelow, NothingIn
<1>1. PICK w : w = [q \in Paths |-> IF q = p THEN x ELSE Walk[q]]
  OBVIOUS
<1>2. c \in Paths
  BY DEF Live
<1>3. p \in Paths /\ p # <<>> /\ Up(p) = c /\ Own(p) = name
  BY <1>2, PathAppended
<1>4. c # p
  <2>1. Len(p) = Len(Up(p)) + 1 /\ Len(c) \in Nat
    BY <1>2, <1>3, PathIs, PathsAre
  <2> QED
    BY <1>3, <2>1
<1>5. w[p] = x /\ \A q \in Paths : q # p => w[q] = Walk[q]
  BY <1>1, <1>3
<1>6. ASSUME NEW q \in Paths
      PROVE  w[q] = Reached(w, q)'
  <2>1. CASE q = <<>>
    <3>1. w[q] = Walk[q]
      BY <1>3, <1>5, <2>1
    <3>2. Walk[q] = Reached(Walk, q)
      BY WalkIs DEF IsWalk
    <3> QED
      BY <2>1, <3>1, <3>2 DEF Reached
  <2>2. CASE q # <<>>
    <3>1. Up(q) \in Paths /\ Own(q) \in Names /\ q = Append(Up(q), Own(q))
      BY <2>2, PathIs
    <3>2. Reached(w, q)' = IF Named(w, q)' = {} THEN Missing(q)
                           ELSE CHOOSE e \in Named(w, q)' : TRUE
      BY <2>2 DEF Reached, Missing
    <3>3. Reached(Walk, q) = IF Named(Walk, q) = {} THEN Missing(q)
                             ELSE CHOOSE e \in Named(Walk, q) : TRUE
      BY <2>2 DEF Reached
    <3>4. Walk[q] = Reached(Walk, q)
      BY WalkIs DEF IsWalk
    <3>5. PICK h : h = w[Up(q)].sector
      OBVIOUS
    <3>6. Named(w, q)' = IF w[Up(q)].isDirectory THEN {e \in Fetch(h)' : e.name = Own(q)} ELSE {}
      BY <3>5 DEF Named, Found
    <3>7. CASE q = p
      <4>1. w[Up(q)].isDirectory /\ h = At(c)
        BY <1>2, <1>3, <1>4, <1>5, <3>5, <3>7 DEF At, IsDir
      <4>2. Named(w, q)' = IF x.sector = Nowhere THEN {} ELSE {x}
        BY <1>0, <1>3, <3>6, <3>7, <4>1
      <4> QED
        BY <1>5, <3>2, <3>7, <4>2
    <3>8. CASE q # p /\ Up(q) = c
      <4>1. Own(q) # name
        BY <3>1, <3>8
      <4>2. w[Up(q)] = Walk[Up(q)] /\ h = At(c)
        BY <1>2, <1>4, <1>5, <3>5, <3>8 DEF At
      <4>3. {e \in Fetch(h)' : e.name = Own(q)} = {e \in Fetch(h) : e.name = Own(q)}
        <5>1. {e \in Fetch(h)' : e.name # name} = {e \in Fetch(h) : e.name # name}
          BY <1>0, <4>2
        <5> QED
          BY <4>1, <5>1
      <4>4. Named(w, q)' = Named(Walk, q)
        BY <3>6, <3>8, <4>2, <4>3 DEF Named, Found, At
      <4> QED
        BY <1>5, <3>2, <3>3, <3>4, <3>8, <4>4
    <3>9. CASE Up(q) = p
      <4>1. w[q] = Missing(q)
        <5>1. q \notin Live
          BY <1>0, <2>2, <3>9
        <5>2. Walk[q] = Missing(q)
          BY <5>1, WalkType
        <5>3. q # p
          BY <1>3, <1>4, <3>9
        <5> QED
          BY <1>5, <5>2, <5>3
      <4>2. Named(w, q)' = {}
        <5>1. h = x.sector /\ (w[Up(q)].isDirectory <=> x.isDirectory)
          BY <1>5, <3>5, <3>9
        <5>2. x.isDirectory => {e \in Fetch(h)' : e.name = Own(q)} = {}
          BY <1>0, <3>1, <5>1
        <5> QED
          BY <3>6, <5>1, <5>2
      <4> QED
        BY <3>2, <4>1, <4>2
    <3>10. CASE q # p /\ Up(q) # c /\ Up(q) # p
      <4>1. w[Up(q)] = Walk[Up(q)] /\ h = At(Up(q))
        BY <1>5, <3>1, <3>5, <3>10 DEF At
      <4>2. IsDir(Up(q)) => Up(q) \in Live
        BY <3>1, WalkType
      <4>3. IsDir(Up(q)) => Fetch(h)' = Fetch(h)
        BY <1>0, <3>10, <4>1, <4>2
      <4>4. Named(w, q)' = Named(Walk, q)
        BY <3>6, <4>1, <4>3 DEF Named, Found, At, IsDir
      <4> QED
        BY <1>5, <3>2, <3>3, <3>4, <3>10, <4>4
    <3> QED
      BY <3>7, <3>8, <3>9, <3>10
  <2> QED
    BY <2>1, <2>2
<1>7. w = [q \in Paths |-> Reached(w, q)']
  BY <1>1, <1>6
<1>8. IsWalk(w)'
  BY <1>7 DEF IsWalk
<1>9. w = Walk'
  BY <1>8, WalkNext
<1> QED
  BY <1>1, <1>9 DEF WalkWith

-------------------------------------------------------------------------------
(* Sectors to allocate.                                                        *)

\* Below an element of the lowest n, everything is.
LEMMA LowestIsBelow ==
    ASSUME NEW clear \in SUBSET Nat, IsFiniteSet(clear), NEW n \in Nat,
           NEW s \in Lowest(clear, n), NEW t \in clear \ Lowest(clear, n)
    PROVE  s < t
<1>0. s \in Nat /\ t \in Nat
  BY DEF Lowest
<1> SUFFICES ASSUME t <= s PROVE FALSE
  BY <1>0
<1> DEFINE Below(u) == {v \in clear : v < u}
<1>1. s \in clear /\ Cardinality(Below(s)) < n
  BY DEF Lowest
<1>2. ~(Cardinality(Below(t)) < n)
  BY DEF Lowest
<1>3. Below(t) \subseteq Below(s) /\ Below(s) \subseteq clear
  <2>1. \A v \in clear : v \in Nat
    OBVIOUS
  <2>2. \A v \in clear : v < t => v < s
    BY <1>0, <2>1
  <2> QED
    BY <2>2
<1>4. IsFiniteSet(Below(s))
  BY <1>3, FS_Subset
<1>5. Cardinality(Below(t)) <= Cardinality(Below(s))
  BY <1>3, <1>4, FS_Subset
<1>6. Cardinality(Below(s)) \in Nat /\ Cardinality(Below(t)) \in Nat
  BY <1>3, <1>4, FS_Subset, FS_CardinalityType
<1> QED
  BY <1>1, <1>2, <1>5, <1>6

\* The lowest n sectors are n.
LEMMA LowestIs ==
    ASSUME NEW clear \in SUBSET Nat, IsFiniteSet(clear),
           NEW n \in Nat, n <= Cardinality(clear)
    PROVE  Lowest(clear, n) \subseteq clear /\ Cardinality(Lowest(clear, n)) = n
<1> DEFINE Wrong == {k \in Nat : k <= Cardinality(clear) /\ Cardinality(Lowest(clear, k)) # k}
<1>0. Cardinality(clear) \in Nat
  BY FS_CardinalityType
<1>1. ASSUME NEW k \in Wrong
      PROVE  \E m \in Wrong : m < k
  <2>1. CASE k = 0
    <3>1. \A s \in clear : ~(Cardinality({t \in clear : t < s}) < 0)
      <4> SUFFICES ASSUME NEW s \in clear PROVE ~(Cardinality({t \in clear : t < s}) < 0)
        OBVIOUS
      <4>1. {t \in clear : t < s} \subseteq clear
        OBVIOUS
      <4>2. Cardinality({t \in clear : t < s}) \in Nat
        BY <4>1, FS_Subset, FS_CardinalityType
      <4> QED
        BY <4>2
    <3>2. Lowest(clear, 0) = {}
      BY <3>1 DEF Lowest
    <3> QED
      BY <2>1, <3>2, FS_EmptySet
  <2>2. CASE k # 0
    <3>1. k \in Nat /\ k <= Cardinality(clear)
      OBVIOUS
    <3>2. PICK m \in Nat : k = m + 1
      BY <2>2, <3>1
    <3> SUFFICES ASSUME m \notin Wrong PROVE k \notin Wrong
      BY <3>1, <3>2
    <3> DEFINE low == Lowest(clear, m)
    <3>3. Cardinality(low) = m /\ m < Cardinality(clear)
      BY <1>0, <3>1, <3>2
    <3>4. low \subseteq clear
      BY DEF Lowest
    <3>5. \A s \in low, t \in clear \ low : s < t
      BY LowestIsBelow
    <3>6. clear \ low # {}
      BY <3>3, <3>4
    <3> HIDE DEF low
    <3>7. PICK least \in clear \ low : \A t \in clear \ low : least <= t
      BY <3>6, Least
    <3>8. {t \in clear : t < least} = low
      <4>1. \A t \in clear : t \in Nat
        OBVIOUS
      <4>2. \A t \in clear : t < least => t \in low
        BY <3>7, <4>1
      <4>3. \A t \in low : t < least
        BY <3>5
      <4> QED
        BY <3>4, <4>2, <4>3
    <3>9. IsFiniteSet(low)
      BY <3>4, FS_Subset
    <3>10. \A s \in low : Cardinality({t \in clear : t < s}) < k
      <4>1. \A s \in low : Cardinality({t \in clear : t < s}) < m
        BY DEF low, Lowest
      <4>2. \A s \in low : Cardinality({t \in clear : t < s}) \in Nat
        <5> SUFFICES ASSUME NEW s \in low PROVE Cardinality({t \in clear : t < s}) \in Nat
          OBVIOUS
        <5>1. {t \in clear : t < s} \subseteq clear
          OBVIOUS
        <5> QED
          BY <5>1, FS_Subset, FS_CardinalityType
      <4> QED
        BY <3>2, <4>1, <4>2
    <3>11. Cardinality({t \in clear : t < least}) < k
      BY <3>2, <3>3, <3>8
    <3>12. IsFiniteSet(low \cup {least}) /\ Cardinality(low \cup {least}) = k
      BY <3>2, <3>3, <3>7, <3>9, FS_AddElement
    <3>13. ASSUME NEW s \in clear \ (low \cup {least})
           PROVE  ~(Cardinality({t \in clear : t < s}) < k)
      <4>1. low \cup {least} \subseteq {t \in clear : t < s}
        BY <3>4, <3>5, <3>7, <3>13
      <4>2. {t \in clear : t < s} \subseteq clear
        OBVIOUS
      <4>3. IsFiniteSet({t \in clear : t < s}) /\ Cardinality({t \in clear : t < s}) \in Nat
        BY <4>2, FS_Subset, FS_CardinalityType
      <4>4. k <= Cardinality({t \in clear : t < s})
        BY <3>12, <4>1, <4>3, FS_Subset
      <4> QED
        BY <3>1, <4>3, <4>4
    <3>14. Lowest(clear, k) = low \cup {least}
      BY <3>4, <3>7, <3>10, <3>11, <3>13 DEF Lowest
    <3> QED
      BY <3>12, <3>14
  <2> QED
    BY <2>1, <2>2
<1>2. Wrong = {}
  <2> HIDE DEF Wrong
  <2>1. Wrong \subseteq Nat
    BY DEF Wrong
  <2> QED
    BY <1>1, <2>1, FirstMissed
<1> QED
  BY <1>2 DEF Lowest

\* What there is room for is taken from clear sectors.
LEMMA RoomIs ==
    ASSUME OtherTypes, NEW n \in Nat, HasRoom(Sectors \ freeMap, n)
    PROVE  LET clear == Sectors \ freeMap
               data  == Lowest(clear \ {Min(clear)}, n)
           IN  /\ Min(clear) \in clear
               /\ data \subseteq clear \ {Min(clear)}
               /\ Cardinality(data) = n
<1> DEFINE clear == Sectors \ freeMap
           s == Min(clear)
<1>1. clear # {} /\ Cardinality(clear) - 1 >= n
  BY DEF HasRoom
<1>2. clear \in SUBSET Nat /\ IsFiniteSet(clear)
  BY SectorsAre, FS_Subset
<1> HIDE DEF clear
<1>3. s \in clear
  BY <1>1, <1>2, MinIs
<1> HIDE DEF s
<1>4. IsFiniteSet(clear \ {s}) /\ Cardinality(clear \ {s}) = Cardinality(clear) - 1
  BY <1>2, <1>3, FS_RemoveElement
<1>5. Cardinality(clear) \in Nat
  BY <1>2, FS_CardinalityType
<1>6. clear \ {s} \in SUBSET Nat /\ n <= Cardinality(clear \ {s})
  BY <1>1, <1>2, <1>4, <1>5
<1>7. Lowest(clear \ {s}, n) \subseteq clear \ {s} /\ Cardinality(Lowest(clear \ {s}, n)) = n
  BY <1>4, <1>6, LowestIs
<1> QED
  BY <1>3, <1>7 DEF s, clear

-------------------------------------------------------------------------------
(* Create and CreateDirectory.                                                 *)

\* The disk after them: the directory c has a new entry, whose header lists the
\* sectors of data.
NewEntries(c, x) == Listed(c) \cup {x}
NewDisk(c, x, data) ==
    [y \in Sectors |->
        IF x.isDirectory /\ y \in data THEN Table(Dots(x.sector))
        ELSE IF y \in Data(c) THEN Table(NewEntries(c, x))
        ELSE IF y = x.sector THEN Header(data) ELSE disk[y]]

Allocated(c, x, data) ==
    /\ c \in Live /\ IsDir(c) /\ At(c) = cdSector
    /\ x \in EntrySet /\ x.name \in Names
    /\ x.sector \in Sectors \ freeMap
    /\ data \subseteq Sectors \ freeMap /\ x.sector \notin data
    /\ x.isDirectory => Cardinality(data) = DirectorySectors
    /\ \A e \in Listed(c) : e.name # x.name
    /\ Cardinality(Listed(c)) < NumDirEntries
    /\ freeMap' = freeMap \cup {x.sector} \cup data
    /\ disk' = NewDisk(c, x, data)
    /\ UNCHANGED cdSector

\* Two headers in use are at two places, and not in each other's sectors.
LEMMA HeadersApart ==
    ASSUME Owned, NEW p \in Live, NEW q \in Live
    PROVE  /\ At(p) = At(q) => p = q
           /\ At(p) \notin Data(q)
           /\ At(p) \in freeMap /\ Data(p) \subseteq freeMap
           /\ p # q => Data(p) \cap Data(q) = {}
<1>1. At(p) \in Extent(p) /\ At(q) \in Extent(q)
  BY DEF Extent
<1>2. Data(p) \subseteq Extent(p) /\ Data(q) \subseteq Extent(q)
  BY DEF Extent
<1>3. At(p) \notin Data(p) /\ Extent(p) \subseteq freeMap
  BY DEF Owned
<1>4. p # q => Extent(p) \cap Extent(q) = {}
  BY DEF Owned
<1> QED
  BY <1>1, <1>2, <1>3, <1>4

\* Allocate finds its sectors clear and writes three kinds of them.
LEMMA AllocateIs ==
    ASSUME IInv, NEW name \in Names, NEW n \in Nat, NEW isDirectory \in BOOLEAN,
           isDirectory => n = DirectorySectors,
           CanCreate(name, n), Allocate(name, n, isDirectory), UNCHANGED cdSector
    PROVE  \E c, x, data :
             /\ Allocated(c, x, data) /\ Cardinality(data) = n
             /\ x.name = name /\ x.isDirectory = isDirectory
<1> DEFINE clear   == Sectors \ freeMap
           s       == Min(clear)
           data    == Lowest(clear \ {s}, n)
           x       == Entry(name, s, isDirectory)
           entries == Fetch(cdSector) \cup {x}
           held    == [disk EXCEPT ![s] = Header(data)]
           listed  == WriteBack(held, cdSector, entries)
<1>1. /\ freeMap' = freeMap \cup {s} \cup data
      /\ disk' = IF isDirectory THEN WriteBack(listed, s, Dots(s)) ELSE listed
  BY DEF Allocate
<1>2. HasRoom(clear, n)
  BY DEF CanCreate
<1>3. s \in clear /\ data \subseteq clear \ {s} /\ Cardinality(data) = n
  BY <1>2, RoomIs DEF IInv
<1>4. PICK c \in Live : IsDir(c) /\ At(c) = cdSector
  BY DEF IInv, Here
<1> HIDE DEF s, data
<1>16. x.name = name /\ x.sector = s /\ x.isDirectory = isDirectory /\ x \in EntrySet
  BY <1>3 DEF Entry, EntrySet
<1> HIDE DEF x
<1>5. At(c) # s /\ s \notin Data(c) /\ Data(c) \cap data = {}
  BY <1>3, <1>4, HeadersApart DEF IInv
<1>6. DOMAIN disk = Sectors
  BY DEF IInv, DiskType
<1>7. held = [y \in Sectors |-> IF y = s THEN Header(data) ELSE disk[y]]
  BY <1>3, <1>6
<1>8. cdSector \in Sectors
  BY DEF IInv, OtherTypes
<1> HIDE DEF held
<1>9. held[cdSector].data = Data(c)
  BY <1>4, <1>5, <1>7, <1>8 DEF Data
<1>10. entries = NewEntries(c, x)
  BY <1>4 DEF NewEntries, Listed
<1> HIDE DEF entries
<1>11. listed = [y \in Sectors |-> IF y \in Data(c) THEN Table(entries) ELSE held[y]]
  BY <1>9 DEF WriteBack
<1> HIDE DEF listed
<1>12. listed[s].data = data
  BY <1>3, <1>5, <1>7, <1>11 DEF Header
<1>13. WriteBack(listed, s, Dots(s))
         = [y \in Sectors |-> IF y \in data THEN Table(Dots(s)) ELSE listed[y]]
  BY <1>12 DEF WriteBack
<1>14. disk' = NewDisk(c, x, data)
  <2>1. CASE isDirectory
    <3>1. disk' = [y \in Sectors |-> IF y \in data THEN Table(Dots(s)) ELSE listed[y]]
      BY <1>1, <1>13, <2>1
    <3> QED
      BY <1>7, <1>10, <1>11, <1>16, <2>1, <3>1 DEF NewDisk
  <2>2. CASE ~isDirectory
    BY <1>1, <1>7, <1>10, <1>11, <1>16, <2>2 DEF NewDisk
  <2> QED
    BY <2>1, <2>2
<1>15. /\ \A e \in Listed(c) : e.name # name
       /\ Cardinality(Listed(c)) < NumDirEntries
  BY <1>4 DEF CanCreate, Listed, Found
<1> QED
  <2>1. x.isDirectory => Cardinality(data) = DirectorySectors
    BY <1>3, <1>16
  <2>2. Allocated(c, x, data)
    BY <1>1, <1>3, <1>4, <1>14, <1>15, <1>16, <2>1 DEF Allocated
  <2> QED
    BY <1>3, <1>16, <2>2

\* What it changes: no header of a file, and the table of one directory.
LEMMA AllocatedDisk ==
    ASSUME IInv, NEW c, NEW x, NEW data, Allocated(c, x, data)
    PROVE  /\ \A q \in Live : \A h : h = At(q) =>
                /\ disk'[h] = disk[h]
                /\ q # c /\ IsDir(q) => Fetch(h)' = Fetch(h)
           /\ \A h : h = At(c) => Fetch(h)' = NewEntries(c, x)
           /\ disk'[x.sector].data = data
           /\ x.isDirectory => Fetch(x.sector)' = Dots(x.sector)
<1>1. /\ c \in Live /\ IsDir(c) /\ x.sector \in Sectors \ freeMap
      /\ data \subseteq Sectors \ freeMap /\ x.sector \notin data
      /\ x.isDirectory => Cardinality(data) = DirectorySectors
      /\ disk' = NewDisk(c, x, data)
  BY DEF Allocated
<1>2. \A y \in Sectors : y \notin data /\ y \notin Data(c) /\ y # x.sector => disk'[y] = disk[y]
  BY <1>1 DEF NewDisk
<1>3. \A y \in Data(c) : y \in Sectors =>
        disk'[y] = Table(NewEntries(c, x))
  <2>1. Data(c) \subseteq freeMap
    BY <1>1, HeadersApart DEF IInv
  <2> QED
    BY <1>1, <2>1 DEF NewDisk
<1>4. ASSUME NEW q \in Live, NEW h, h = At(q)
      PROVE  /\ disk'[h] = disk[h]
             /\ q # c /\ IsDir(q) => Fetch(h)' = Fetch(h)
             /\ q = c => Fetch(h)' = NewEntries(c, x)
  <2>1. h \in Sectors
    BY <1>4, WalkType DEF Live, IInv
  <2>2. h \in freeMap /\ h \notin Data(c)
    BY <1>1, <1>4, HeadersApart DEF IInv
  <2>3. disk'[h] = disk[h]
    BY <1>1, <1>2, <2>1, <2>2
  <2>4. ASSUME IsDir(q)
        PROVE  /\ q # c => Fetch(h)' = Fetch(h)
               /\ q = c => Fetch(h)' = NewEntries(c, x)
    <3> DEFINE m == Min(disk[h].data)
    <3>1. m \in Data(q) /\ Data(q) = disk[h].data
      BY <1>4, <2>4, ListedIs DEF Live, IInv, Data
    <3>2. m \in Sectors /\ m \in freeMap
      <4>1. Data(q) \subseteq Sectors
        BY <2>1, <3>1 DEF IInv, DiskType
      <4>2. Data(q) \subseteq freeMap
        BY HeadersApart DEF IInv
      <4> QED
        BY <3>1, <4>1, <4>2
    <3>3. Fetch(h)' = disk'[m].entries /\ Fetch(h) = disk[m].entries
      BY <2>3 DEF Fetch
    <3> HIDE DEF m
    <3>4. q # c => m \notin Data(c)
      BY <1>1, <3>1, HeadersApart DEF IInv
    <3>5. q # c => disk'[m] = disk[m]
      BY <1>1, <1>2, <3>2, <3>4
    <3>6. q = c => disk'[m] = Table(NewEntries(c, x))
      BY <1>3, <3>1, <3>2
    <3> QED
      BY <3>3, <3>5, <3>6 DEF Table
  <2> QED
    BY <1>1, <2>3, <2>4
<1>5. disk'[x.sector] = Header(data)
  <2>1. x.sector \notin Data(c)
    BY <1>1, HeadersApart DEF IInv
  <2> QED
    BY <1>1, <2>1 DEF NewDisk
<1>6. disk'[x.sector].data = data
  BY <1>5 DEF Header
<1>7. ASSUME x.isDirectory
      PROVE  Fetch(x.sector)' = Dots(x.sector)
  <2>1. data # {} /\ data \in SUBSET Nat
    BY <1>1, <1>7, CountedIsNotEmpty, SectorsAre
  <2> DEFINE m == Min(data)
  <2>2. m \in data
    BY <2>1, MinIs
  <2>3. Fetch(x.sector)' = disk'[m].entries
    BY <1>6 DEF Fetch
  <2> HIDE DEF m
  <2>4. disk'[m] = Table(Dots(x.sector))
    BY <1>1, <1>7, <2>2 DEF NewDisk
  <2> QED
    BY <2>3, <2>4 DEF Table
<1> QED
  BY <1>1, <1>4, <1>6, <1>7

\* It changes the walk for one path, that led nowhere.
LEMMA AllocatedWalk ==
    ASSUME IInv, NEW c, NEW x, NEW data, Allocated(c, x, data), NEW p, p = Append(c, x.name)
    PROVE  /\ p \in Paths \ Live /\ p # <<>> /\ Up(p) = c /\ Own(p) = x.name
           /\ Walk' = WalkWith(p, x)
<1>1. /\ c \in Live /\ IsDir(c) /\ At(c) = cdSector
      /\ x.sector \in Sectors /\ x.sector \notin freeMap
      /\ x.name \in Names /\ \A e \in Listed(c) : e.name # x.name
  BY DEF Allocated
<1>2. c \in Paths /\ Len(c) < MaxDepth
  BY <1>1, Shallow DEF Live, IInv
<1>3. p \in Paths /\ p # <<>> /\ Up(p) = c /\ Own(p) = x.name
  BY <1>1, <1>2, PathAppended
<1>4. p \notin Live
  <2>1. ~(Walk[p] \in Listed(Up(p)) /\ Walk[p].name = Own(p))
    BY <1>1, <1>3
  <2> QED
    BY <1>3, <2>1, WalkType DEF IInv
<1>5. OtherTablesKept(c, p)
  BY AllocatedDisk DEF OtherTablesKept
<1>6. ASSUME NEW h, h = At(c)
      PROVE  /\ {e \in Fetch(h)' : e.name # x.name} = {e \in Fetch(h) : e.name # x.name}
             /\ {e \in Fetch(h)' : e.name = x.name} = IF x.sector = Nowhere THEN {} ELSE {x}
  <2>1. Fetch(h)' = Fetch(h) \cup {x}
    BY <1>6, AllocatedDisk DEF NewEntries, Listed
  <2>2. x.sector # Nowhere
    BY <1>1, SectorsAre
  <2>3. \A e \in Fetch(h) : e.name # x.name
    BY <1>1, <1>6 DEF Listed
  <2> QED
    BY <2>1, <2>2, <2>3
<1>7. x.sector # Nowhere
  BY <1>1, SectorsAre
<1>8. NothingBelow(p)
  BY <1>4, WalkType DEF IInv, NothingBelow
<1>9. NothingIn(x)
  <2> SUFFICES ASSUME x.isDirectory PROVE \A e \in Fetch(x.sector)' : e.name \notin Names
    BY DEF NothingIn
  <2>1. Fetch(x.sector)' = Dots(x.sector)
    BY AllocatedDisk
  <2>2. Dot \notin Names /\ DotDot \notin Names
    BY DiskAssumption
  <2> QED
    BY <2>1, <2>2 DEF Dots, Entry
<1>10. Walk' = WalkWith(p, x)
  <2>1. NameSet(c, x.name, x)
    BY <1>6 DEF NameSet
  <2>2. DiskType /\ Directories
    BY DEF IInv
  <2> QED
    BY <1>1, <1>2, <1>5, <1>7, <1>8, <1>9, <2>1, <2>2, WalkChanged
<1> QED
  BY <1>3, <1>4, <1>10

PathAdded(p, x, data) ==
    /\ Live' = Live \cup {p}
    /\ \A q \in Paths : q # p => At(q)' = At(q) /\ IsDir(q)' = IsDir(q)
    /\ \A q \in Live : Data(q)' = Data(q) /\ Extent(q)' = Extent(q)
    /\ At(p)' = x.sector /\ IsDir(p)' = x.isDirectory /\ Data(p)' = data
    /\ Extent(p)' = {x.sector} \cup data

\* What the paths lead to afterwards.
LEMMA AllocatedPaths ==
    ASSUME IInv, NEW c, NEW x, NEW data, Allocated(c, x, data), NEW p, p = Append(c, x.name)
    PROVE  PathAdded(p, x, data)
<1>1. p \in Paths \ Live /\ Walk' = WalkWith(p, x)
  BY AllocatedWalk
<1>2. \A q \in Paths : q # p => Walk'[q] = Walk[q]
  BY <1>1 DEF WalkWith
<1>3. \A q \in Paths : q # p => At(q)' = At(q) /\ IsDir(q)' = IsDir(q)
  BY <1>2 DEF At, IsDir
<1>4. Walk'[p] = x
  BY <1>1 DEF WalkWith
<1>5. At(p)' = x.sector /\ IsDir(p)' = x.isDirectory
  BY <1>4 DEF At, IsDir
<1>6. x.sector # Nowhere
  BY SectorsAre DEF Allocated
<1>7. Live' = Live \cup {p}
  <2>1. Live' = {q \in Paths : At(q)' # Nowhere}
    BY DEF Live
  <2> QED
    BY <1>1, <1>3, <1>5, <1>6, <2>1 DEF Live
<1>8. ASSUME NEW q \in Live
      PROVE  Data(q)' = Data(q) /\ Extent(q)' = Extent(q)
  <2>1. At(q)' = At(q)
    BY <1>1, <1>3 DEF Live
  <2>2. disk'[At(q)] = disk[At(q)]
    BY AllocatedDisk
  <2>3. Data(q)' = Data(q)
    BY <2>1, <2>2 DEF Data
  <2> QED
    BY <2>1, <2>3 DEF Extent
<1>9. Data(p)' = data
  <2>1. disk'[x.sector].data = data
    BY AllocatedDisk
  <2> QED
    BY <1>5, <2>1 DEF Data
<1> QED
  BY <1>3, <1>5, <1>7, <1>8, <1>9 DEF Extent, PathAdded

\* The types after them.
LEMMA AllocatedTypes ==
    ASSUME IInv, NEW c, NEW x, NEW data, Allocated(c, x, data)
    PROVE  DiskType'
<1> DEFINE Fine(y) == /\ disk'[y] \in [data : SUBSET Sectors, entries : SUBSET EntrySet]
                      /\ IsFiniteSet(disk'[y].entries)
                      /\ Cardinality(disk'[y].entries) <= NumDirEntries
                      /\ disk'[y].data = {} \/ disk'[y].entries = {}
                      /\ \A e, f \in disk'[y].entries : e.name = f.name => e = f
<1>1. /\ c \in Live /\ IsDir(c) /\ x \in EntrySet /\ x.sector \in Sectors
      /\ data \subseteq Sectors
      /\ \A e \in Listed(c) : e.name # x.name
      /\ Cardinality(Listed(c)) < NumDirEntries
      /\ disk' = NewDisk(c, x, data)
  BY DEF Allocated
<1>2. /\ NewEntries(c, x) \subseteq EntrySet /\ IsFiniteSet(NewEntries(c, x))
      /\ Cardinality(NewEntries(c, x)) <= NumDirEntries
      /\ \A e, f \in NewEntries(c, x) : e.name = f.name => e = f
  <2>1. /\ Listed(c) \subseteq EntrySet /\ IsFiniteSet(Listed(c))
        /\ \A e, f \in Listed(c) : e.name = f.name => e = f
    BY <1>1, ListedIs DEF IInv, Live
  <2>2. /\ IsFiniteSet(Listed(c) \cup {x})
        /\ Cardinality(Listed(c) \cup {x}) = Cardinality(Listed(c)) + 1
    BY <1>1, <2>1, FS_AddElement
  <2>3. Cardinality(Listed(c)) \in Nat /\ NumDirEntries \in Nat
    BY <2>1, FS_CardinalityType, DiskAssumption
  <2>4. Cardinality(Listed(c) \cup {x}) <= NumDirEntries
    BY <1>1, <2>2, <2>3
  <2> QED
    BY <1>1, <2>1, <2>2, <2>4 DEF NewEntries
<1>3. /\ Dots(x.sector) \subseteq EntrySet /\ IsFiniteSet(Dots(x.sector))
      /\ Cardinality(Dots(x.sector)) <= NumDirEntries
      /\ \A e, f \in Dots(x.sector) : e.name = f.name => e = f
  <2> DEFINE d == Entry(Dot, x.sector, TRUE)
             dd == Entry(DotDot, cdSector, TRUE)
  <2>1. d \in EntrySet /\ dd \in EntrySet
    BY <1>1 DEF Entry, EntrySet, IInv, OtherTypes
  <2>2. d.name # dd.name
    BY DiskAssumption DEF Entry
  <2>3. Dots(x.sector) = {d} \cup {dd}
    BY DEF Dots
  <2> HIDE DEF d, dd
  <2>4. d # dd
    BY <2>2
  <2>5. IsFiniteSet({d}) /\ Cardinality({d}) = 1
    BY FS_Singleton
  <2>6. IsFiniteSet({d} \cup {dd}) /\ Cardinality({d} \cup {dd}) = 2
    BY <2>4, <2>5, FS_AddElement
  <2>7. 2 <= NumDirEntries
    BY DiskAssumption
  <2> QED
    BY <2>1, <2>2, <2>3, <2>6, <2>7
<1>4. ASSUME NEW y \in Sectors
      PROVE  \/ disk'[y] = disk[y]
             \/ disk'[y] = Header(data)
             \/ \E t \in {Dots(x.sector), NewEntries(c, x)} : disk'[y] = Table(t)
  BY <1>1 DEF NewDisk
<1>5. DOMAIN disk' = Sectors /\ disk' = [y \in Sectors |-> disk'[y]]
  BY <1>1 DEF NewDisk
<1>6. IsFiniteSet({}) /\ Cardinality({}) <= NumDirEntries
  BY FS_EmptySet, DiskAssumption
<1>7. ASSUME NEW y \in Sectors
      PROVE  Fine(y)
  <2>1. CASE disk'[y] = disk[y]
    BY <2>1 DEF IInv, DiskType
  <2>2. CASE disk'[y] = Header(data)
    <3>1. disk'[y].data = data /\ disk'[y].entries = {}
      BY <2>2 DEF Header
    <3>2. disk'[y] \in [data : SUBSET Sectors, entries : SUBSET EntrySet]
      BY <1>1, <2>2 DEF Header
    <3> QED
      BY <1>6, <3>1, <3>2
  <2>3. ASSUME NEW t \in {Dots(x.sector), NewEntries(c, x)}, disk'[y] = Table(t)
        PROVE  Fine(y)
    <3>1. disk'[y].data = {} /\ disk'[y].entries = t
      BY <2>3 DEF Table
    <3>2. /\ t \subseteq EntrySet /\ IsFiniteSet(t) /\ Cardinality(t) <= NumDirEntries
          /\ \A e, f \in t : e.name = f.name => e = f
      BY <1>2, <1>3
    <3>3. disk'[y] \in [data : SUBSET Sectors, entries : SUBSET EntrySet]
      BY <2>3, <3>2 DEF Table
    <3> QED
      BY <3>1, <3>2, <3>3
  <2> QED
    BY <1>4, <2>1, <2>2, <2>3
<1>8. disk' \in [Sectors -> [data : SUBSET Sectors, entries : SUBSET EntrySet]]
  BY <1>5, <1>7
<1> QED
  BY <1>7, <1>8 DEF DiskType

\* The directories after them, one more if the entry is of a directory.
LEMMA AllocatedDirectories ==
    ASSUME IInv, NEW c, NEW x, NEW data, Allocated(c, x, data)
    PROVE  Directories'
<1>0. PICK p : p = Append(c, x.name)
  OBVIOUS
<1>1. /\ c \in Live /\ IsDir(c) /\ At(c) = cdSector
      /\ x \in EntrySet /\ x.name \in Names /\ x.sector \in Sectors
      /\ x.isDirectory => Cardinality(data) = DirectorySectors
  BY DEF Allocated
<1>2. p \in Paths \ Live /\ p # <<>> /\ Up(p) = c
  BY <1>0, AllocatedWalk
<1>3. /\ \A q \in Paths : q # p => At(q)' = At(q) /\ IsDir(q)' = IsDir(q)
      /\ \A q \in Live : Data(q)' = Data(q)
      /\ At(p)' = x.sector /\ IsDir(p)' = x.isDirectory /\ Data(p)' = data
  <2>1. PathAdded(p, x, data)
    BY <1>0, AllocatedPaths
  <2> QED
    BY <2>1 DEF PathAdded
<1>4. \A h : h = At(c) => Fetch(h)' = Fetch(h) \cup {x}
  BY AllocatedDisk DEF NewEntries, Listed
<1>5. \A q \in Live : \A h : h = At(q) /\ q # c /\ IsDir(q) => Fetch(h)' = Fetch(h)
  BY AllocatedDisk
<1>6. Dot \notin Names /\ DotDot \notin Names
  BY DiskAssumption
<1> SUFFICES ASSUME NEW q \in Paths, IsDir(q)'
             PROVE  /\ At(q)' \in Sectors
                    /\ Cardinality(Data(q)') = DirectorySectors
                    /\ {e \in Listed(q)' : e.name \in {Dot, DotDot}} = DotsOf(q)'
  BY DEF Directories
<1>7. PICK h : h = At(q)'
  OBVIOUS
<1>8. Listed(q)' = Fetch(h)'
  BY <1>7 DEF Listed, Fetch
<1>9. CASE q = p
  <2>1. x.isDirectory
    BY <1>3, <1>9
  <2>2. h = x.sector
    BY <1>3, <1>7, <1>9
  <2>3. Fetch(h)' = Dots(x.sector)
    BY <2>1, <2>2, AllocatedDisk
  <2>4. c # p
    BY <1>1, <1>2
  <2>5. At(c)' = cdSector
    BY <1>1, <1>3, <2>4 DEF Live
  <2>6. DotsOf(q)' = {Entry(Dot, x.sector, TRUE), Entry(DotDot, cdSector, TRUE)}
    BY <1>2, <1>3, <1>9, <2>5 DEF DotsOf
  <2>7. {e \in Dots(x.sector) : e.name \in {Dot, DotDot}} = Dots(x.sector)
    BY DEF Dots, Entry
  <2> QED
    BY <1>1, <1>3, <1>8, <1>9, <2>1, <2>3, <2>6, <2>7 DEF Dots
<1>10. CASE q # p
  <2>1. IsDir(q) /\ h = At(q)
    BY <1>3, <1>7, <1>10
  <2>2. q \in Live
    BY <2>1, WalkType DEF IInv
  <2>3. /\ At(q) \in Sectors /\ Cardinality(Data(q)) = DirectorySectors
        /\ {e \in Listed(q) : e.name \in {Dot, DotDot}} = DotsOf(q)
    BY <2>1 DEF IInv, Directories
  <2>4. At(q)' = At(q) /\ Data(q)' = Data(q)
    BY <1>3, <1>10, <2>2
  <2>5. {e \in Fetch(h)' : e.name \in {Dot, DotDot}} = {e \in Fetch(h) : e.name \in {Dot, DotDot}}
    <3>1. CASE q = c
      <4>1. Fetch(h)' = Fetch(h) \cup {x}
        BY <1>4, <2>1, <3>1
      <4> QED
        BY <1>1, <1>6, <4>1
    <3>2. CASE q # c
      BY <1>5, <2>1, <2>2, <3>2
    <3> QED
      BY <3>1, <3>2
  <2>6. DotsOf(q)' = DotsOf(q)
    <3>1. CASE q = <<>>
      BY <3>1 DEF DotsOf
    <3>2. CASE q # <<>>
      <4>1. Up(q) \in Live
        BY <2>2, <3>2, WalkType DEF IInv
      <4>2. At(Up(q))' = At(Up(q))
        BY <1>2, <1>3, <4>1 DEF Live
      <4> QED
        BY <2>4, <3>2, <4>2 DEF DotsOf
    <3> QED
      BY <3>1, <3>2
  <2>7. Listed(q) = Fetch(h)
    BY <2>1 DEF Listed
  <2> QED
    BY <1>8, <2>3, <2>4, <2>5, <2>6, <2>7
<1> QED
  BY <1>9, <1>10

\* The owners of the sectors after them.
LEMMA AllocatedOwned ==
    ASSUME IInv, NEW c, NEW x, NEW data, Allocated(c, x, data)
    PROVE  Owned'
<1>0. PICK p : p = Append(c, x.name)
  OBVIOUS
<1>1. /\ x.sector \in Sectors \ freeMap /\ data \subseteq Sectors \ freeMap /\ x.sector \notin data
      /\ freeMap' = freeMap \cup {x.sector} \cup data
  BY DEF Allocated
<1>2. p \in Paths \ Live
  BY <1>0, AllocatedWalk
<1>3. /\ Live' = Live \cup {p}
      /\ \A q \in Paths : q # p => At(q)' = At(q)
      /\ \A q \in Live : Data(q)' = Data(q) /\ Extent(q)' = Extent(q)
      /\ At(p)' = x.sector /\ Data(p)' = data
      /\ Extent(p)' = {x.sector} \cup data
  <2>1. PathAdded(p, x, data)
    BY <1>0, AllocatedPaths
  <2> QED
    BY <2>1 DEF PathAdded
<1>4. /\ {FreeMapSector, 2} \subseteq freeMap
      /\ \A q \in Live : Extent(q) \subseteq freeMap \ {FreeMapSector, 2}
      /\ \A s \in freeMap \ {FreeMapSector, 2} : \E q \in Live : s \in Extent(q)
      /\ \A q \in Live : At(q) \notin Data(q)
      /\ \A q, r \in Live : q # r => Extent(q) \cap Extent(r) = {}
  BY DEF IInv, Owned
<1>5. Extent(p)' \cap freeMap = {}
  BY <1>1, <1>3
<1>6. ({FreeMapSector, 2} \subseteq freeMap)'
  BY <1>1, <1>4
<1>7. ASSUME NEW q \in Live'
      PROVE  Extent(q)' \subseteq freeMap' \ {FreeMapSector, 2}
  <2>1. CASE q = p
    BY <1>1, <1>3, <1>4, <2>1
  <2>2. CASE q \in Live
    BY <1>1, <1>3, <1>4, <2>2
  <2> QED
    BY <1>3, <2>1, <2>2
<1>8. ASSUME NEW s \in freeMap' \ {FreeMapSector, 2}
      PROVE  \E q \in Live' : s \in Extent(q)'
  <2>1. CASE s \in freeMap
    <3>1. PICK q \in Live : s \in Extent(q)
      BY <1>4, <2>1
    <3> QED
      BY <1>3, <3>1
  <2>2. CASE s \in {x.sector} \cup data
    BY <1>3, <2>2
  <2> QED
    BY <1>1, <2>1, <2>2
<1>9. ASSUME NEW q \in Live'
      PROVE  At(q)' \notin Data(q)'
  <2>1. CASE q = p
    BY <1>1, <1>3, <2>1
  <2>2. CASE q \in Live
    BY <1>2, <1>3, <1>4, <2>2 DEF Live
  <2> QED
    BY <1>3, <2>1, <2>2
<1>10. ASSUME NEW q \in Live', NEW r \in Live', q # r
       PROVE  Extent(q)' \cap Extent(r)' = {}
  <2>1. CASE q \in Live /\ r \in Live
    BY <1>3, <1>4, <1>10, <2>1
  <2>2. CASE q = p
    <3>1. r \in Live
      BY <1>3, <1>10, <2>2
    <3>2. Extent(r)' \subseteq freeMap
      BY <1>3, <1>4, <3>1
    <3> QED
      BY <1>5, <2>2, <3>2
  <2>3. CASE r = p
    <3>1. q \in Live
      BY <1>3, <1>10, <2>3
    <3>2. Extent(q)' \subseteq freeMap
      BY <1>3, <1>4, <3>1
    <3> QED
      BY <1>5, <2>3, <3>2
  <2> QED
    BY <1>3, <2>1, <2>2, <2>3
<1> QED
  BY <1>6, <1>7, <1>8, <1>9, <1>10 DEF Owned

\* The invariant after them.
LEMMA AllocatedInv ==
    ASSUME IInv, NEW c, NEW x, NEW data, Allocated(c, x, data),
           answer' \in BOOLEAN, UNCHANGED halted
    PROVE  IInv'
<1>0. PICK p : p = Append(c, x.name)
  OBVIOUS
<1>1. DiskType' /\ Directories' /\ Owned'
  BY AllocatedTypes, AllocatedDirectories, AllocatedOwned
<1>2. /\ c \in Live /\ IsDir(c) /\ At(c) = cdSector /\ UNCHANGED cdSector
      /\ x.sector \in Sectors /\ data \subseteq Sectors
      /\ freeMap' = freeMap \cup {x.sector} \cup data
  BY DEF Allocated
<1>3. OtherTypes'
  BY <1>2 DEF IInv, OtherTypes
<1>4. Rooted'
  <2>1. <<>> \in Live /\ At(<<>>) = DirectorySector
    BY RootIsPath, WalkType DEF IInv
  <2>2. disk'[DirectorySector] = disk[DirectorySector]
    BY <2>1, AllocatedDisk
  <2> QED
    BY <2>2 DEF IInv, Rooted
<1>5. Here'
  <2>1. p \in Paths \ Live
    BY <1>0, AllocatedWalk
  <2>2. Live' = Live \cup {p} /\ \A q \in Paths : q # p => At(q)' = At(q) /\ IsDir(q)' = IsDir(q)
    <3>1. PathAdded(p, x, data)
      BY <1>0, AllocatedPaths
    <3> QED
      BY <3>1 DEF PathAdded
  <2>3. c \in Live' /\ IsDir(c)' /\ At(c)' = cdSector'
    BY <1>2, <2>1, <2>2 DEF Live
  <2> QED
    BY <2>3 DEF Here
<1> QED
  BY <1>1, <1>3, <1>4, <1>5 DEF IInv

-------------------------------------------------------------------------------
(* Remove.                                                                     *)

\* The entry x of the directory c is removed.
Shortened(c, x) ==
    [y \in Sectors |-> IF y \in Data(c) THEN Table(Listed(c) \ {x}) ELSE disk[y]]

Removed(c, x) ==
    /\ c \in Live /\ IsDir(c) /\ At(c) = cdSector
    /\ x \in Listed(c) /\ x.name \in Names
    /\ CanRemove(x)
    /\ freeMap' = freeMap \ Freed(x)
    /\ disk' = Shortened(c, x)
    /\ UNCHANGED cdSector

\* Remove finds the entry in the current directory, which a path leads to.
LEMMA RemoveIs ==
    ASSUME IInv, NEW name \in Names, NEW x \in Found(Fetch(cdSector), name), CanRemove(x),
           freeMap' = freeMap \ Freed(x),
           disk' = WriteBack(disk, cdSector, Fetch(cdSector) \ {x}),
           UNCHANGED cdSector
    PROVE  \E c : Removed(c, x)
<1>1. PICK c \in Live : IsDir(c) /\ At(c) = cdSector
  BY DEF IInv, Here
<1>2. x \in Listed(c) /\ x.name = name
  BY <1>1 DEF Found, Listed
<1>3. disk' = Shortened(c, x)
  BY <1>1 DEF WriteBack, Shortened, Data, Listed
<1> QED
  BY <1>1, <1>2, <1>3 DEF Removed

LeadsTo(p, c, x) ==
    /\ p \in Live /\ p # <<>> /\ Up(p) = c /\ c # p
    /\ Walk[p] = x /\ At(p) = x.sector /\ Freed(x) = Extent(p)
    /\ NothingBelow(p)

\* The entry is where its path leads, and nothing is below.
LEMMA RemovedEntry ==
    ASSUME IInv, NEW c, NEW x, Removed(c, x), NEW p, p = Append(c, x.name)
    PROVE  LeadsTo(p, c, x)
<1>1. c \in Live /\ IsDir(c) /\ x \in Listed(c) /\ x.name \in Names /\ CanRemove(x)
  BY DEF Removed
<1>2. c \in Paths /\ Len(c) < MaxDepth
  BY <1>1, Shallow DEF Live, IInv
<1>3. p \in Paths /\ p # <<>> /\ Up(p) = c /\ Own(p) = x.name
  BY <1>1, <1>2, PathAppended
<1>4. Walk[p] = x /\ p \in Live
  BY <1>1, <1>2, EntryStep DEF IInv
<1>5. c # p
  <2>1. Len(p) = Len(Up(p)) + 1 /\ Len(c) \in Nat
    BY <1>2, <1>3, PathIs, PathsAre
  <2> QED
    BY <1>3, <2>1
<1>6. At(p) = x.sector /\ (IsDir(p) <=> x.isDirectory)
  BY <1>4 DEF At, IsDir
<1>7. Freed(x) = Extent(p)
  BY <1>6 DEF Freed, Extent, Data
<1>8. ASSUME NEW q \in Paths, q # <<>>, Up(q) = p, q \in Live
      PROVE  FALSE
  <2>1. IsDir(p) /\ Walk[q] \in Listed(p) /\ Walk[q].name = Own(q)
    <3>1. IsDir(Up(q)) /\ Walk[q] \in Listed(Up(q)) /\ Walk[q].name = Own(q)
      BY <1>8, WalkType DEF IInv
    <3> QED
      BY <1>8, <3>1
  <2>2. IsEmpty(Fetch(x.sector))
    BY <1>1, <1>6, <2>1 DEF CanRemove
  <2>3. Own(q) \in {Dot, DotDot}
    BY <1>6, <2>1, <2>2 DEF IsEmpty, Listed
  <2>4. Own(q) \in Names
    BY <1>8, PathIs
  <2> QED
    BY <2>3, <2>4, DiskAssumption
<1> QED
  BY <1>3, <1>4, <1>5, <1>6, <1>7, <1>8 DEF NothingBelow, LeadsTo

\* What it changes: no header, and the table of one directory.
LEMMA RemovedDisk ==
    ASSUME IInv, NEW c, NEW x, Removed(c, x)
    PROVE  /\ \A q \in Live : \A h : h = At(q) =>
                /\ disk'[h] = disk[h]
                /\ q # c /\ IsDir(q) => Fetch(h)' = Fetch(h)
           /\ \A h : h = At(c) => Fetch(h)' = Listed(c) \ {x}
<1>1. c \in Live /\ IsDir(c) /\ disk' = Shortened(c, x)
  BY DEF Removed
<1>2. \A y \in Sectors : y \notin Data(c) => disk'[y] = disk[y]
  BY <1>1 DEF Shortened
<1>3. \A y \in Data(c) : y \in Sectors => disk'[y] = Table(Listed(c) \ {x})
  BY <1>1 DEF Shortened
<1>4. ASSUME NEW q \in Live, NEW h, h = At(q)
      PROVE  /\ disk'[h] = disk[h]
             /\ q # c /\ IsDir(q) => Fetch(h)' = Fetch(h)
             /\ q = c => Fetch(h)' = Listed(c) \ {x}
  <2>1. h \in Sectors
    BY <1>4, WalkType DEF Live, IInv
  <2>2. h \notin Data(c)
    BY <1>1, <1>4, HeadersApart DEF IInv
  <2>3. disk'[h] = disk[h]
    BY <1>2, <2>1, <2>2
  <2>4. ASSUME IsDir(q)
        PROVE  /\ q # c => Fetch(h)' = Fetch(h)
               /\ q = c => Fetch(h)' = Listed(c) \ {x}
    <3> DEFINE m == Min(disk[h].data)
    <3>1. m \in Data(q) /\ Data(q) = disk[h].data
      BY <1>4, <2>4, ListedIs DEF Live, IInv, Data
    <3>2. m \in Sectors
      <4>1. Data(q) \subseteq Sectors
        BY <2>1, <3>1 DEF IInv, DiskType
      <4> QED
        BY <3>1, <4>1
    <3>3. Fetch(h)' = disk'[m].entries /\ Fetch(h) = disk[m].entries
      BY <2>3 DEF Fetch
    <3> HIDE DEF m
    <3>4. q # c => m \notin Data(c)
      BY <1>1, <3>1, HeadersApart DEF IInv
    <3>5. q # c => disk'[m] = disk[m]
      BY <1>2, <3>2, <3>4
    <3>6. q = c => disk'[m] = Table(Listed(c) \ {x})
      BY <1>3, <3>1, <3>2
    <3> QED
      BY <3>3, <3>5, <3>6 DEF Table
  <2> QED
    BY <1>1, <2>3, <2>4
<1> QED
  BY <1>1, <1>4

PathRemoved(p) ==
    /\ Live' = Live \ {p}
    /\ Walk' = WalkWith(p, Missing(p))
    /\ \A q \in Paths : q # p => At(q)' = At(q) /\ IsDir(q)' = IsDir(q)
    /\ ~ IsDir(p)'
    /\ \A q \in Live : q # p => Data(q)' = Data(q) /\ Extent(q)' = Extent(q)

\* What the paths lead to afterwards.
LEMMA RemovedPaths ==
    ASSUME IInv, NEW c, NEW x, Removed(c, x), NEW p, p = Append(c, x.name)
    PROVE  PathRemoved(p)
<1> DEFINE none == Missing(p)
<1>1. /\ c \in Live /\ IsDir(c) /\ x \in Listed(c) /\ x.name \in Names
  BY DEF Removed
<1>2. p \in Live /\ p \in Paths /\ p # <<>> /\ Up(p) = c /\ c # p /\ NothingBelow(p)
  BY RemovedEntry DEF Live, LeadsTo
<1>3. c \in Paths /\ Len(c) < MaxDepth
  BY <1>1, Shallow DEF Live, IInv
<1>4. none.sector = Nowhere /\ none.isDirectory = FALSE
  BY DEF Missing, Entry
<1> HIDE DEF none
<1>5. OtherTablesKept(c, p)
  BY RemovedDisk DEF OtherTablesKept
<1>6. NameSet(c, x.name, none)
  <2> SUFFICES ASSUME NEW h, h = At(c)
               PROVE  /\ {e \in Fetch(h)' : e.name # x.name} = {e \in Fetch(h) : e.name # x.name}
                      /\ {e \in Fetch(h)' : e.name = x.name} = {}
    BY <1>4 DEF NameSet
  <2>1. Fetch(h)' = Fetch(h) \ {x}
    BY RemovedDisk DEF Listed
  <2>2. \A e \in Fetch(h) : e.name = x.name => e = x
    BY <1>1, <1>3, ListedIs DEF IInv, Listed
  <2> QED
    BY <2>1, <2>2
<1>7. NothingIn(none)
  BY <1>4 DEF NothingIn
<1>8. DiskType /\ Directories
  BY DEF IInv
<1>9. Walk' = WalkWith(p, none)
  <2>1. none.sector = Nowhere => none = Missing(p)
    BY DEF none
  <2> QED
    BY <1>1, <1>2, <1>3, <1>5, <1>6, <1>7, <1>8, <2>1, WalkChanged
<1>10. \A q \in Paths : q # p => Walk'[q] = Walk[q]
  BY <1>9 DEF WalkWith
<1>11. \A q \in Paths : q # p => At(q)' = At(q) /\ IsDir(q)' = IsDir(q)
  BY <1>10 DEF At, IsDir
<1>12. Walk'[p] = none
  BY <1>2, <1>9 DEF WalkWith
<1>13. At(p)' = Nowhere /\ ~ IsDir(p)'
  BY <1>4, <1>12 DEF At, IsDir
<1>14. Live' = Live \ {p}
  <2>1. Live' = {q \in Paths : At(q)' # Nowhere}
    BY DEF Live
  <2> QED
    BY <1>11, <1>13, <2>1 DEF Live
<1>15. ASSUME NEW q \in Live, q # p
       PROVE  Data(q)' = Data(q) /\ Extent(q)' = Extent(q)
  <2>1. At(q)' = At(q)
    BY <1>11, <1>15 DEF Live
  <2>2. disk'[At(q)] = disk[At(q)]
    BY RemovedDisk
  <2>3. Data(q)' = Data(q)
    BY <2>1, <2>2 DEF Data
  <2> QED
    BY <2>1, <2>3 DEF Extent
<1> QED
  BY <1>9, <1>11, <1>13, <1>14, <1>15 DEF PathRemoved, none

\* The types after it.
LEMMA RemovedTypes ==
    ASSUME IInv, NEW c, NEW x, Removed(c, x)
    PROVE  DiskType'
<1> DEFINE less == Listed(c) \ {x}
           Fine(y) == /\ disk'[y] \in [data : SUBSET Sectors, entries : SUBSET EntrySet]
                      /\ IsFiniteSet(disk'[y].entries)
                      /\ Cardinality(disk'[y].entries) <= NumDirEntries
                      /\ disk'[y].data = {} \/ disk'[y].entries = {}
                      /\ \A e, f \in disk'[y].entries : e.name = f.name => e = f
<1>1. c \in Live /\ IsDir(c) /\ disk' = Shortened(c, x)
  BY DEF Removed
<1>2. /\ less \subseteq EntrySet /\ IsFiniteSet(less) /\ Cardinality(less) <= NumDirEntries
      /\ \A e, f \in less : e.name = f.name => e = f
  <2>1. /\ Listed(c) \subseteq EntrySet /\ IsFiniteSet(Listed(c))
        /\ Cardinality(Listed(c)) <= NumDirEntries
        /\ \A e, f \in Listed(c) : e.name = f.name => e = f
    BY <1>1, ListedIs DEF IInv, Live
  <2>2. IsFiniteSet(less) /\ Cardinality(less) <= Cardinality(Listed(c))
    BY <2>1, FS_Subset
  <2>3. Cardinality(Listed(c)) \in Nat /\ Cardinality(less) \in Nat /\ NumDirEntries \in Nat
    BY <2>1, <2>2, FS_CardinalityType, DiskAssumption
  <2>4. Cardinality(less) <= NumDirEntries
    BY <2>1, <2>2, <2>3
  <2> QED
    BY <2>1, <2>2, <2>4
<1> HIDE DEF less
<1>3. disk' = [y \in Sectors |-> IF y \in Data(c) THEN Table(less) ELSE disk[y]]
  BY <1>1 DEF Shortened, less
<1>4. DOMAIN disk' = Sectors /\ disk' = [y \in Sectors |-> disk'[y]]
  BY <1>3
<1>5. ASSUME NEW y \in Sectors
      PROVE  Fine(y)
  <2>1. CASE disk'[y] = disk[y]
    BY <2>1 DEF IInv, DiskType
  <2>2. CASE disk'[y] = Table(less)
    <3>1. disk'[y].data = {} /\ disk'[y].entries = less
      BY <2>2 DEF Table
    <3>2. disk'[y] \in [data : SUBSET Sectors, entries : SUBSET EntrySet]
      BY <1>2, <2>2 DEF Table
    <3> QED
      BY <1>2, <3>1, <3>2
  <2> QED
    BY <1>3, <2>1, <2>2
<1>6. disk' \in [Sectors -> [data : SUBSET Sectors, entries : SUBSET EntrySet]]
  BY <1>4, <1>5
<1> QED
  BY <1>5, <1>6 DEF DiskType

\* The directories after it.
LEMMA RemovedDirectories ==
    ASSUME IInv, NEW c, NEW x, Removed(c, x)
    PROVE  Directories'
<1>0. PICK p : p = Append(c, x.name)
  OBVIOUS
<1>1. c \in Live /\ IsDir(c) /\ x \in Listed(c) /\ x.name \in Names
  BY DEF Removed
<1>2. p \in Live /\ NothingBelow(p)
  <2>1. LeadsTo(p, c, x)
    BY <1>0, RemovedEntry
  <2> QED
    BY <2>1 DEF LeadsTo
<1>3. /\ Live' = Live \ {p}
      /\ \A q \in Paths : q # p => At(q)' = At(q) /\ IsDir(q)' = IsDir(q)
      /\ ~ IsDir(p)'
      /\ \A q \in Live : q # p => Data(q)' = Data(q)
  <2>1. PathRemoved(p)
    BY <1>0, RemovedPaths
  <2> QED
    BY <2>1 DEF PathRemoved
<1>4. \A h : h = At(c) => Fetch(h)' = Fetch(h) \ {x}
  BY RemovedDisk DEF Listed
<1>5. \A q \in Live : \A h : h = At(q) /\ q # c /\ IsDir(q) => Fetch(h)' = Fetch(h)
  BY RemovedDisk
<1>6. Dot \notin Names /\ DotDot \notin Names
  BY DiskAssumption
<1> SUFFICES ASSUME NEW q \in Paths, IsDir(q)'
             PROVE  /\ At(q)' \in Sectors
                    /\ Cardinality(Data(q)') = DirectorySectors
                    /\ {e \in Listed(q)' : e.name \in {Dot, DotDot}} = DotsOf(q)'
  BY DEF Directories
<1>7. PICK h : h = At(q)'
  OBVIOUS
<1>8. Listed(q)' = Fetch(h)'
  BY <1>7 DEF Listed, Fetch
<1>9. q # p
  BY <1>3
<1>10. IsDir(q) /\ h = At(q)
  BY <1>3, <1>7, <1>9
<1>11. q \in Live
  BY <1>10, WalkType DEF IInv
<1>12. /\ At(q) \in Sectors /\ Cardinality(Data(q)) = DirectorySectors
       /\ {e \in Listed(q) : e.name \in {Dot, DotDot}} = DotsOf(q)
  BY <1>10 DEF IInv, Directories
<1>13. At(q)' = At(q) /\ Data(q)' = Data(q)
  BY <1>3, <1>9, <1>11
<1>14. {e \in Fetch(h)' : e.name \in {Dot, DotDot}} = {e \in Fetch(h) : e.name \in {Dot, DotDot}}
  <2>1. CASE q = c
    <3>1. Fetch(h)' = Fetch(h) \ {x}
      BY <1>4, <1>10, <2>1
    <3> QED
      BY <1>1, <1>6, <3>1
  <2>2. CASE q # c
    BY <1>5, <1>10, <1>11, <2>2
  <2> QED
    BY <2>1, <2>2
<1>15. DotsOf(q)' = DotsOf(q)
  <2>1. CASE q = <<>>
    BY <2>1 DEF DotsOf
  <2>2. CASE q # <<>>
    <3>1. Up(q) \in Live
      BY <1>11, <2>2, WalkType DEF IInv
    <3>2. Up(q) # p
      BY <1>2, <1>11, <2>2 DEF NothingBelow
    <3>3. At(Up(q))' = At(Up(q))
      BY <1>3, <3>1, <3>2 DEF Live
    <3> QED
      BY <1>13, <2>2, <3>3 DEF DotsOf
  <2> QED
    BY <2>1, <2>2
<1>16. Listed(q) = Fetch(h)
  BY <1>10 DEF Listed
<1> QED
  BY <1>8, <1>12, <1>13, <1>14, <1>15, <1>16

\* The invariant after it.
LEMMA RemovedInv ==
    ASSUME IInv, NEW c, NEW x, Removed(c, x), answer' \in BOOLEAN, UNCHANGED halted
    PROVE  IInv'
<1>0. PICK p : p = Append(c, x.name)
  OBVIOUS
<1>1. DiskType' /\ Directories'
  BY RemovedTypes, RemovedDirectories
<1>2. /\ c \in Live /\ IsDir(c) /\ At(c) = cdSector /\ UNCHANGED cdSector
      /\ freeMap' = freeMap \ Freed(x)
  BY DEF Removed
<1>3. p \in Live /\ c # p /\ p # <<>> /\ Freed(x) = Extent(p)
  <2>1. LeadsTo(p, c, x)
    BY <1>0, RemovedEntry
  <2> QED
    BY <2>1 DEF LeadsTo
<1>4. /\ Live' = Live \ {p}
      /\ \A q \in Paths : q # p => At(q)' = At(q) /\ IsDir(q)' = IsDir(q)
      /\ \A q \in Live : q # p => Data(q)' = Data(q) /\ Extent(q)' = Extent(q)
  <2>1. PathRemoved(p)
    BY <1>0, RemovedPaths
  <2> QED
    BY <2>1 DEF PathRemoved
<1>5. OtherTypes'
  BY <1>2 DEF IInv, OtherTypes
<1>6. Rooted'
  <2>1. <<>> \in Live /\ At(<<>>) = DirectorySector
    BY RootIsPath, WalkType DEF IInv
  <2>2. disk'[DirectorySector] = disk[DirectorySector]
    BY <2>1, RemovedDisk
  <2> QED
    BY <2>2 DEF IInv, Rooted
<1>7. Here'
  <2>1. c \in Live' /\ IsDir(c)' /\ At(c)' = cdSector'
    BY <1>2, <1>3, <1>4 DEF Live
  <2> QED
    BY <2>1 DEF Here
<1>8. Owned'
  <2>1. /\ {FreeMapSector, 2} \subseteq freeMap
        /\ \A q \in Live : Extent(q) \subseteq freeMap \ {FreeMapSector, 2}
        /\ \A s \in freeMap \ {FreeMapSector, 2} : \E q \in Live : s \in Extent(q)
        /\ \A q \in Live : At(q) \notin Data(q)
        /\ \A q, r \in Live : q # r => Extent(q) \cap Extent(r) = {}
    BY DEF IInv, Owned
  <2>2. freeMap' = freeMap \ Extent(p)
    BY <1>2, <1>3
  <2>3. ({FreeMapSector, 2} \subseteq freeMap)'
    BY <1>3, <2>1, <2>2
  <2>4. ASSUME NEW q \in Live'
        PROVE  Extent(q)' \subseteq freeMap' \ {FreeMapSector, 2} /\ At(q)' \notin Data(q)'
    <3>1. q \in Live /\ q # p
      BY <1>4
    <3>2. Extent(q)' = Extent(q) /\ Data(q)' = Data(q) /\ At(q)' = At(q)
      BY <1>4, <3>1 DEF Live
    <3> QED
      BY <1>3, <2>1, <2>2, <3>1, <3>2
  <2>5. ASSUME NEW s \in freeMap' \ {FreeMapSector, 2}
        PROVE  \E q \in Live' : s \in Extent(q)'
    <3>1. s \in freeMap \ {FreeMapSector, 2} /\ s \notin Extent(p)
      BY <2>2
    <3>2. PICK q \in Live : s \in Extent(q)
      BY <2>1, <3>1
    <3>3. q # p
      BY <3>1, <3>2
    <3> QED
      BY <1>4, <3>2, <3>3
  <2>6. ASSUME NEW q \in Live', NEW r \in Live', q # r
        PROVE  Extent(q)' \cap Extent(r)' = {}
    BY <1>4, <2>1, <2>6
  <2> QED
    BY <2>3, <2>4, <2>5, <2>6 DEF Owned
<1> QED
  BY <1>1, <1>5, <1>6, <1>7, <1>8 DEF IInv

-------------------------------------------------------------------------------
(* The other actions.                                                          *)

\* While the disk stays, so does the walk.
LEMMA SameDisk ==
    ASSUME UNCHANGED disk
    PROVE  Walk' = Walk
<1>1. PICK w : w = Walk
  OBVIOUS
<1>2. w = [q \in Paths |-> Reached(w, q)]
  BY <1>1, WalkIs DEF IsWalk
<1>3. \A q \in Paths : Named(w, q)' = Named(w, q)
  BY DEF Named, Fetch
<1>4. ASSUME NEW q \in Paths
      PROVE  Reached(w, q)' = Reached(w, q)
  <2>1. Named(w, q)' = Named(w, q)
    BY <1>3
  <2> QED
    BY <2>1 DEF Reached, Missing, Entry
<1>5. w = [q \in Paths |-> Reached(w, q)']
  BY <1>2, <1>4
<1>6. IsWalk(w)'
  BY <1>5 DEF IsWalk
<1> QED
  BY <1>1, <1>6, WalkNext

\* While the sectors stay, only the current directory is to be looked at.
LEMMA SameSectors ==
    ASSUME IInv, UNCHANGED <<freeMap, disk>>, answer' \in BOOLEAN, halted' \in BOOLEAN,
           NEW q \in Live, IsDir(q), cdSector' = At(q)
    PROVE  IInv'
<1>1. Walk' = Walk
  BY SameDisk
<1>2. At(q) \in Sectors
  BY WalkType DEF IInv, Live
<1>3. DiskType' /\ Rooted' /\ OtherTypes'
  BY <1>2 DEF IInv, DiskType, Rooted, OtherTypes
<1>4. /\ \A p : At(p)' = At(p) /\ IsDir(p)' = IsDir(p)
      /\ \A p : Data(p)' = Data(p) /\ Listed(p)' = Listed(p) /\ DotsOf(p)' = DotsOf(p)
  BY <1>1 DEF At, IsDir, Data, Listed, Fetch, DotsOf
<1>5. Live' = Live /\ \A p : Extent(p)' = Extent(p)
  BY <1>4 DEF Live, Extent
<1>6. Directories'
  BY <1>4 DEF IInv, Directories
<1>7. Owned'
  BY <1>4, <1>5 DEF IInv, Owned
<1>8. Here'
  BY <1>4, <1>5 DEF Here
<1> QED
  BY <1>3, <1>6, <1>7, <1>8 DEF IInv

\* The path that a name given to ChangeDirectory stands for in c, and whether
\* there is one.
Destination(c, name) ==
    IF name = Dot THEN c ELSE IF name = DotDot THEN Up(c) ELSE Append(c, name)
Leads(c, name) ==
    IF name \in {Dot, DotDot} THEN c # <<>>
    ELSE Destination(c, name) \in Live /\ IsDir(Destination(c, name))

\* The directories of that name in the table of c.
Targets(c, name) == {e \in Found(Listed(c), name) : e.isDirectory}

\* They are there if the name leads somewhere, and lead there.
LEMMA TargetsAre ==
    ASSUME IInv, NEW c \in Live, IsDir(c), NEW name \in Names \cup {Dot, DotDot},
           NEW q, q = Destination(c, name)
    PROVE  /\ Targets(c, name) # {} <=> Leads(c, name)
           /\ Leads(c, name) => q \in Live /\ IsDir(q)
           /\ \A e \in Targets(c, name) : e.sector = At(q)
<1>1. c \in Paths /\ Len(c) < MaxDepth
  BY Shallow DEF IInv, Live
<1>2. Dot \notin Names /\ DotDot \notin Names /\ Dot # DotDot
  BY DiskAssumption
<1>3. Targets(c, name) = {e \in Listed(c) : e.name = name /\ e.isDirectory}
  BY DEF Targets, Found
<1>4. {e \in Listed(c) : e.name \in {Dot, DotDot}} = DotsOf(c)
  BY <1>1, ListedIs DEF IInv
<1>5. CASE name \in {Dot, DotDot} /\ c = <<>>
  <2>1. \A e \in Listed(c) : e.name # name
    BY <1>4, <1>5 DEF DotsOf
  <2> QED
    BY <1>3, <1>5, <2>1 DEF Leads
<1>6. CASE name \in {Dot, DotDot} /\ c # <<>>
  <2>1. Up(c) \in Live /\ IsDir(Up(c))
    BY <1>1, <1>6, WalkType DEF IInv
  <2>2. \A e \in Listed(c) :
          e.name \in {Dot, DotDot} =>
            e = Entry(Dot, At(c), TRUE) \/ e = Entry(DotDot, At(Up(c)), TRUE)
    BY <1>4, <1>6 DEF DotsOf
  <2>3. Entry(Dot, At(c), TRUE) \in Listed(c) /\ Entry(DotDot, At(Up(c)), TRUE) \in Listed(c)
    BY <1>4, <1>6 DEF DotsOf
  <2>4. CASE name = Dot
    <3>1. q = c
      BY <2>4 DEF Destination
    <3>2. Entry(Dot, At(c), TRUE) \in Targets(c, name)
      BY <1>3, <2>3, <2>4 DEF Entry
    <3>3. \A e \in Targets(c, name) : e.sector = At(q)
      BY <1>2, <1>3, <2>2, <2>4, <3>1 DEF Entry
    <3> QED
      BY <1>6, <3>1, <3>2, <3>3 DEF Leads
  <2>5. CASE name = DotDot
    <3>1. q = Up(c)
      BY <1>2, <2>5 DEF Destination
    <3>2. Entry(DotDot, At(Up(c)), TRUE) \in Targets(c, name)
      BY <1>3, <2>3, <2>5 DEF Entry
    <3>3. \A e \in Targets(c, name) : e.sector = At(q)
      BY <1>2, <1>3, <2>2, <2>5, <3>1 DEF Entry
    <3> QED
      BY <1>6, <2>1, <3>1, <3>2, <3>3 DEF Leads
  <2> QED
    BY <1>6, <2>4, <2>5
<1>7. CASE name \in Names
  <2>1. name \notin {Dot, DotDot}
    BY <1>2, <1>7
  <2>2. q = Append(c, name)
    BY <2>1 DEF Destination
  <2>3. q \in Paths /\ q # <<>> /\ Up(q) = c /\ Own(q) = name
    BY <1>1, <1>7, <2>2, PathAppended
  <2>4. ASSUME NEW e \in Targets(c, name)
        PROVE  Walk[q] = e /\ q \in Live /\ e.isDirectory
    <3>1. e \in Listed(c) /\ e.name = name /\ e.isDirectory
      BY <1>3
    <3>2. Walk[Append(c, e.name)] = e /\ Append(c, e.name) \in Live
      BY <1>1, <1>7, <3>1, EntryStep DEF IInv
    <3> QED
      BY <2>2, <3>1, <3>2
  <2>5. Leads(c, name) <=> q \in Live /\ IsDir(q)
    BY <2>1, <2>2 DEF Leads, Destination
  <2>6. ASSUME q \in Live, IsDir(q)
        PROVE  Walk[q] \in Targets(c, name)
    <3>1. Walk[q] \in Listed(c) /\ Walk[q].name = name
      BY <2>3, <2>6, WalkType DEF IInv
    <3> QED
      BY <1>3, <2>6, <3>1 DEF IsDir
  <2>7. \A e \in Targets(c, name) : e.sector = At(q) /\ IsDir(q) /\ q \in Live
    BY <2>4 DEF At, IsDir
  <2> QED
    BY <2>5, <2>6, <2>7
<1> QED
  BY <1>5, <1>6, <1>7

\* ChangeDirectory changes to the directory its argument leads to, if any.
LEMMA ChangeIs ==
    ASSUME IInv, NEW name \in Names \cup {Dot, DotDot}, ChangeDirectory(name),
           NEW c \in Live, IsDir(c), At(c) = cdSector, NEW q, q = Destination(c, name)
    PROVE  /\ answer' = Leads(c, name)
           /\ Leads(c, name) => q \in Live /\ IsDir(q) /\ cdSector' = At(q)
           /\ ~ Leads(c, name) => cdSector' = cdSector
<1>1. /\ Targets(c, name) # {} <=> Leads(c, name)
      /\ Leads(c, name) => q \in Live /\ IsDir(q)
      /\ \A e \in Targets(c, name) : e.sector = At(q)
  BY TargetsAre
<1>2. /\ answer' = (Targets(c, name) # {})
      /\ cdSector' = IF answer' THEN (CHOOSE e \in Targets(c, name) : TRUE).sector ELSE cdSector
  BY DEF ChangeDirectory, Targets, Listed
<1>3. Leads(c, name) \in BOOLEAN
  BY DEF Leads
<1>4. Leads(c, name) => (CHOOSE e \in Targets(c, name) : TRUE) \in Targets(c, name)
  BY <1>1
<1> QED
  BY <1>1, <1>2, <1>3, <1>4

-------------------------------------------------------------------------------
(* The formatted disk.                                                         *)

\* It has one directory, the root, and one path.
LEMMA InitWalk ==
    ASSUME Init
    PROVE  /\ disk[DirectorySector].data = RootData /\ Fetch(DirectorySector) = {}
           /\ Walk = [q \in Paths |-> IF q = <<>> THEN Entry(<<>>, DirectorySector, TRUE)
                                      ELSE Missing(q)]
<1>1. FreeMapSector # DirectorySector /\ DirectorySector \in Sectors
  BY SectorsAre DEF FreeMapSector, DirectorySector
<1>2. disk[DirectorySector].data = RootData
  BY <1>1 DEF Init, Header
<1>3. \A s \in Sectors : disk[s].entries = {}
  BY DEF Init, Header, Unwritten
<1>4. RootData \subseteq Sectors /\ RootData \in SUBSET Nat /\ RootData # {}
  <2>1. RootData \subseteq Sectors /\ Sectors \subseteq Nat
    BY SectorsAre DEF SystemSectors
  <2>2. 3 \in RootData
    BY DiskAssumption DEF RootData
  <2> QED
    BY <2>1, <2>2
<1>5. Min(RootData) \in Sectors
  BY <1>4, MinIs
<1>6. Fetch(DirectorySector) = {}
  BY <1>2, <1>3, <1>5 DEF Fetch
<1>7. PICK w : w = [q \in Paths |-> IF q = <<>> THEN Entry(<<>>, DirectorySector, TRUE)
                                    ELSE Missing(q)]
  OBVIOUS
<1>8. ASSUME NEW q \in Paths
      PROVE  w[q] = Reached(w, q)
  <2>1. CASE q = <<>>
    BY <1>7, <2>1 DEF Reached
  <2>2. CASE q # <<>>
    <3>1. Up(q) \in Paths
      BY <2>2, PathIs
    <3>2. w[Up(q)] = IF Up(q) = <<>> THEN Entry(<<>>, DirectorySector, TRUE) ELSE Missing(Up(q))
      BY <1>7, <3>1
    <3>3. Named(w, q) = {}
      <4>1. CASE Up(q) = <<>>
        BY <1>6, <3>2, <4>1 DEF Named, Found, Entry
      <4>2. CASE Up(q) # <<>>
        BY <3>2, <4>2 DEF Named, Missing, Entry
      <4> QED
        BY <4>1, <4>2
    <3> QED
      BY <1>7, <2>2, <3>3 DEF Reached
  <2> QED
    BY <2>1, <2>2
<1>9. w = [q \in Paths |-> Reached(w, q)]
  BY <1>7, <1>8
<1>10. w = Walk
  BY <1>9, WalkIs DEF IsWalk
<1> QED
  BY <1>2, <1>6, <1>7, <1>10

\* The invariant of the formatted disk.
LEMMA InitInv == Init => IInv
<1> SUFFICES ASSUME Init PROVE IInv
  OBVIOUS
<1>1. /\ disk[DirectorySector].data = RootData /\ Fetch(DirectorySector) = {}
      /\ Walk = [q \in Paths |-> IF q = <<>> THEN Entry(<<>>, DirectorySector, TRUE)
                                 ELSE Missing(q)]
  BY InitWalk
<1>2. /\ {FreeMapSector, DirectorySector, 2} \subseteq Sectors /\ RootData \subseteq Sectors
      /\ Nowhere \notin Sectors
  BY SectorsAre DEF SystemSectors
<1>3. /\ DirectorySector \notin RootData /\ DirectorySector \notin {FreeMapSector, 2}
      /\ RootData \cap {FreeMapSector, 2} = {}
  BY DEF RootData, DirectorySector, FreeMapSector
<1>4. Cardinality(RootData) = DirectorySectors
  <2>1. DirectorySectors \in Nat \ {0}
    BY DiskAssumption
  <2>2. Cardinality(3 .. 2 + DirectorySectors) = 2 + DirectorySectors - 3 + 1
    BY <2>1, FS_Interval
  <2> QED
    BY <2>1, <2>2 DEF RootData
<1>5. \A s \in Sectors :
        /\ disk[s].data \in {{}, {2}, RootData}
        /\ disk[s].entries = {}
        /\ disk[s] \in [data : SUBSET Sectors, entries : SUBSET EntrySet]
  <2> SUFFICES ASSUME NEW s \in Sectors
               PROVE  /\ disk[s].data \in {{}, {2}, RootData}
                      /\ disk[s].entries = {}
                      /\ disk[s] \in [data : SUBSET Sectors, entries : SUBSET EntrySet]
    OBVIOUS
  <2>1. disk[s] \in {Header({2}), Header(RootData), Unwritten}
    BY DEF Init
  <2>2. {2} \in SUBSET Sectors /\ RootData \in SUBSET Sectors /\ {} \in SUBSET Sectors
    BY <1>2
  <2> QED
    BY <2>1, <2>2 DEF Header, Unwritten
<1>6. DiskType
  <2>1. IsFiniteSet({}) /\ Cardinality({}) = 0
    BY FS_EmptySet
  <2>2. 0 <= NumDirEntries
    BY DiskAssumption
  <2>3. disk \in [Sectors -> [data : SUBSET Sectors, entries : SUBSET EntrySet]]
    BY <1>5 DEF Init
  <2> QED
    BY <1>5, <2>1, <2>2, <2>3 DEF DiskType
<1>7. OtherTypes
  BY <1>2, SectorsAre DEF Init, OtherTypes
<1>8. /\ \A q \in Paths : q # <<>> => At(q) = Nowhere /\ IsDir(q) = FALSE
      /\ At(<<>>) = DirectorySector /\ IsDir(<<>>) = TRUE
  BY <1>1, RootIsPath DEF At, IsDir, Missing, Entry
<1>9. Live = {<<>>}
  BY <1>2, <1>8, RootIsPath DEF Live
<1>10. Data(<<>>) = RootData /\ Listed(<<>>) = {} /\ Extent(<<>>) = {DirectorySector} \cup RootData
  BY <1>1, <1>8 DEF Data, Listed, Extent
<1>11. Directories
  <2>1. DotsOf(<<>>) = {}
    BY DEF DotsOf
  <2> QED
    BY <1>2, <1>4, <1>8, <1>10, <2>1 DEF Directories
<1>12. Rooted
  BY <1>1 DEF Rooted
<1>13. Owned
  <2>1. freeMap = {FreeMapSector, DirectorySector, 2} \cup RootData
    BY DEF Init, SystemSectors
  <2> QED
    BY <1>3, <1>8, <1>9, <1>10, <2>1 DEF Owned
<1>14. Here
  BY <1>8, <1>9 DEF Init, Here
<1> QED
  BY <1>6, <1>7, <1>11, <1>12, <1>13, <1>14 DEF IInv

-------------------------------------------------------------------------------
(* Every step keeps the invariant.                                             *)

\* Create, and CreateDirectory.
LEMMA CreateInv ==
    ASSUME IInv, NEW name \in Names, NEW n \in Nat, NEW isDirectory \in BOOLEAN,
           isDirectory => n = DirectorySectors, Create(name, n, isDirectory)
    PROVE  IInv'
<1>1. /\ answer' = CanCreate(name, n) /\ UNCHANGED <<cdSector, halted>>
      /\ answer' => Allocate(name, n, isDirectory)
      /\ ~ answer' => UNCHANGED <<freeMap, disk>>
  BY DEF Create
<1>2. answer' \in BOOLEAN /\ halted \in BOOLEAN
  BY <1>1 DEF CanCreate, IInv, OtherTypes
<1>3. CASE answer'
  <2>1. PICK c, x, data : Allocated(c, x, data)
    BY <1>1, <1>3, AllocateIs
  <2> QED
    BY <1>1, <1>2, <2>1, AllocatedInv
<1>4. CASE ~ answer'
  <2>1. PICK c \in Live : IsDir(c) /\ At(c) = cdSector
    BY DEF IInv, Here
  <2> QED
    BY <1>1, <1>2, <1>4, <2>1, SameSectors
<1> QED
  BY <1>3, <1>4

\* Remove.
LEMMA RemoveInv ==
    ASSUME IInv, NEW name \in Names, Remove(name)
    PROVE  IInv'
<1>1. UNCHANGED <<cdSector, halted>> /\ halted \in BOOLEAN
  BY DEF Remove, IInv, OtherTypes
<1>2. CASE /\ answer' = FALSE
           /\ UNCHANGED <<freeMap, disk>>
  <2>1. PICK c \in Live : IsDir(c) /\ At(c) = cdSector
    BY DEF IInv, Here
  <2> QED
    BY <1>1, <1>2, <2>1, SameSectors
<1>3. ASSUME NEW e \in Found(Fetch(cdSector), name), CanRemove(e), answer' = TRUE,
             freeMap' = freeMap \ Freed(e),
             disk' = WriteBack(disk, cdSector, Fetch(cdSector) \ {e})
      PROVE  IInv'
  <2>1. PICK c : Removed(c, e)
    BY <1>1, <1>3, RemoveIs
  <2> QED
    BY <1>1, <1>3, <2>1, RemovedInv
<1> QED
  BY <1>2, <1>3 DEF Remove

\* ChangeDirectory.
LEMMA ChangeInv ==
    ASSUME IInv, NEW name \in Names \cup {Dot, DotDot}, ChangeDirectory(name)
    PROVE  IInv'
<1>1. PICK c \in Live : IsDir(c) /\ At(c) = cdSector
  BY DEF IInv, Here
<1>2. PICK q : q = Destination(c, name)
  OBVIOUS
<1>3. /\ answer' = Leads(c, name)
      /\ Leads(c, name) => q \in Live /\ IsDir(q) /\ cdSector' = At(q)
      /\ ~ Leads(c, name) => cdSector' = cdSector
  BY <1>1, <1>2, ChangeIs
<1>4. answer' \in BOOLEAN /\ halted' \in BOOLEAN /\ UNCHANGED <<freeMap, disk>>
  BY <1>3 DEF ChangeDirectory, IInv, OtherTypes, Leads
<1>5. CASE Leads(c, name)
  BY <1>3, <1>4, <1>5, SameSectors
<1>6. CASE ~ Leads(c, name)
  BY <1>1, <1>3, <1>4, <1>6, SameSectors
<1> QED
  BY <1>5, <1>6

\* Every step of the file system, and of one that stands still.
LEMMA NextInv == IInv /\ [Next]_vars => IInv'
<1> SUFFICES ASSUME IInv, [Next]_vars PROVE IInv'
  OBVIOUS
<1>1. PICK c \in Live : IsDir(c) /\ At(c) = cdSector
  BY DEF IInv, Here
<1>2. answer \in BOOLEAN /\ halted \in BOOLEAN
  BY DEF IInv, OtherTypes
<1>3. ASSUME NEW name \in Names, NEW n \in Sizes, Create(name, n, FALSE)
      PROVE  IInv'
  <2>1. n \in Nat
    BY DiskAssumption
  <2> QED
    BY <1>3, <2>1, CreateInv
<1>4. ASSUME NEW name \in Names, CreateDirectory(name)
      PROVE  IInv'
  <2>1. DirectorySectors \in Nat
    BY DiskAssumption
  <2>2. Create(name, DirectorySectors, TRUE)
    BY <1>4 DEF CreateDirectory
  <2> QED
    BY <2>1, <2>2, CreateInv
<1>5. ASSUME NEW name \in Names, Open(name)
      PROVE  IInv'
  <2>1. UNCHANGED <<freeMap, disk, cdSector, answer>> /\ halted' \in BOOLEAN
    BY <1>5 DEF Open
  <2> QED
    BY <1>1, <1>2, <2>1, SameSectors
<1>6. CASE Restart
  <2>1. /\ UNCHANGED <<freeMap, disk, answer>>
        /\ cdSector' = DirectorySector /\ halted' \in BOOLEAN
    BY <1>6 DEF Restart
  <2>2. <<>> \in Live /\ IsDir(<<>>) /\ At(<<>>) = DirectorySector
    BY RootIsPath, WalkType DEF IInv
  <2> QED
    BY <1>2, <2>1, <2>2, SameSectors
<1>7. CASE UNCHANGED vars
  <2>1. UNCHANGED <<freeMap, disk, cdSector, answer, halted>>
    BY <1>7 DEF vars
  <2> QED
    BY <1>1, <1>2, <2>1, SameSectors
<1> QED
  BY <1>3, <1>4, <1>5, <1>6, <1>7, RemoveInv, ChangeInv DEF Next

\* For every disk and every number of names, sizes and entries: the walk from
\* the root finds a tree in which every directory has its dots, no sector is in
\* two files, and the current directory is one that it finds.
THEOREM FilesInvariance == Spec => []IInv
BY InitInv, NextInv, PTL DEF Spec

\* A table never holds more entries than it has room for, or two of one name,
\* and a sector is a header or part of a table, never both (TypeOK).
THEOREM TypeCorrect == Spec => []TypeOK
<1>1. IInv => TypeOK
  <2> SUFFICES ASSUME IInv PROVE TypeOK
    OBVIOUS
  <2>1. \A s \in Sectors : disk[s] \in [data : SUBSET Sectors, entries : SUBSET EntrySet]
    BY DEF IInv, DiskType
  <2> QED
    BY <2>1 DEF IInv, DiskType, OtherTypes, TypeOK
<1> QED
  BY <1>1, FilesInvariance, PTL

-------------------------------------------------------------------------------
(* The tree.                                                                   *)

\* What Files collects is what the walk finds.
LEMMA FilesAre ==
    Files = [p \in Live |-> Walk[p]]
<1>1. Live \subseteq Paths
  BY DEF Live
<1>2. Files = [p \in {p \in Paths : Walk[p].sector # Nowhere} |-> Walk[p]]
  BY DEF Files, Restrict
<1> QED
  BY <1>2 DEF Live, At

\* Whatever is created, removed and created again, each marked sector belongs to
\* one file that a path leads to, and no clear sector does (SectorsOwnedOnce).
THEOREM SectorsAreOwnedOnce == Spec => []SectorsOwnedOnce
<1>1. ASSUME IInv PROVE SectorsOwnedOnce
  <2> DEFINE data   == [p \in DOMAIN Files |-> disk[Files[p].sector].data]
             extent == [p \in DOMAIN Files |-> {Files[p].sector} \cup data[p]]
  <2>1. DOMAIN Files = Live /\ \A p \in Live : Files[p] = Walk[p]
    BY FilesAre
  <2>2. \A p \in Live : Files[p].sector = At(p) /\ data[p] = Data(p) /\ extent[p] = Extent(p)
    BY <2>1 DEF At, Data, Extent
  <2>3. DOMAIN extent = Live
    BY <2>1
  <2> HIDE DEF data, extent
  <2>4. Range(extent) = {Extent(p) : p \in Live}
    BY <2>2, <2>3 DEF Range
  <2>5. /\ {FreeMapSector, 2} \subseteq freeMap
        /\ \A p \in Live : Extent(p) \subseteq freeMap \ {FreeMapSector, 2}
        /\ \A s \in freeMap \ {FreeMapSector, 2} : \E p \in Live : s \in Extent(p)
        /\ \A p \in Live : At(p) \notin Data(p)
        /\ \A p, q \in Live : p # q => Extent(p) \cap Extent(q) = {}
    BY <1>1 DEF IInv, Owned
  <2>6. UNION Range(extent) = freeMap \ {FreeMapSector, 2}
    BY <2>4, <2>5
  <2>7. freeMap = {FreeMapSector, 2} \cup UNION Range(extent)
    BY <2>5, <2>6
  <2>8. \A p, q \in DOMAIN Files : p # q => extent[p] \cap extent[q] = {}
    BY <2>1, <2>2, <2>5
  <2>9. \A p \in DOMAIN Files : Files[p].sector \notin data[p]
    BY <2>1, <2>2, <2>5
  <2>10. {FreeMapSector, 2} \cap UNION Range(extent) = {}
    BY <2>6
  <2> QED
    BY <2>7, <2>8, <2>9, <2>10 DEF SectorsOwnedOnce, data, extent
<1> QED
  BY <1>1, FilesInvariance, PTL

\* A path is of a node of the tree, and its size, if the root has none.
SizeOf(p) == IF p = <<>> THEN 0 ELSE Cardinality(Data(p))
Below(q) == {p \in Live : p # <<>> /\ Up(p) = q}

\* The tree has a node for each path that leads somewhere.
LEMMA TreeIs ==
    /\ TreeOnDisk = [p \in Live |-> [isDirectory |-> IsDir(p), size |-> SizeOf(p)]]
    /\ \A q : Tree!Children(q) = Below(q)
<1>1. DOMAIN Files = Live /\ \A p \in Live : Files[p] = Walk[p]
  BY FilesAre
<1>2. TreeOnDisk = [p \in Live |->
        [isDirectory |-> Files[p].isDirectory,
         size |-> IF p = <<>> THEN 0 ELSE Cardinality(disk[Files[p].sector].data)]]
  BY <1>1 DEF TreeOnDisk
<1>3. \A p \in Live : /\ Files[p].isDirectory = IsDir(p)
                      /\ disk[Files[p].sector].data = Data(p)
  BY <1>1 DEF IsDir, Data, At
<1>4. TreeOnDisk = [p \in Live |-> [isDirectory |-> IsDir(p), size |-> SizeOf(p)]]
  BY <1>2, <1>3 DEF SizeOf
<1>5. DOMAIN TreeOnDisk = Live
  BY <1>4
<1>6. \A q : Tree!Children(q) = Below(q)
  BY <1>5 DEF Tree!Children, Tree!Root, Below, Up, Tree!Seqs!Front, Seqs!Front
<1> QED
  BY <1>4, <1>6

\* The current directory of the tree is the path to that of the disk.
LEMMA CurrentIs ==
    ASSUME IInv, NEW c \in Live, At(c) = cdSector
    PROVE  CurrentPath = c
<1> DEFINE here == {p \in DOMAIN Files : Files[p].sector = cdSector}
<1>1. DOMAIN Files = Live /\ \A p \in Live : Files[p] = Walk[p]
  BY FilesAre
<1>2. here = {p \in Live : At(p) = cdSector}
  BY <1>1 DEF At
<1>3. \A p \in Live : At(p) = cdSector => p = c
  BY HeadersApart DEF IInv
<1>4. here = {c}
  BY <1>2, <1>3
<1> QED
  BY <1>4 DEF CurrentPath

\* The numbers up to k[p], for each p; and all that the sets E[p] hold.
Numbered(L, k) == UNION {{p} \X (0 .. k[p]) : p \in L}
Together(L, E) == UNION {E[p] : p \in L}

\* Sets that share nothing are counted apart.
LEMMA CountedApart ==
    ASSUME NEW L, NEW E, NEW k,
           \A p \in L : ExistsBijection(0 .. k[p], E[p]),
           \A p, q \in L : p # q => E[p] \cap E[q] = {}
    PROVE  ExistsBijection(Numbered(L, k), Together(L, E))
<1> DEFINE U == UNION {{p} \X (0 .. k[p]) : p \in L}
           T == UNION {E[p] : p \in L}
           F == [p \in L |-> CHOOSE b \in Bijection(0 .. k[p], E[p]) : TRUE]
           g == [u \in U |-> F[u[1]][u[2]]]
<1>1. \A p \in L : F[p] \in Bijection(0 .. k[p], E[p])
  BY DEF ExistsBijection
<1> HIDE DEF F
<1>2. ASSUME NEW p \in L
      PROVE  /\ F[p] \in [0 .. k[p] -> E[p]]
             /\ \A i, j \in 0 .. k[p] : F[p][i] = F[p][j] => i = j
             /\ \A e \in E[p] : \E i \in 0 .. k[p] : F[p][i] = e
  <2>1. F[p] \in Injection(0 .. k[p], E[p]) /\ F[p] \in Surjection(0 .. k[p], E[p])
    BY <1>1 DEF Bijection
  <2>2. F[p] \in [0 .. k[p] -> E[p]] /\ IsInjective(F[p])
    BY <2>1 DEF Injection
  <2>3. DOMAIN F[p] = 0 .. k[p]
    BY <2>2
  <2>4. \A i, j \in 0 .. k[p] : F[p][i] = F[p][j] => i = j
    BY <2>2, <2>3 DEF IsInjective
  <2>5. \A e \in E[p] : \E i \in 0 .. k[p] : F[p][i] = e
    BY <2>1 DEF Surjection
  <2> QED
    BY <2>2, <2>4, <2>5
<1>3. ASSUME NEW u \in U
      PROVE  u[1] \in L /\ u[2] \in 0 .. k[u[1]] /\ u = <<u[1], u[2]>>
  OBVIOUS
<1>4. \A p \in L : \A i \in 0 .. k[p] : <<p, i>> \in U
  OBVIOUS
<1> HIDE DEF U
<1>5. ASSUME NEW u \in U
      PROVE  g[u] \in E[u[1]]
  <2>1. PICK p, i : p = u[1] /\ i = u[2]
    OBVIOUS
  <2>2. p \in L /\ i \in 0 .. k[p]
    BY <1>3, <2>1
  <2>3. F[p] \in [0 .. k[p] -> E[p]]
    BY <1>2, <2>2
  <2>4. F[p][i] \in E[p]
    BY <2>2, <2>3
  <2> QED
    BY <2>1, <2>4
<1>6. g \in [U -> T]
  BY <1>3, <1>5
<1>7. ASSUME NEW u \in U, NEW v \in U, g[u] = g[v]
      PROVE  u = v
  <2>1. u[1] \in L /\ v[1] \in L /\ g[u] \in E[u[1]] /\ g[v] \in E[v[1]]
    BY <1>3, <1>5
  <2>2. u[1] = v[1]
    BY <1>7, <2>1
  <2>3. u[2] \in 0 .. k[u[1]] /\ v[2] \in 0 .. k[u[1]]
    BY <1>3, <2>2
  <2>4. F[u[1]][u[2]] = F[u[1]][v[2]]
    BY <1>7, <2>2
  <2>5. u[2] = v[2]
    BY <1>2, <2>1, <2>3, <2>4
  <2> QED
    BY <1>3, <2>2, <2>5
<1>8. ASSUME NEW t \in T
      PROVE  \E u \in U : g[u] = t
  <2>1. PICK p \in L : t \in E[p]
    OBVIOUS
  <2>2. PICK i \in 0 .. k[p] : F[p][i] = t
    BY <1>2, <2>1
  <2>3. <<p, i>> \in U
    BY <1>4, <2>1, <2>2
  <2>4. g[<<p, i>>] = t
    BY <2>2, <2>3
  <2> QED
    BY <2>3, <2>4
<1> HIDE DEF g, T
<1>9. g \in Bijection(U, T)
  BY <1>6, <1>7, <1>8 DEF Bijection, Injection, Surjection, IsInjective
<1> QED
  BY <1>9 DEF U, T, Numbered, Together, ExistsBijection

\* The sectors of the files, and those the disk cannot do without, are all the
\* sectors that are marked.
LEMMA UsedIs ==
    ASSUME IInv
    PROVE  /\ Tree!Used \in Nat
           /\ Tree!Used + Cardinality(SystemSectors) = Cardinality(freeMap)
<1> DEFINE L == Live \ {<<>>}
           k == [p \in L |-> Cardinality(Data(p))]
           X == [p \in L |-> Extent(p)]
           pairs == Numbered(L, k)
           owned == Together(L, X)
<1>1. /\ {FreeMapSector, 2} \subseteq freeMap
      /\ \A p \in Live : Extent(p) \subseteq freeMap \ {FreeMapSector, 2}
      /\ \A s \in freeMap \ {FreeMapSector, 2} : \E p \in Live : s \in Extent(p)
      /\ \A p \in Live : At(p) \notin Data(p)
      /\ \A p, q \in Live : p # q => Extent(p) \cap Extent(q) = {}
  BY DEF IInv, Owned
<1>2. IsFiniteSet(freeMap)
  BY SectorsAre, FS_Subset DEF IInv, OtherTypes
<1>3. ASSUME NEW p \in L
      PROVE  ExistsBijection(0 .. k[p], X[p])
  <2>1. Data(p) \subseteq freeMap /\ X[p] = Data(p) \cup {At(p)} /\ At(p) \notin Data(p)
    BY <1>1 DEF Extent
  <2>2. IsFiniteSet(Data(p))
    BY <1>2, <2>1, FS_Subset
  <2>3. Cardinality(Data(p)) \in Nat /\ k[p] = Cardinality(Data(p))
    BY <2>2, FS_CardinalityType
  <2>4. IsFiniteSet(X[p]) /\ Cardinality(X[p]) = Cardinality(Data(p)) + 1
    BY <2>1, <2>2, FS_AddElement
  <2>5. IsFiniteSet(0 .. k[p]) /\ Cardinality(0 .. k[p]) = Cardinality(Data(p)) + 1
    BY <2>3, FS_Interval
  <2> QED
    BY <2>4, <2>5, FS_SameCardinalityBij
<1>4. \A p, q \in L : p # q => X[p] \cap X[q] = {}
  BY <1>1
<1>5. \A p \in L : k[p] = SizeOf(p) /\ X[p] = Extent(p)
  BY DEF SizeOf
<1> HIDE DEF k, X
<1>6. ExistsBijection(pairs, owned)
  <2>1. \A p \in L : ExistsBijection(0 .. k[p], X[p])
    BY <1>3
  <2> HIDE DEF L
  <2> QED
    BY <2>1, <1>4, CountedApart
<1>7. <<>> \in Live /\ Extent(<<>>) = {DirectorySector} \cup RootData
  BY RootIsPath, WalkType DEF IInv, Extent, Data, Rooted
<1>8. owned = freeMap \ SystemSectors
  <2>1. SystemSectors = {FreeMapSector, 2} \cup Extent(<<>>)
    BY <1>7 DEF SystemSectors
  <2>2. ASSUME NEW s \in owned
        PROVE  s \in freeMap \ SystemSectors
    <3>1. PICK p \in L : s \in Extent(p)
      BY <1>5 DEF Together
    <3> QED
      BY <1>1, <1>7, <2>1, <3>1
  <2>3. ASSUME NEW s \in freeMap \ SystemSectors
        PROVE  s \in owned
    <3>1. PICK p \in Live : s \in Extent(p)
      BY <1>1, <2>1
    <3>2. p \in L
      BY <2>1, <3>1
    <3> QED
      BY <1>5, <3>1, <3>2 DEF Together
  <2> QED
    BY <2>2, <2>3
<1>9. SystemSectors \subseteq freeMap
  BY <1>1, <1>7 DEF SystemSectors
<1>10. Tree!Used = Cardinality(pairs)
  <2>1. DOMAIN TreeOnDisk = Live /\ \A p \in Live : TreeOnDisk[p].size = SizeOf(p)
    BY TreeIs
  <2>2. UNION {{p} \X (0 .. TreeOnDisk[p].size) : p \in DOMAIN TreeOnDisk \ {<<>>}} = pairs
    BY <1>5, <2>1 DEF Numbered
  <2> QED
    BY <2>2 DEF Tree!Used, Tree!Root, Tree!Cardinality, Cardinality
<1> HIDE DEF pairs, owned
<1>11. /\ IsFiniteSet(SystemSectors) /\ IsFiniteSet(owned)
       /\ SystemSectors \cap owned = {} /\ SystemSectors \cup owned = freeMap
  BY <1>2, <1>8, <1>9, FS_Subset
<1>12. Cardinality(freeMap) = Cardinality(SystemSectors) + Cardinality(owned)
  <2>1. Cardinality({}) = 0
    BY FS_EmptySet
  <2>2. Cardinality(freeMap) = Cardinality(SystemSectors) + Cardinality(owned) - 0
    BY <1>11, <2>1, FS_Union
  <2>3. Cardinality(owned) \in Nat /\ Cardinality(SystemSectors) \in Nat
    BY <1>11, FS_CardinalityType
  <2> QED
    BY <2>2, <2>3
<1>13. Cardinality(pairs) = Cardinality(owned)
  BY <1>6, <1>11, Fun_ExistsBijSymmetric, FS_Bijection
<1>14. Cardinality(owned) \in Nat /\ Cardinality(SystemSectors) \in Nat
  BY <1>11, FS_CardinalityType
<1> QED
  BY <1>10, <1>12, <1>13, <1>14

\* A file fits on the disk when it fits among the files of the tree.
LEMMA FitsIs ==
    ASSUME IInv, NEW n \in Nat
    PROVE  HasRoom(Sectors \ freeMap, n)
             <=> Tree!Used + 1 + n <= NumSectors - Cardinality(SystemSectors)
<1> DEFINE clear == Sectors \ freeMap
<1>1. /\ Tree!Used \in Nat
      /\ Tree!Used + Cardinality(SystemSectors) = Cardinality(freeMap)
  BY UsedIs
<1>2. IsFiniteSet(Sectors) /\ freeMap \subseteq Sectors /\ SystemSectors \subseteq Sectors
  BY SectorsAre DEF IInv, OtherTypes
<1>3. Cardinality(Sectors) = NumSectors /\ NumSectors \in Nat
  <2>1. NumSectors \in Nat
    BY DiskAssumption
  <2>2. Cardinality(0 .. NumSectors - 1) = NumSectors
    BY <2>1, FS_Interval
  <2> QED
    BY <2>1, <2>2 DEF Sectors
<1>4. IsFiniteSet(clear) /\ IsFiniteSet(freeMap) /\ IsFiniteSet(SystemSectors)
  BY <1>2, FS_Subset
<1>5. clear \cup freeMap = Sectors /\ clear \cap freeMap = {}
  BY <1>2
<1> HIDE DEF clear
<1>6. /\ Cardinality(clear) \in Nat /\ Cardinality(freeMap) \in Nat
      /\ Cardinality(SystemSectors) \in Nat
  BY <1>4, FS_CardinalityType
<1>7. Cardinality(clear) = NumSectors - Cardinality(freeMap)
  <2>1. Cardinality({}) = 0
    BY FS_EmptySet
  <2>2. Cardinality(Sectors) = Cardinality(clear) + Cardinality(freeMap) - 0
    BY <1>4, <1>5, <2>1, FS_Union
  <2> QED
    BY <1>3, <1>6, <2>2
<1>8. HasRoom(clear, n) <=> Cardinality(clear) - 1 >= n
  <2>1. clear = {} => Cardinality(clear) = 0
    BY FS_EmptySet
  <2>2. clear = {} => ~ (Cardinality(clear) - 1 >= n)
    BY <2>1
  <2> QED
    BY <2>2 DEF HasRoom
<1>9. Cardinality(clear) - 1 >= n
        <=> Tree!Used + 1 + n <= NumSectors - Cardinality(SystemSectors)
  BY <1>1, <1>3, <1>6, <1>7
<1> QED
  BY <1>8, <1>9 DEF clear

\* A table has an entry for each file of its directory, and the dots.
LEMMA TableIs ==
    ASSUME IInv, NEW c \in Live, IsDir(c)
    PROVE  Cardinality(Listed(c)) < NumDirEntries
             <=> Cardinality(Tree!Children(c)) < Tree!EntryLimit(c)
<1> DEFINE files == {e \in Listed(c) : e.name \in Names}
           dots  == DotsOf(c)
           f == [p \in Below(c) |-> Walk[p]]
<1>1. c \in Paths /\ Len(c) < MaxDepth
  BY Shallow DEF IInv, Live
<1>2. /\ IsFiniteSet(Listed(c)) /\ Listed(c) \subseteq EntrySet
      /\ {e \in Listed(c) : e.name \in {Dot, DotDot}} = dots
  BY <1>1, ListedIs DEF IInv
<1>3. Dot \notin Names /\ DotDot \notin Names /\ Dot # DotDot /\ NumDirEntries \in Nat
  BY DiskAssumption
<1>4. files \cup dots = Listed(c) /\ files \cap dots = {}
  <2>1. \A e \in Listed(c) : e.name \in Names \cup {Dot, DotDot}
    BY <1>2 DEF EntrySet
  <2> QED
    BY <1>2, <1>3, <2>1
<1>5. IsFiniteSet(files) /\ IsFiniteSet(dots)
  BY <1>2, <1>4, FS_Subset
<1>6. Cardinality(dots) = IF c = <<>> THEN 0 ELSE 2
  <2>1. CASE c = <<>>
    BY <2>1, FS_EmptySet DEF DotsOf
  <2>2. CASE c # <<>>
    <3>1. PICK d, dd : d = Entry(Dot, At(c), TRUE) /\ dd = Entry(DotDot, At(Up(c)), TRUE)
      OBVIOUS
    <3>2. dots = {d} \cup {dd}
      BY <2>2, <3>1 DEF DotsOf
    <3>3. d # dd
      BY <1>3, <3>1 DEF Entry
    <3>4. IsFiniteSet({d}) /\ Cardinality({d}) = 1
      BY FS_Singleton
    <3>5. Cardinality({d} \cup {dd}) = 2
      BY <3>3, <3>4, FS_AddElement
    <3> QED
      BY <2>2, <3>2, <3>5
  <2> QED
    BY <2>1, <2>2
<1>7. ASSUME NEW p \in Below(c)
      PROVE  p = Append(c, f[p].name) /\ f[p] \in files
  <2>1. p \in Live /\ p \in Paths /\ p # <<>> /\ Up(p) = c
    BY DEF Below, Live
  <2>2. Walk[p] \in Listed(c) /\ Walk[p].name = Own(p)
    BY <2>1, WalkType DEF IInv
  <2>3. Own(p) \in Names /\ p = Append(c, Own(p))
    BY <2>1, PathIs
  <2> QED
    BY <2>2, <2>3
<1>8. ASSUME NEW e \in files
      PROVE  \E p \in Below(c) : f[p] = e
  <2>1. PICK p : p = Append(c, e.name)
    OBVIOUS
  <2>2. p # <<>> /\ Up(p) = c
    BY <1>1, <2>1, PathAppended
  <2>3. Walk[p] = e /\ p \in Live
    BY <1>1, <2>1, EntryStep DEF IInv
  <2>4. p \in Below(c)
    BY <2>2, <2>3 DEF Below
  <2> QED
    BY <2>3, <2>4
<1>9. f \in Bijection(Below(c), files)
  <2>1. f \in [Below(c) -> files] /\ DOMAIN f = Below(c)
    BY <1>7
  <2>2. \A p, q \in Below(c) : f[p] = f[q] => p = q
    <3> SUFFICES ASSUME NEW p \in Below(c), NEW q \in Below(c), f[p] = f[q] PROVE p = q
      OBVIOUS
    <3> HIDE DEF f
    <3> QED
      BY <1>7
  <2> HIDE DEF f, files
  <2>3. f \in Injection(Below(c), files)
    BY <2>1, <2>2 DEF Injection, IsInjective
  <2>4. f \in Surjection(Below(c), files)
    BY <1>8, <2>1 DEF Surjection
  <2> QED
    BY <2>3, <2>4 DEF Bijection
<1> HIDE DEF f, files, dots
<1>10. Cardinality(files) = Cardinality(Below(c))
  <2>1. ExistsBijection(Below(c), files)
    BY <1>9 DEF ExistsBijection
  <2> QED
    BY <1>5, <2>1, Fun_ExistsBijSymmetric, FS_Bijection
<1>11. Cardinality(Listed(c)) = Cardinality(files) + Cardinality(dots)
  <2>1. Cardinality({}) = 0
    BY FS_EmptySet
  <2>2. Cardinality(Listed(c)) = Cardinality(files) + Cardinality(dots) - 0
    BY <1>4, <1>5, <2>1, FS_Union
  <2>3. Cardinality(files) \in Nat /\ Cardinality(dots) \in Nat
    BY <1>5, FS_CardinalityType
  <2> QED
    BY <2>2, <2>3
<1>12. Cardinality(Tree!Children(c)) = Cardinality(files)
  BY <1>10, TreeIs
<1>13. Cardinality(files) \in Nat
  BY <1>5, FS_CardinalityType
<1>14. Tree!EntryLimit(c) = IF c = <<>> THEN NumDirEntries ELSE NumDirEntries - 2
  BY DEF Tree!EntryLimit, Tree!Root
<1> QED
  BY <1>3, <1>6, <1>11, <1>12, <1>13, <1>14

-------------------------------------------------------------------------------
(* Every step is one of the tree.                                              *)

\* The facts about the tree and the current directory hold in the next state.
LEMMA TreeNext ==
    /\ TreeOnDisk' = [p \in Live' |-> [isDirectory |-> IsDir(p)', size |-> SizeOf(p)']]
    /\ Files' = [p \in Live' |-> Walk'[p]]
    /\ \A c : IInv' /\ c \in Live' /\ At(c)' = cdSector' => CurrentPath' = c
<1>1. /\ TreeOnDisk = [p \in Live |-> [isDirectory |-> IsDir(p), size |-> SizeOf(p)]]
      /\ Files = [p \in Live |-> Walk[p]]
      /\ \A c : IInv /\ c \in Live /\ At(c) = cdSector => CurrentPath = c
  BY TreeIs, FilesAre, CurrentIs
<1>2. (/\ TreeOnDisk = [p \in Live |-> [isDirectory |-> IsDir(p), size |-> SizeOf(p)]]
       /\ Files = [p \in Live |-> Walk[p]]
       /\ \A c : IInv /\ c \in Live /\ At(c) = cdSector => CurrentPath = c)'
  BY <1>1, PTL
<1> QED
  BY <1>2

\* While the disk stays, so does the tree.
LEMMA SameTree ==
    ASSUME UNCHANGED disk
    PROVE  /\ TreeOnDisk' = TreeOnDisk
           /\ UNCHANGED cdSector => CurrentPath' = CurrentPath
<1>1. Walk' = Walk
  BY SameDisk
<1>2. /\ \A p : At(p)' = At(p) /\ IsDir(p)' = IsDir(p)
      /\ \A p : Data(p)' = Data(p)
  BY <1>1 DEF At, IsDir, Data
<1>3. Live' = Live
  BY <1>2 DEF Live
<1>4. TreeOnDisk' = TreeOnDisk
  BY <1>2, <1>3, TreeIs, TreeNext DEF SizeOf
<1>5. Files' = Files
  BY <1>1, <1>3, FilesAre, TreeNext
<1>6. UNCHANGED cdSector => CurrentPath' = CurrentPath
  BY <1>5 DEF CurrentPath
<1> QED
  BY <1>4, <1>6

\* A name leads nowhere when the table does not hold it.
LEMMA NameIsFree ==
    ASSUME IInv, NEW c \in Live, IsDir(c), NEW name \in Names, NEW p, p = Append(c, name)
    PROVE  /\ p \in Paths /\ p # <<>> /\ Up(p) = c
           /\ p \notin Live <=> Found(Listed(c), name) = {}
           /\ p \in Live => Found(Listed(c), name) = {Walk[p]}
<1>1. c \in Paths /\ Len(c) < MaxDepth
  BY Shallow DEF IInv, Live
<1>2. p \in Paths /\ p # <<>> /\ Up(p) = c /\ Own(p) = name
  BY <1>1, PathAppended
<1>3. Found(Listed(c), name) = {e \in Listed(c) : e.name = name}
  BY DEF Found
<1>4. ASSUME NEW e \in Found(Listed(c), name)
      PROVE  Walk[p] = e /\ p \in Live
  <2>1. e \in Listed(c) /\ e.name = name
    BY <1>3
  <2>2. Walk[Append(c, e.name)] = e /\ Append(c, e.name) \in Live
    BY <1>1, <2>1, EntryStep DEF IInv
  <2> QED
    BY <2>1, <2>2
<1>5. p \in Live => Walk[p] \in Found(Listed(c), name)
  BY <1>2, <1>3, WalkType DEF IInv
<1> QED
  BY <1>2, <1>4, <1>5

\* Create succeeds for the reasons the tree gives.
LEMMA CanMakeIs ==
    ASSUME IInv, NEW c \in Live, IsDir(c), At(c) = cdSector, NEW name \in Names, NEW n \in Nat,
           NEW p, p = Append(c, name)
    PROVE  CanCreate(name, n) = Tree!CanMake(p, n)
<1>1. DOMAIN TreeOnDisk = Live /\ CurrentPath = c
  BY TreeIs, CurrentIs
<1>2. p \notin Live <=> Found(Listed(c), name) = {}
  BY NameIsFree
<1>3. Cardinality(Listed(c)) < NumDirEntries
        <=> Cardinality(Tree!Children(c)) < Tree!EntryLimit(c)
  BY TableIs
<1>4. HasRoom(Sectors \ freeMap, n)
        <=> Tree!Used + 1 + n <= NumSectors - Cardinality(SystemSectors)
  BY FitsIs
<1>5. Listed(c) = Fetch(cdSector)
  BY DEF Listed
<1>6. CanCreate(name, n) <=> /\ Found(Listed(c), name) = {}
                             /\ Cardinality(Listed(c)) < NumDirEntries
                             /\ HasRoom(Sectors \ freeMap, n)
  BY <1>5 DEF CanCreate
<1>7. Tree!CanMake(p, n) <=> /\ p \notin Live
                             /\ Cardinality(Tree!Children(c)) < Tree!EntryLimit(c)
                             /\ Tree!Used + 1 + n <= NumSectors - Cardinality(SystemSectors)
  BY <1>1 DEF Tree!CanMake, Tree!Cardinality, Cardinality
<1>8. CanCreate(name, n) <=> Tree!CanMake(p, n)
  BY <1>2, <1>3, <1>4, <1>6, <1>7
<1> QED
  BY <1>8 DEF CanCreate, Tree!CanMake

TreeGrown(c, p, x, data) ==
    /\ CurrentPath' = c
    /\ TreeOnDisk' = [q \in DOMAIN TreeOnDisk \cup {p} |->
         IF q = p THEN Tree!Node(x.isDirectory, Cardinality(data)) ELSE TreeOnDisk[q]]

\* An allocated file is a new node.
LEMMA AllocatedTree ==
    ASSUME IInv, IInv', NEW c, NEW x, NEW data, Allocated(c, x, data),
           NEW p, p = Append(c, x.name)
    PROVE  TreeGrown(c, p, x, data)
<1>1. c \in Live /\ At(c) = cdSector /\ UNCHANGED cdSector
  BY DEF Allocated
<1>2. p \in Paths \ Live /\ p # <<>>
  BY AllocatedWalk
<1>3. /\ Live' = Live \cup {p}
      /\ \A q \in Paths : q # p => At(q)' = At(q) /\ IsDir(q)' = IsDir(q)
      /\ \A q \in Live : Data(q)' = Data(q)
      /\ IsDir(p)' = x.isDirectory /\ Data(p)' = data
  <2>1. PathAdded(p, x, data)
    BY AllocatedPaths
  <2> QED
    BY <2>1 DEF PathAdded
<1>4. CurrentPath' = c
  <2>1. c \in Live' /\ At(c)' = cdSector'
    BY <1>1, <1>2, <1>3 DEF Live
  <2> QED
    BY <2>1, TreeNext
<1>5. \A q \in Live : IsDir(q)' = IsDir(q) /\ SizeOf(q)' = SizeOf(q)
  BY <1>2, <1>3 DEF SizeOf, Live
<1>6. SizeOf(p)' = Cardinality(data)
  BY <1>2, <1>3 DEF SizeOf
<1>7. TreeOnDisk = [q \in Live |-> [isDirectory |-> IsDir(q), size |-> SizeOf(q)]]
  BY TreeIs
<1>8. TreeOnDisk' = [q \in Live' |-> [isDirectory |-> IsDir(q)', size |-> SizeOf(q)']]
  BY TreeNext
<1>9. ASSUME NEW q \in Live'
      PROVE  [isDirectory |-> IsDir(q)', size |-> SizeOf(q)']
               = IF q = p THEN Tree!Node(x.isDirectory, Cardinality(data)) ELSE TreeOnDisk[q]
  <2>1. CASE q = p
    BY <1>3, <1>6, <2>1 DEF Tree!Node
  <2>2. CASE q # p
    BY <1>3, <1>5, <1>7, <2>2
  <2> QED
    BY <2>1, <2>2
<1>10. Live' = DOMAIN TreeOnDisk \cup {p}
  BY <1>3, <1>7
<1> QED
  BY <1>4, <1>8, <1>9, <1>10 DEF TreeGrown

\* Create, and CreateDirectory.
LEMMA CreateTree ==
    ASSUME IInv, IInv', NEW name \in Names, NEW n \in Nat, NEW isDirectory \in BOOLEAN,
           isDirectory => n = DirectorySectors, Create(name, n, isDirectory)
    PROVE  Tree!Make(Append(CurrentPath, name), Tree!Node(isDirectory, n))
<1>1. PICK c \in Live : IsDir(c) /\ At(c) = cdSector
  BY DEF IInv, Here
<1>2. PICK p : p = Append(c, name)
  OBVIOUS
<1>3. CurrentPath = c
  BY <1>1, CurrentIs
<1>4. /\ answer' = CanCreate(name, n) /\ UNCHANGED <<cdSector, halted>>
      /\ answer' => Allocate(name, n, isDirectory)
      /\ ~ answer' => UNCHANGED <<freeMap, disk>>
  BY DEF Create
<1>5. answer' = Tree!CanMake(p, n)
  BY <1>1, <1>2, <1>4, CanMakeIs
<1>6. Tree!Node(isDirectory, n).size = n
  BY DEF Tree!Node
<1>7. CASE answer'
  <2>1. PICK a, x, data : /\ Allocated(a, x, data) /\ Cardinality(data) = n
                          /\ x.name = name /\ x.isDirectory = isDirectory
    <3>1. /\ CanCreate(name, n) /\ Allocate(name, n, isDirectory)
          /\ UNCHANGED cdSector
      BY <1>4, <1>7
    <3> QED
      BY <3>1, AllocateIs
  <2>2. a = c
    BY <1>1, <2>1, HeadersApart DEF Allocated, IInv
  <2>3. Allocated(c, x, data) /\ p = Append(c, x.name)
    BY <1>2, <2>1, <2>2
  <2>4. /\ CurrentPath' = c
        /\ TreeOnDisk' = [q \in DOMAIN TreeOnDisk \cup {p} |->
             IF q = p THEN Tree!Node(x.isDirectory, Cardinality(data)) ELSE TreeOnDisk[q]]
    <3>1. TreeGrown(c, p, x, data)
      BY <2>3, AllocatedTree
    <3> QED
      BY <3>1 DEF TreeGrown
  <2>5. TreeOnDisk' = [q \in DOMAIN TreeOnDisk \cup {p} |->
             IF q = p THEN Tree!Node(isDirectory, n) ELSE TreeOnDisk[q]]
    BY <2>1, <2>4
  <2> QED
    BY <1>2, <1>3, <1>5, <1>6, <1>7, <2>4, <2>5 DEF Tree!Make
<1>8. CASE ~ answer'
  <2>1. TreeOnDisk' = TreeOnDisk /\ CurrentPath' = CurrentPath
    BY <1>4, <1>8, SameTree
  <2> QED
    BY <1>2, <1>3, <1>5, <1>6, <1>8, <2>1 DEF Tree!Make
<1> QED
  BY <1>7, <1>8

\* ChangeDirectory.
LEMMA ChangeTree ==
    ASSUME IInv, IInv', NEW name \in Names \cup {Dot, DotDot}, ChangeDirectory(name)
    PROVE  Tree!ChangeDirectory(name)
<1>1. PICK c \in Live : IsDir(c) /\ At(c) = cdSector
  BY DEF IInv, Here
<1>2. PICK q : q = Destination(c, name)
  OBVIOUS
<1>3. CurrentPath = c
  BY <1>1, CurrentIs
<1>4. /\ answer' = Leads(c, name)
      /\ Leads(c, name) => q \in Live /\ IsDir(q) /\ cdSector' = At(q)
      /\ ~ Leads(c, name) => cdSector' = cdSector
  BY <1>1, <1>2, ChangeIs
<1>5. UNCHANGED <<freeMap, disk, halted>>
  BY DEF ChangeDirectory
<1>6. TreeOnDisk' = TreeOnDisk
  BY <1>5, SameTree
<1>7. q = Tree!Target(name)
  BY <1>2, <1>3 DEF Tree!Target, Destination, Up, Tree!Seqs!Front, Seqs!Front
<1>8. Leads(c, name) = IF name \in {Dot, DotDot} THEN c # Tree!Root
                       ELSE q \in DOMAIN TreeOnDisk /\ TreeOnDisk[q].isDirectory
  <2>1. /\ DOMAIN TreeOnDisk = Live
        /\ \A p \in Live : TreeOnDisk[p].isDirectory = IsDir(p)
    BY TreeIs
  <2>2. q \in Live /\ IsDir(q) <=> q \in DOMAIN TreeOnDisk /\ TreeOnDisk[q].isDirectory
    BY <2>1
  <2> QED
    BY <1>2, <2>2 DEF Leads, Tree!Root
<1>9. CurrentPath' = IF answer' THEN q ELSE CurrentPath
  <2>1. CASE Leads(c, name)
    <3>1. Walk' = Walk
      BY <1>5, SameDisk
    <3>2. q \in Live' /\ At(q)' = cdSector'
      BY <1>4, <2>1, <3>1 DEF Live, At
    <3> QED
      BY <1>4, <2>1, <3>2, TreeNext
  <2>2. CASE ~ Leads(c, name)
    BY <1>4, <1>5, <2>2, SameTree
  <2> QED
    BY <2>1, <2>2
<1> QED
  BY <1>3, <1>4, <1>6, <1>7, <1>8, <1>9 DEF Tree!ChangeDirectory

TreeShrunk(c, p) ==
    /\ CurrentPath' = c
    /\ TreeOnDisk' = [q \in DOMAIN TreeOnDisk \ {p} |-> TreeOnDisk[q]]

\* A removed entry was a node, with none below.
LEMMA RemovedTree ==
    ASSUME IInv, IInv', NEW c, NEW x, Removed(c, x), NEW p, p = Append(c, x.name)
    PROVE  TreeShrunk(c, p)
<1>1. c \in Live /\ IsDir(c) /\ At(c) = cdSector /\ UNCHANGED cdSector
  BY DEF Removed
<1>2. p \in Live /\ c # p
  <2>1. LeadsTo(p, c, x)
    BY RemovedEntry
  <2> QED
    BY <2>1 DEF LeadsTo
<1>3. /\ Live' = Live \ {p}
      /\ \A q \in Paths : q # p => At(q)' = At(q) /\ IsDir(q)' = IsDir(q)
      /\ \A q \in Live : q # p => Data(q)' = Data(q)
  <2>1. PathRemoved(p)
    BY RemovedPaths
  <2> QED
    BY <2>1 DEF PathRemoved
<1>4. CurrentPath' = c
  <2>1. c \in Live' /\ At(c)' = cdSector'
    BY <1>1, <1>2, <1>3 DEF Live
  <2> QED
    BY <2>1, TreeNext
<1>5. \A q \in Live : q # p => IsDir(q)' = IsDir(q) /\ SizeOf(q)' = SizeOf(q)
  BY <1>3 DEF SizeOf, Live
<1>6. TreeOnDisk = [q \in Live |-> [isDirectory |-> IsDir(q), size |-> SizeOf(q)]]
  BY TreeIs
<1>7. TreeOnDisk' = [q \in Live' |-> [isDirectory |-> IsDir(q)', size |-> SizeOf(q)']]
  BY TreeNext
<1>8. \A q \in Live' : [isDirectory |-> IsDir(q)', size |-> SizeOf(q)'] = TreeOnDisk[q]
  BY <1>3, <1>5, <1>6
<1>9. Live' = DOMAIN TreeOnDisk \ {p}
  BY <1>3, <1>6
<1> QED
  BY <1>4, <1>7, <1>8, <1>9 DEF TreeShrunk

\* What may be removed: a file, or a directory that nothing is below.
LEMMA CanRemoveIs ==
    ASSUME IInv, NEW p \in Live, p # <<>>
    PROVE  CanRemove(Walk[p]) <=> Below(p) = {}
<1>1. p \in Paths
  BY DEF Live
<1>2. CASE ~ IsDir(p)
  <2>1. Below(p) = {}
    <3> SUFFICES ASSUME NEW q \in Below(p) PROVE FALSE
      OBVIOUS
    <3>1. q \in Paths /\ q \in Live /\ q # <<>> /\ Up(q) = p
      BY DEF Below, Live
    <3>2. IsDir(Up(q))
      BY <3>1, WalkType DEF IInv
    <3> QED
      BY <1>2, <3>1, <3>2
  <2>2. CanRemove(Walk[p])
    BY <1>2 DEF CanRemove, IsDir
  <2> QED
    BY <2>1, <2>2
<1>3. CASE IsDir(p)
  <2>1. Len(p) < MaxDepth
    BY <1>3, Shallow DEF IInv
  <2>2. CanRemove(Walk[p]) <=> \A e \in Listed(p) : e.name \in {Dot, DotDot}
    BY <1>3 DEF CanRemove, IsDir, IsEmpty, Listed, At
  <2>3. Dot \notin Names /\ DotDot \notin Names
    BY DiskAssumption
  <2>4. ASSUME NEW q \in Below(p)
        PROVE  \E e \in Listed(p) : e.name \notin {Dot, DotDot}
    <3>1. q \in Paths /\ q \in Live /\ q # <<>> /\ Up(q) = p
      BY DEF Below, Live
    <3>2. Walk[q] \in Listed(p) /\ Walk[q].name = Own(q)
      BY <3>1, WalkType DEF IInv
    <3>3. Own(q) \in Names
      BY <3>1, PathIs
    <3> QED
      BY <2>3, <3>2, <3>3
  <2>5. ASSUME NEW e \in Listed(p), e.name \notin {Dot, DotDot}
        PROVE  Below(p) # {}
    <3>1. e.name \in Names
      <4>1. e \in EntrySet
        BY <1>1, <1>3, ListedIs DEF IInv
      <4> QED
        BY <2>5, <4>1 DEF EntrySet
    <3>2. PICK q : q = Append(p, e.name)
      OBVIOUS
    <3>3. q # <<>> /\ Up(q) = p
      BY <1>1, <2>1, <3>1, <3>2, PathAppended
    <3>4. q \in Live
      BY <1>1, <1>3, <2>1, <3>1, <3>2, EntryStep DEF IInv
    <3> QED
      BY <3>3, <3>4 DEF Below
  <2> QED
    BY <2>2, <2>4, <2>5
<1> QED
  BY <1>2, <1>3

\* Remove.
LEMMA RemoveTree ==
    ASSUME IInv, IInv', NEW name \in Names, Remove(name)
    PROVE  Tree!Remove(Append(CurrentPath, name))
<1>1. PICK c \in Live : IsDir(c) /\ At(c) = cdSector
  BY DEF IInv, Here
<1>2. PICK p : p = Append(c, name)
  OBVIOUS
<1>3. CurrentPath = c
  BY <1>1, CurrentIs
<1>4. /\ p # <<>>
      /\ p \notin Live <=> Found(Listed(c), name) = {}
      /\ p \in Live => Found(Listed(c), name) = {Walk[p]}
  BY <1>1, <1>2, NameIsFree
<1>5. Listed(c) = Fetch(cdSector)
  BY <1>1 DEF Listed
<1>6. DOMAIN TreeOnDisk = Live /\ Tree!Children(p) = Below(p)
  BY TreeIs
<1>7. UNCHANGED <<cdSector, halted>>
  BY DEF Remove
<1>8. CASE \E e \in Found(Fetch(cdSector), name) :
             /\ CanRemove(e)
             /\ freeMap' = freeMap \ Freed(e)
             /\ disk' = WriteBack(disk, cdSector, Fetch(cdSector) \ {e})
             /\ answer' = TRUE
  <2>1. PICK e \in Found(Fetch(cdSector), name) :
             /\ CanRemove(e)
             /\ freeMap' = freeMap \ Freed(e)
             /\ disk' = WriteBack(disk, cdSector, Fetch(cdSector) \ {e})
             /\ answer' = TRUE
    BY <1>8
  <2>2. PICK a : Removed(a, e)
    BY <1>7, <2>1, RemoveIs
  <2>3. a = c
    BY <1>1, <2>2, HeadersApart DEF Removed, IInv
  <2>4. Removed(c, e) /\ p = Append(c, e.name)
    BY <1>2, <2>1, <2>2, <2>3 DEF Found
  <2>5. TreeShrunk(c, p)
    BY <2>4, RemovedTree
  <2>6. p \in Live /\ e = Walk[p]
    BY <1>4, <1>5, <2>1
  <2>7. Below(p) = {}
    BY <1>4, <2>1, <2>6, CanRemoveIs
  <2>8. answer' = (p \in DOMAIN TreeOnDisk /\ Tree!Children(p) = {})
    BY <1>6, <2>1, <2>6, <2>7
  <2>9. CurrentPath' = CurrentPath
    BY <1>3, <2>5 DEF TreeShrunk
  <2>10. TreeOnDisk' = Tree!Restrict(TreeOnDisk, DOMAIN TreeOnDisk \ {p})
    BY <2>5 DEF TreeShrunk, Tree!Restrict
  <2> QED
    BY <1>2, <1>3, <2>1, <2>8, <2>9, <2>10 DEF Tree!Remove
<1>9. CASE /\ \A e \in Found(Fetch(cdSector), name) : ~CanRemove(e)
           /\ answer' = FALSE
           /\ UNCHANGED <<freeMap, disk>>
  <2>1. p \in Live => Below(p) # {}
    BY <1>4, <1>5, <1>9, CanRemoveIs
  <2>2. answer' = (p \in DOMAIN TreeOnDisk /\ Tree!Children(p) = {})
    BY <1>6, <1>9, <2>1
  <2>3. TreeOnDisk' = TreeOnDisk /\ CurrentPath' = CurrentPath
    BY <1>7, <1>9, SameTree
  <2> QED
    BY <1>2, <1>3, <1>9, <2>2, <2>3 DEF Tree!Remove
<1> QED
  BY <1>8, <1>9 DEF Remove

\* The formatted disk is a tree with no files.
LEMMA InitTree == Init => Tree!Init
<1> SUFFICES ASSUME Init PROVE Tree!Init
  OBVIOUS
<1>1. IInv
  BY InitInv
<1>2. \A q \in Paths : q # <<>> => At(q) = Nowhere
  BY InitWalk DEF At, Missing, Entry
<1>3. <<>> \in Live /\ At(<<>>) = cdSector /\ IsDir(<<>>) = TRUE
  BY <1>1, RootIsPath, WalkType, InitWalk DEF IInv, Init, IsDir, Entry
<1>4. Live = {<<>>}
  BY <1>2, <1>3 DEF Live
<1>5. TreeOnDisk = [p \in {<<>>} |-> [isDirectory |-> TRUE, size |-> 0]]
  BY <1>3, <1>4, TreeIs DEF SizeOf
<1>6. CurrentPath = <<>>
  BY <1>1, <1>3, CurrentIs
<1> QED
  BY <1>5, <1>6 DEF Init, Tree!Init, Tree!Root, Tree!Node

\* Every step of the file system is a step of the tree.
LEMMA StepsOfTree ==
    ASSUME IInv, IInv', [Next]_vars
    PROVE  [Tree!Next]_(Tree!vars)
<1>1. ASSUME NEW name \in Names, NEW n \in Sizes, Create(name, n, FALSE)
      PROVE  Tree!Next
  <2>1. n \in Nat
    BY DiskAssumption
  <2>2. Tree!Make(Append(CurrentPath, name), Tree!Node(FALSE, n))
    BY <1>1, <2>1, CreateTree
  <2> QED
    BY <2>2 DEF Tree!Next
<1>2. ASSUME NEW name \in Names, CreateDirectory(name)
      PROVE  Tree!Next
  <2>1. DirectorySectors \in Nat
    BY DiskAssumption
  <2>2. Create(name, DirectorySectors, TRUE)
    BY <1>2 DEF CreateDirectory
  <2>3. Tree!Make(Append(CurrentPath, name), Tree!Node(TRUE, DirectorySectors))
    BY <2>1, <2>2, CreateTree
  <2> QED
    BY <2>3 DEF Tree!Next
<1>3. ASSUME NEW name \in Names, Remove(name)
      PROVE  Tree!Next
  BY <1>3, RemoveTree DEF Tree!Next
<1>4. ASSUME NEW name \in Names, Open(name)
      PROVE  UNCHANGED Tree!vars
  <2>1. UNCHANGED <<disk, cdSector, answer>>
    BY <1>4 DEF Open
  <2> QED
    BY <2>1, SameTree DEF Tree!vars
<1>5. ASSUME NEW name \in Names \cup {Dot, DotDot}, ChangeDirectory(name)
      PROVE  Tree!Next
  BY <1>5, ChangeTree DEF Tree!Next
<1>6. CASE Restart
  <2>1. UNCHANGED <<disk, answer>> /\ cdSector' = DirectorySector
    BY <1>6 DEF Restart
  <2>2. <<>> \in Live /\ At(<<>>) = DirectorySector
    BY RootIsPath, WalkType DEF IInv
  <2>3. Walk' = Walk
    BY <2>1, SameDisk
  <2>4. <<>> \in Live' /\ At(<<>>)' = cdSector'
    BY <2>1, <2>2, <2>3 DEF Live, At
  <2>5. CurrentPath' = <<>>
    BY <2>4, TreeNext
  <2>6. TreeOnDisk' = TreeOnDisk
    BY <2>1, SameTree
  <2>7. Tree!Restart
    BY <2>1, <2>5, <2>6 DEF Tree!Restart, Tree!Root
  <2> QED
    BY <2>7 DEF Tree!Next
<1>7. CASE UNCHANGED vars
  <2>1. UNCHANGED <<disk, cdSector, answer>>
    BY <1>7 DEF vars
  <2> QED
    BY <2>1, SameTree DEF Tree!vars
<1> QED
  BY <1>1, <1>2, <1>3, <1>4, <1>5, <1>6, <1>7 DEF Next

\* The sectors implement a tree of names: an operation changes the one file it
\* names, and fails for the reasons the comments of filesys.cc list, and no other.
THEOREM ImplementsTree == Spec => FileTreeSpec
<1>1. IInv /\ [Next]_vars => IInv'
  BY NextInv
<1>2. IInv /\ IInv' /\ [Next]_vars => [Tree!Next]_(Tree!vars)
  BY StepsOfTree
<1> QED
  BY <1>1, <1>2, InitTree, FilesInvariance, PTL DEF Spec, FileTreeSpec, Tree!Spec
================================================================================
