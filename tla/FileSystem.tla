------------------------------ MODULE FileSystem ------------------------------
(* The file system of dev2: a map of the disk's sectors, file headers and      *)
(* directories, all kept on the disk, and the current directory, which is not. *)
(*                                                                             *)
(* One operation is one action: filesys.cc says that nothing synchronises      *)
(* concurrent calls and that an exit in the middle of one may corrupt the      *)
(* disk, so neither is asked of it here. Nachos may stop and be started again  *)
(* between any two operations. What a file contains is left out, except for    *)
(* the table of a directory; a sector keeps its contents when it is freed.     *)
EXTENDS Integers, Sequences, FiniteSets, FiniteSetsExt, Functions

Seqs == INSTANCE SequencesExt

CONSTANTS
    Names,              \* names of files and directories
    Dot, DotDot,        \* "." and ".."
    NumSectors,         \* the size of the disk
    Sizes,              \* the sizes of files, in sectors
    DirectorySectors,   \* the sectors of a directory's table
    NumDirEntries,      \* the entries of a directory's table
    MaxDepth            \* bound on the length of the paths looked at

FreeMapSector == 0
DirectorySector == 1
Sectors == 0 .. NumSectors - 1
RootData == 3 .. 2 + DirectorySectors
SystemSectors == {FreeMapSector, DirectorySector, 2} \cup RootData

ASSUME DiskAssumption ==
    /\ {Dot, DotDot} \cap Names = {} /\ Dot # DotDot
    /\ Sizes \subseteq Nat /\ DirectorySectors \in Nat \ {0}
    /\ NumDirEntries \in Nat /\ NumDirEntries >= 2
    /\ NumSectors \in Nat /\ SystemSectors \subseteq Sectors
    /\ MaxDepth \in Nat
    /\ MaxDepth > (NumSectors - Cardinality(SystemSectors)) \div (1 + DirectorySectors)

VARIABLES
    freeMap,            \* the sectors marked in the bitmap file
    disk,               \* what each sector holds: a header, a table, or neither
    cdSector,           \* the header of the current directory
    answer,             \* what the last operation returned
    halted              \* Open has followed a pointer nobody set

vars == <<freeMap, disk, cdSector, answer, halted>>

Header(data) == [data |-> data, entries |-> {}]
Table(entries) == [data |-> {}, entries |-> entries]
Unwritten == [data |-> {}, entries |-> {}]

Entry(name, sector, isDirectory) ==
    [name |-> name, sector |-> sector, isDirectory |-> isDirectory]

\* Directory::FetchFrom and WriteBack, through the header of the directory.
Fetch(sector) == disk[Min(disk[sector].data)].entries
WriteBack(contents, sector, entries) ==
    [s \in Sectors |-> IF s \in contents[sector].data THEN Table(entries) ELSE contents[s]]

Found(entries, name) == {e \in entries : e.name = name}
IsEmpty(entries) == \A e \in entries : e.name \in {Dot, DotDot}

\* BitMap::Find, n times: the lowest clear sectors.
Lowest(clear, n) == {s \in clear : Cardinality({t \in clear : t < s}) < n}

\* FileHeader::Allocate, once the header has its own sector.
HasRoom(clear, n) == clear # {} /\ Cardinality(clear) - 1 >= n

\* The formatted disk, as the program finds it when it starts.
Init ==
    /\ freeMap = SystemSectors
    /\ disk = [s \in Sectors |->
                IF s = FreeMapSector THEN Header({2})
                ELSE IF s = DirectorySector THEN Header(RootData) ELSE Unwritten]
    /\ cdSector = DirectorySector
    /\ answer = TRUE
    /\ halted = FALSE

\* Fault: ".." always names the root.
DotsOfRoot(sector) == {Entry(Dot, sector, TRUE), Entry(DotDot, DirectorySector, TRUE)}

\* A new directory names itself and the directory it was made in.
Dots(sector) == {Entry(Dot, sector, TRUE), Entry(DotDot, cdSector, TRUE)}

\* Fault: the table of the directory is not checked for room.
NoLimit(name, n) ==
    /\ Found(Fetch(cdSector), name) = {}
    /\ HasRoom(Sectors \ freeMap, n)

CanCreate(name, n) ==
    /\ Found(Fetch(cdSector), name) = {}
    /\ Cardinality(Fetch(cdSector)) < NumDirEntries
    /\ HasRoom(Sectors \ freeMap, n)

Allocate(name, n, isDirectory) ==
    LET clear   == Sectors \ freeMap
        sector  == Min(clear)
        data    == Lowest(clear \ {sector}, n)
        entries == Fetch(cdSector) \cup {Entry(name, sector, isDirectory)}
        listed  == WriteBack([disk EXCEPT ![sector] = Header(data)], cdSector, entries)
    IN  /\ freeMap' = freeMap \cup {sector} \cup data
        /\ disk' = IF isDirectory THEN WriteBack(listed, sector, Dots(sector)) ELSE listed

Create(name, n, isDirectory) ==
    /\ answer' = CanCreate(name, n)
    /\ IF answer' THEN Allocate(name, n, isDirectory) ELSE UNCHANGED <<freeMap, disk>>
    /\ UNCHANGED <<cdSector, halted>>

CreateDirectory(name) == Create(name, DirectorySectors, TRUE)

ChangeDirectory(name) ==
    LET target == {e \in Found(Fetch(cdSector), name) : e.isDirectory}
    IN  /\ answer' = (target # {})
        /\ cdSector' = IF answer' THEN (CHOOSE e \in target : TRUE).sector ELSE cdSector
        /\ UNCHANGED <<freeMap, disk, halted>>

CanRemove(e) == e.isDirectory => IsEmpty(Fetch(e.sector))
\* Fault: the sector of the header is forgotten.
OnlyDataFreed(e) == disk[e.sector].data

\* FileHeader::Deallocate and BitMap::Clear.
Freed(e) == disk[e.sector].data \cup {e.sector}

Remove(name) ==
    /\ \/ \E e \in Found(Fetch(cdSector), name) :
            /\ CanRemove(e)
            /\ freeMap' = freeMap \ Freed(e)
            /\ disk' = WriteBack(disk, cdSector, Fetch(cdSector) \ {e})
            /\ answer' = TRUE
       \/ /\ \A e \in Found(Fetch(cdSector), name) : ~CanRemove(e)
          /\ answer' = FALSE
          /\ UNCHANGED <<freeMap, disk>>
    /\ UNCHANGED <<cdSector, halted>>

\* Open of a file looks through ten pointers that its table's constructor never
\* set: the machine stops, unless each happens to lead somewhere.
Open(name) ==
    /\ \E e \in Found(Fetch(cdSector), name) : ~e.isDirectory
    /\ halted' \in BOOLEAN
    /\ UNCHANGED <<freeMap, disk, cdSector, answer>>

\* Nachos is started again without -f, on the disk it left.
Restart ==
    /\ cdSector' = DirectorySector
    /\ halted' = FALSE
    /\ UNCHANGED <<freeMap, disk, answer>>

Next ==
    \/ /\ ~halted
       /\ \/ \E name \in Names :
                \/ \E n \in Sizes : Create(name, n, FALSE)
                \/ CreateDirectory(name)
                \/ Remove(name)
                \/ Open(name)
          \/ \E name \in Names \cup {Dot, DotDot} : ChangeDirectory(name)
    \/ Restart

Spec == Init /\ [][Next]_vars
-------------------------------------------------------------------------------
Nowhere == -1
Paths == Seqs!BoundedSeq(Names, MaxDepth)

\* The entry a path leads to from the root, one at Nowhere if it names nothing.
Walk[path \in Paths] ==
    IF path = <<>> THEN Entry(path, DirectorySector, TRUE)
    ELSE LET up    == Walk[Seqs!Front(path)]
             found == IF up.isDirectory THEN Found(Fetch(up.sector), Seqs!Last(path)) ELSE {}
         IN  IF found = {} THEN Entry(path, Nowhere, FALSE) ELSE CHOOSE e \in found : TRUE

\* The paths that lead to a file or a directory, with the entries they lead to.
Files ==
    LET walked == [p \in Paths |-> Walk[p]]
    IN  Restrict(walked, {p \in Paths : walked[p].sector # Nowhere})

\* The disk, seen as a tree.
TreeOnDisk ==
    LET files == Files
    IN  [p \in DOMAIN files |->
            [isDirectory |-> files[p].isDirectory,
             size |-> IF p = <<>> THEN 0 ELSE Cardinality(disk[files[p].sector].data)]]

\* The path of the current directory; nobody's child if there is none.
CurrentPath ==
    LET files == Files
        here  == {p \in DOMAIN files : files[p].sector = cdSector}
    IN  IF here = {} THEN <<Nowhere>> ELSE CHOOSE p \in here : TRUE

\* A name that a directory's table holds, or the sector of a header.
EntrySet == [name : Names \cup {Dot, DotDot}, sector : Sectors, isDirectory : BOOLEAN]

\* Types; a table holds at most NumDirEntries entries, no two with one name, and
\* only a header or a table is ever written.
TypeOK ==
    /\ freeMap \subseteq Sectors
    /\ \A s \in Sectors :
        /\ disk[s].data \subseteq Sectors
        /\ disk[s].entries \subseteq EntrySet
        /\ disk[s].data = {} \/ disk[s].entries = {}
        /\ Cardinality(disk[s].entries) =< NumDirEntries
        /\ \A e, f \in disk[s].entries : e.name = f.name => e = f
    /\ cdSector \in Sectors
    /\ answer \in BOOLEAN /\ halted \in BOOLEAN

\* Every marked sector is the header or the data of exactly one file that a path
\* leads to (or of the map), and no clear sector is: whatever is created, removed
\* and created again, no sector is given to two files and none is lost.
SectorsOwnedOnce ==
    LET files  == Files
        data   == [p \in DOMAIN files |-> disk[files[p].sector].data]
        extent == [p \in DOMAIN files |-> {files[p].sector} \cup data[p]]
    IN  /\ freeMap = {FreeMapSector, 2} \cup UNION Range(extent)
        /\ {FreeMapSector, 2} \cap UNION Range(extent) = {}
        /\ \A p, q \in DOMAIN files : p # q => extent[p] \cap extent[q] = {}
        /\ \A p \in DOMAIN files : files[p].sector \notin data[p]

\* The sectors implement a tree of names (filesys.cc, the comments of Create,
\* Remove and ChangeDirectory): an operation on the current directory changes the
\* one file it names, fails for the listed reasons only, ".." leads to the
\* directory that holds the current one, and a restart keeps every file.
Tree == INSTANCE FileTree WITH
    tree <- TreeOnDisk, cwd <- CurrentPath,
    DirectorySize <- DirectorySectors,
    Capacity <- NumSectors - Cardinality(SystemSectors),
    RootEntries <- NumDirEntries, SubEntries <- NumDirEntries - 2
FileTreeSpec == Tree!Spec
===============================================================================
