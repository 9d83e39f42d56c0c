------------------------------- MODULE FileTree -------------------------------
(* What the file system of dev2 promises to its caller: a tree of named files  *)
(* and directories, a current directory, and an operation that fails only for  *)
(* the reasons its comment lists. FileSystem implements it with sectors.       *)
EXTENDS Integers, Sequences, FiniteSets, Functions

Seqs == INSTANCE SequencesExt

CONSTANTS
    Names,          \* file names
    Dot, DotDot,    \* "." and "..", which name a directory and its parent
    Sizes,          \* the sizes of files, in sectors
    DirectorySize,  \* the size of a directory, in sectors
    Capacity,       \* sectors of the disk that files may use
    RootEntries,    \* how many entries the root may have
    SubEntries      \* how many entries another directory may have

VARIABLES
    tree,           \* [path -> [isDirectory, size]], the root at << >>
    cwd,            \* the path of the current directory
    answer          \* what the last operation returned

vars == <<tree, cwd, answer>>

Node(isDirectory, size) == [isDirectory |-> isDirectory, size |-> size]
Root == <<>>

Children(path) == {p \in DOMAIN tree : p # Root /\ Seqs!Front(p) = path}
EntryLimit(path) == IF path = Root THEN RootEntries ELSE SubEntries

\* The sectors that the files use, each with one for its header.
Used == Cardinality(UNION {{p} \X (0 .. tree[p].size) : p \in DOMAIN tree \ {Root}})

Init ==
    /\ tree = [p \in {Root} |-> Node(TRUE, 0)]
    /\ cwd = Root
    /\ answer = TRUE

CanMake(path, size) ==
    /\ path \notin DOMAIN tree
    /\ Cardinality(Children(cwd)) < EntryLimit(cwd)
    /\ Used + 1 + size =< Capacity

Make(path, node) ==
    /\ answer' = CanMake(path, node.size)
    /\ IF answer'
       THEN tree' = [p \in DOMAIN tree \cup {path} |-> IF p = path THEN node ELSE tree[p]]
       ELSE UNCHANGED tree
    /\ UNCHANGED cwd

Remove(path) ==
    /\ answer' = (path \in DOMAIN tree /\ Children(path) = {})
    /\ tree' = IF answer' THEN Restrict(tree, DOMAIN tree \ {path}) ELSE tree
    /\ UNCHANGED cwd

\* The directory that a name given to ChangeDirectory stands for; the root has
\* no "." and no "..".
Target(name) ==
    IF name \notin {Dot, DotDot} THEN Append(cwd, name)
    ELSE IF name = Dot THEN cwd ELSE Seqs!Front(cwd)

ChangeDirectory(name) ==
    /\ answer' = IF name \in {Dot, DotDot} THEN cwd # Root
                 ELSE Target(name) \in DOMAIN tree /\ tree[Target(name)].isDirectory
    /\ cwd' = IF answer' THEN Target(name) ELSE cwd
    /\ UNCHANGED tree

Restart ==
    /\ cwd' = Root
    /\ UNCHANGED <<tree, answer>>

Next ==
    \/ \E name \in Names :
        \/ \E size \in Sizes : Make(Append(cwd, name), Node(FALSE, size))
        \/ Make(Append(cwd, name), Node(TRUE, DirectorySize))
        \/ Remove(Append(cwd, name))
    \/ \E name \in Names \cup {Dot, DotDot} : ChangeDirectory(name)
    \/ Restart

Spec == Init /\ [][Next]_vars
===============================================================================
