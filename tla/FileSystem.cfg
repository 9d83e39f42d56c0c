\* A disk with four sectors to give: two directories, one in the other, or one with files in and beside it.
SPECIFICATION Spec
CONSTANTS
    Names = {a, b}
    Dot = "."
    DotDot = ".."
    NumSectors = 8
    Sizes = {0, 2}
    DirectorySectors = 1
    NumDirEntries = 3
    MaxDepth = 3
INVARIANTS
    TypeOK
    SectorsOwnedOnce
PROPERTY FileTreeSpec
SYMMETRY NameSymmetry
