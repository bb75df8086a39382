\* Two writers that are also readers; crashes and errors on POSIX, none on Windows.
SPECIFICATION Spec
CONSTANTS
    p1 = p1
    p2 = p2
    p3 = p3
    i1 = i1
    i2 = i2
    i3 = i3
    f1 = f1
    f2 = f2
    f3 = f3
    f4 = f4
    NoInode = NoInode
    NoList = NoList
    Procs = {p1, p2}
    Ids = {i1, i2}
    Inodes = {f1, f2, f3, f4}
    Platforms = {"posix", "windows"}
    Faults <- FaultyPosix
SYMMETRY Symmetry
INVARIANTS
    LoadsAreStored
    SavesAreKept
    NoLitter
