SPECIFICATION Spec
CONSTANTS
    Files = {f1, f2}
    Owners = {o1, o2}
    Anyone = Anyone
    Uploads = {u1, u2}
    Downloads = {d1, d2}
    MaxSize = 4
    ChunkSize = 2
    Nothing = Nothing
SYMMETRY Symmetry
CHECK_DEADLOCK FALSE
INVARIANTS
    ListedOnDisk
    LeaksAccounted
    DownloadWhole
    MissingOnlyIfDeleted
