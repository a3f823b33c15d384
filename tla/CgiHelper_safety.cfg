\* Four requests and an echo page on three workers, one after another or
\* overlapping; during one of them the server cannot fork, and may find no
\* descriptor left.
SPECIFICATION Spec
CONSTANTS
    Requests = {r1, r2, r3, r4, e1}
    Echoes = {e1}
    Workers = 3
    Chunks = 2
    Installed = TRUE
    ForkFails = {r4}
    OpenFails = {r4}
SYMMETRY Symmetry
INVARIANTS
    HelperRan
    LocatedOnce
    NothingLeftBehind
