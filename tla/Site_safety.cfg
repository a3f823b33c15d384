\* Two deployments, overlapping or not, of archives that share a file; one
\* client downloads twice; two seconds; to the first of them the disk may be full
\* or no descriptor left.
SPECIFICATION Spec
CONSTANTS
    Deployers = {"d1", "d2"}
    Archive <- TwoArchives
    Clients = {c1}
    Asked <- OnlyIndex
    MaxGets = 2
    MaxSecond = 1
    Hole = "hole"
    MayFill = {"d1"}
INVARIANTS
    DeclaredLengthSent
    CountIsOnDisk
    ShallowEntriesLand
PROPERTIES
    NotModifiedIsTrue
