\* Two workers, at once or in turn, the thread of a file sink and a crash
\* anywhere: nine records over files of two, kept in two rotations.
SPECIFICATION Spec
CONSTANTS
    Loggers = {w1, w2}
    SinkWriters = {s1}
    Keep = 2
    MaxSize = 2
    MaxCalls = 9
    MaxCrashes = 1
SYMMETRY Symmetry
INVARIANTS
    LogStaysBounded
    SerialRotationDropsOldest
    NewestRetained
