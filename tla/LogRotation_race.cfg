\* Two workers find the log too big at the same time.
SPECIFICATION Spec
CONSTANTS
    Loggers = {w1, w2}
    SinkWriters = {}
    Keep = 2
    MaxSize = 1
    MaxCalls = 6
    MaxCrashes = 0
INVARIANTS
    OnlyOldestDropped
