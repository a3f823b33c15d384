\* Two admin requests, overlapping or not, three installations over three
\* addresses: the address of a deleted sink is reused under queued records.
SPECIFICATION FairSpec
CONSTANTS
    Records = {r1, r2}
    Installers = {i1, i2}
    Addrs = {a1, a2, a3}
    Null = Null
    MaxSinks = 3
    FlushTicks = 2
    MayExit = TRUE
INVARIANTS
    CurrentSinkLives
    CapturedSinkWasAlive
    NoSinkLeaks
PROPERTIES
    ImplementsPipe
    EveryRecordWritten
