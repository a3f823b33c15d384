\* Two fresh visitors in one second.
SPECIFICATION Spec
CONSTANTS
    Clients = {c1, c2}
    NoSession = NoSession
    Planted = Planted
    Presented = {}
    MaxSecond = 0
    MaxRequests = 1
    Spaced = FALSE
INVARIANTS
    SessionsDistinct
