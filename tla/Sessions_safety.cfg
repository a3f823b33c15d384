\* Fresh visitors come at different seconds; their requests overlap.
SPECIFICATION Spec
CONSTANTS
    Clients = {c1, c2}
    NoSession = NoSession
    Planted = Planted
    Presented <- MCPresented
    MaxSecond = 2
    MaxRequests = 2
    Spaced = TRUE
SYMMETRY Symmetry
INVARIANTS
    SessionsDistinct
    AdmittedByCredentials
PROPERTIES
    StaysAuthenticated
    RefusedOnlyWhileBuilding
