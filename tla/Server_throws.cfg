\* One request whose handler throws.
SPECIFICATION Spec
CONSTANTS
    Workers = {w1, w2}
    Conns = {c1, c2}
    NoConn = NoConn
    Fds = {1, 2}
    BacklogMax = 2
    Throwing = {c1}
    Uploads = {}
    Slow = {}
    Silent = {}
INVARIANTS
    WorkerClosesItsSocket
