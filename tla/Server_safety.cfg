\* Three connections, two workers and two descriptors: accept() meets EMFILE
\* and every descriptor number is reused.  The client of one connection may
\* never send, and if it does, its handler throws: one descriptor and one
\* worker of two may be lost for good.
SPECIFICATION FairSpec
CONSTANTS
    Workers = {w1, w2}
    Conns = {c1, c2, c3}
    NoConn = NoConn
    Fds = {1, 2}
    BacklogMax = 1
    Throwing = {c1}
    Uploads = {c1}
    Slow = {c1}
    Silent = {c1}
INVARIANTS
    DescriptorIsMine
    ServedBeforeExit
PROPERTIES
    ShutdownExits
    ConnectionIsServed
