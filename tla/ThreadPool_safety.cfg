\* Three workers and four tasks: tasks queue while some workers run, some
\* wait and some are on their way to the lock.  No symmetry: the refinement
\* and the liveness properties need the full graph.
SPECIFICATION FairSpec
CONSTANTS
    Workers = {w1, w2, w3}
    Tasks = {t1, t2, t3, t4}
    NoTask = NoTask
INVARIANTS
    WorkConserving
    DrainedBeforeExit
PROPERTIES
    EachTaskOnce
    ImplementsTaskPool
    EveryTaskFinishes
    ShutdownCompletes
