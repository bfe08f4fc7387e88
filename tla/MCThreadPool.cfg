SPECIFICATION FairSpec
CONSTANTS
    Workers = {w1, w2}
    Submitters = {s1}
    Closers = {c1, c2}
    Tasks = {t1, t2}
    NoThread = NoThread
    NoTask = NoTask
INVARIANTS TypeOK FifoExactlyOnce PopFindsTask DrainedWhenJoined ActiveExact
INVARIANTS WaitersExact WorkConserving ShutdownWakesAll
PROPERTIES ImplementsTaskQueue AcceptedRuns ShutdownReturns
