\* Two expected producers of a simulation that is finalized when both have stopped.
CONSTANTS
    s1 = s1  s2 = s2
    t1 = t1  t2 = t2
    metrics = metrics  journal = journal
    Sessions = {s1, s2}
    Threads = {t1}
    Producers = {metrics, journal}
    ProducerOf <- TwoProducers
    Expected = {metrics, journal}
    Sizes = {1}
    Cap = 5
    MaxPending = 1
    MaxBatch = 1
    MaxOutputs = 1
    FinalizeLive = FALSE
    Finalizer = Finalizer
    Free = Free
SPECIFICATION Spec
INVARIANT CompleteMeansNothingLost
CHECK_DEADLOCK FALSE
