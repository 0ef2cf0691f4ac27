\* Two processes of one producer share a recording that may be finalized while they run.
CONSTANTS
    s1 = s1  s2 = s2
    t1 = t1  t2 = t2
    metrics = metrics  journal = journal
    Sessions = {s1, s2}
    Threads = {t1}
    Producers = {metrics, journal}
    ProducerOf <- SameProducer
    Expected = {metrics}
    Sizes = {1}
    Cap = 5
    MaxPending = 1
    MaxBatch = 1
    MaxOutputs = 1
    FinalizeLive = TRUE
    Finalizer = Finalizer
    Free = Free
SPECIFICATION Spec
SYMMETRY SessionSymmetry
INVARIANTS ExactPrefix CompleteMeansNothingLost RunningIsRecorded
PROPERTY ClosedStays
CHECK_DEADLOCK FALSE
