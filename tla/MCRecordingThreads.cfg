\* One process with two capturing threads: overflow of the queue and of the byte cap,
\* and writers and a finalizer that may stall for ever.
CONSTANTS
    s1 = s1  s2 = s2
    t1 = t1  t2 = t2
    metrics = metrics  journal = journal
    Sessions = {s1}
    Threads = {t1, t2}
    Producers = {metrics, journal}
    ProducerOf <- SameProducer
    Expected = {metrics}
    Sizes = {1, 2}
    Cap = 4
    MaxPending = 2
    MaxBatch = 2
    MaxOutputs = 2
    FinalizeLive = TRUE
    Finalizer = Finalizer
    Free = Free
SPECIFICATION CaptureSpec
INVARIANT PendingNeverWraps
PROPERTIES Returns KeepsContract
CHECK_DEADLOCK FALSE
