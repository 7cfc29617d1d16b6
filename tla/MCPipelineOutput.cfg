\* processFile: the output thread against the draining of the pipeline.
CONSTANTS
    Addr = {0, 1}
    Port = {0, 1}
    Protocol = {"tcp"}
    HashOf <- MCHashOf
    NumPackets = 2
    TupleOf <- MCTupleOf
    Malformed = {}
    NumParsers = 1
    NumLBs = 1
    FPsPerLB = 1
    QueueSize = 2
    WorkerQueueSize = 2
    FileModes = {TRUE}
SPECIFICATION FairSpec
INVARIANT ForwardedIsWritten
