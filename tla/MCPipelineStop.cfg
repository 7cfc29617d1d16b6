\* processFile with more packets in flight than the output queue holds.
CONSTANTS
    Addr = {0, 1}
    Port = {0, 1}
    Protocol = {"tcp"}
    HashOf <- MCHashOf
    NumPackets = 2
    TupleOf <- MCTupleOf
    Malformed = {}
    NumParsers = 1
    NumLBs = 1
    FPsPerLB = 1
    QueueSize = 1
    WorkerQueueSize = 2
    FileModes = {TRUE}
SPECIFICATION FairSpec
PROPERTY StopReturns
CHECK_DEADLOCK FALSE
