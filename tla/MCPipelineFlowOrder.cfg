\* Two parsers and two packets of one flow.
CONSTANTS
    Addr = {0, 1}
    Port = {0, 1}
    Protocol = {"tcp"}
    HashOf <- MCHashOf
    NumPackets = 2
    TupleOf <- MCTupleOf
    Malformed = {}
    NumParsers = 2
    NumLBs = 1
    FPsPerLB = 1
    QueueSize = 2
    WorkerQueueSize = 2
    FileModes = {FALSE}
SPECIFICATION FairSpec
INVARIANT StrictFlowOrder
