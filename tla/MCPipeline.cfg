\* Packets 1, 2 and 5 are one flow: they fill its queues of two, so that every
\* stage can block its predecessor; with and without an output file.
CONSTANTS
    Addr = {0, 1}
    Port = {0, 1}
    Protocol = {"tcp"}
    HashOf <- MCHashOf
    NumPackets = 5
    TupleOf <- MCTupleOf
    Malformed = {4}
    NumParsers = 2
    NumLBs = 2
    FPsPerLB = 2
    QueueSize = 4
    WorkerQueueSize = 2
    FileModes = {TRUE, FALSE}
SPECIFICATION FairSpec
INVARIANTS
    TypeOK
    EveryPacketOnce
    NoSilentLoss
    FlowAffinity
    StopLeavesNoPacketBehind
    OrderKeptAfterParsers
PROPERTIES
    StopReturns
