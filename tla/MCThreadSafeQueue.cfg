\* Two producers, two consumers: notify_one has a choice on both sides.
CONSTANTS
    Producer = {p1, p2}
    Consumer = {c1, c2}
    MaxSize = 1
    MaxCalls = 2
SPECIFICATION FairSpec
INVARIANTS
    TypeOK
    NoLostWakeup
PROPERTIES
    ImplementsChannel
    ShutdownReleasesEveryCall
    BlockedPushReturns
    AcceptedIsDelivered
