\* The sequence numbers wrap around inside the stream (28 + 4 = 32).
CONSTANTS
    StreamLen = 11
    HelloLen = 4
    MaxBytes = 5
    Modulus = 32
    ISN = 28
SPECIFICATION Spec
INVARIANTS
    TypeOK
    BufferIsContiguous
    NothingMergeableWaits
    AccountingHolds
    HeldBelowTwiceLimit
    HelloFoundWhenDelivered
