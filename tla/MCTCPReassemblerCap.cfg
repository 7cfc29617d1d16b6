\* As MCTCPReassembler, against the documented limit.
CONSTANTS
    StreamLen = 11
    HelloLen = 4
    MaxBytes = 5
    Modulus = 32
    ISN = 28
SPECIFICATION Spec
INVARIANT StrictAggregateMax
