\* As MCFastPath, against the documented support of IPv6.
CONSTANTS
    Addr = {0, 1, 2, 3}
    IPv6Addr = {2, 3}
    Port = {0}
    Protocol = {6, 17}
    HashOf <- MCHashOf
    MaxConnections = 1
    App = {"UNKNOWN", "TLS"}
    Domain = {"a"}
    NoDomain = "-"
    PacketLimit = 1
    HalfOpenTimeout = 0
    DatagramTimeout = 0
    DefaultTimeout = 1
    Tuples <- MCTuples
    RuleIPs = {1}
    RuleApps = {"TLS"}
    RuleDomains = {"a"}
    Payload <- MCPayload
    FlagSets <- MCFlagSets
SPECIFICATION Spec
INVARIANT SurvivesEveryPacket
