\* Both flows fit into the table; nothing but unknown traffic, and an IP rule.
CONSTANTS
    Addr = {0, 1}
    IPv6Addr = {}
    Port = {0}
    Protocol = {6, 17}
    HashOf <- MCHashOf
    MaxConnections = 2
    App = {"UNKNOWN"}
    Domain = {"a"}
    NoDomain = "-"
    PacketLimit = 0
    HalfOpenTimeout = 0
    DatagramTimeout = 0
    DefaultTimeout = 1
    Tuples <- MCTuples
    RuleIPs = {1}
    RuleApps = {}
    RuleDomains = {}
    Payload <- MCOpaque
    FlagSets <- MCFewFlagSets
SPECIFICATION FairSpec
PROPERTIES
    IdleFlowIsRemoved
    ClosedIsRemoved
