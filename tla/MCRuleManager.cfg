\* Five calls: a save, a clear and a load with two updates around or inside them.
CONSTANTS
    Char <- MCChar
    Lower <- MCLower
    Base = 2
    IPTexts <- MCIPTexts
    AppName <- MCAppName
    AppTexts <- MCAppTexts
    DomainTexts <- MCDomainTexts
    Ports = {7}
    Names <- MCNames
    MaxCalls = 5
SPECIFICATION Spec
INVARIANTS
    TypeOK
    MatchesByLabels
PROPERTIES
    SaveIsFaithful
    LoadRestores
    ClearForgets
