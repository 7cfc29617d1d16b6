\* The two limits are 10 in the code.  The packets have chains of headers and of
\* pointers that are shorter than the limit, as long, and longer by one.
CONSTANTS
    MAX_EXT_HEADERS = 3
    MAX_JUMPS = 2
    Char <- MCChar
    Lower <- MCLower
    Captures <- MCCaptures
    Memories <- MCMemories
SPECIFICATION Spec
INVARIANTS
    TypeOK
    ReadsInBounds
    
    ParsedAsSent
    
    MostSpecificApexWins
    WrittenIsReadable
PROPERTIES
    InspectionEnds
