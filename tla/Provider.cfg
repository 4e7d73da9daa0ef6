SPECIFICATION ProviderSpec
CONSTANTS
    MaxHead = 7
    PageSize = 2
    None = None
    Nothing = Nothing
INVARIANTS
    Contiguous
    EndMeansAll
    OutcomeIsDefinite
    UndefinedMeansUnreported
CHECK_DEADLOCK FALSE
