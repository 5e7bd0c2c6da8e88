SPECIFICATION FairSpec
CONSTANTS
    Inputs <- Requested
    HTTP_MAX_HEADER = 12
    HTTP_MAX_BODY = 2
    AcceptMax = 2
    IdMax = 2
    ULONG_MAX = 7
INVARIANTS
    RequestTypeOK
    HeaderEndFound
    LengthHonoured
    BodyExact
    AcceptFirstWins
    ReplyExact
    CompleteIsRead
PROPERTIES
    CompleteIsTaken
    StepsRunOut
