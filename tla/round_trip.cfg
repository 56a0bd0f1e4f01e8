CONSTANTS
    BufSize = 8
    BestWidth = 10
    Window = 20
    AllocCt = 2
    Jobs <- MCJobs
    Documents <- MCDocuments
    Texts <- MCTexts
SPECIFICATION Spec
INVARIANTS
    TypeOK
    ReadsBack
    BufferKeepsAll
    NoTrailingBlanks
    LevelsDeepen
    LevelsMatchTokens
    LoadsWithinDepth
    NodesFit
    Advances
    CursorInBuffer
    CallsAdvance
