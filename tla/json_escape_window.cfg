CONSTANTS
    BufSize = 8
    BestWidth = 10
    Window = 16
    AllocCt = 2
    Jobs <- MCEscapeJobs
    Documents <- MCNoDocuments
    Texts <- MCNoTexts
SPECIFICATION Spec
INVARIANT ReadsBack
