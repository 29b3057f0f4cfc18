SPECIFICATION Spec
CONSTANTS
    MaxChars = 3
    Texts <- MCTexts
    ChunkBytes = 4
    Limits = {2, 4}
INVARIANTS Safety ShownIsReceived FenceKept
CHECK_DEADLOCK FALSE
