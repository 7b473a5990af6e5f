SPECIFICATION Spec
CONSTANTS
    None = None
    CHUNK_MAX_TOKENS = 16
    CHUNK_TARGET_TOKENS = 11
    max_sequence_tokens = 14
    SpecialTokens = 1
    Rates = {1, 2}
    OCR_MIN_NATIVE_CHARS = 10
    OCR_MAX_PAGES = 1
    MIN_PDF_CHARS_PER_PAGE = 2
    Files <- SmallFiles
INVARIANTS
    NothingLost
    FitsWindow
    CitedRight
CHECK_DEADLOCK FALSE
