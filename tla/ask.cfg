SPECIFICATION Spec
CONSTANTS
    d1 = d1
    d2 = d2
    owner = owner
    boss = boss
    None = None
    Docs = {d1, d2}
    Users = {owner, boss}
    Admins = {boss}
    OwnerOf <- MCOwnerOf
    CopyOf <- MCCopyOf
    MaxChanges = 2
    Passages = {1, 2, 3}
    RRF_K = 2
    CANDIDATE_MULTIPLIER = 1
    MAX_CANDIDATES = 4
    RERANK_CANDIDATES = 2
    Values <- MCValues
    LabelOf <- MCLabelOf
    DocOf <- MCDocOf
    ValuesIn <- MCValuesIn
    Questions <- MCQuestions
    MaxPassages = 2
    Settings <- MCSettings
    Semantic <- MCSemantic
    Embedded <- MCEmbedded
    Reaches <- MCReaches
    Lexical <- MCLexical
    MaxAsked = 1
INVARIANTS
    NothingRestrictedSent
    CitationsCheckOut
    SamePlaceholder
    RecordIsHonest
    FullPage
    OfferIsKept
    ListIsWhatOpens
CHECK_DEADLOCK FALSE
