\* Sixteen scenarios; a turn ends, and so do calls.
SPECIFICATION MCSpec
CONSTANTS
    MAX_TOOL_ROUNDS = 2
    MAX_TOOL_CALLS_PER_ROUND = 2
    MaxVersion = 3
    o1 = o1
    o2 = o2
    c1 = c1
    c2 = c2
    d1 = d1
    b1 = b1
    b2 = b2
    None = None
INVARIANTS TurnSpeaksTruth TurnReadsTruth PromptFits
PROPERTIES TurnEntitles AcquisitionTruth
CHECK_DEADLOCK FALSE
