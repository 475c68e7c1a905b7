SPECIFICATION Spec
CONSTANTS
    MAX_TOOL_ROUNDS = 2
    MAX_TOOL_CALLS_PER_ROUND = 2
    MaxVersion = 3
CHECK_DEADLOCK FALSE
INVARIANT NoSeventhRound
