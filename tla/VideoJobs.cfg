SPECIFICATION FairSpec
CONSTANTS
    Jobs = {j1}
    Dialects = {"openai_compat", "kling", "minimax", "vidu", "runway", "jimeng"}
    MaxAttempts = 3
    None = None
CHECK_DEADLOCK FALSE
INVARIANTS
    OutcomeIsTrue
    TimeoutIsEarned
PROPERTIES
    OutcomeIsFinal
    EveryJobEnds
