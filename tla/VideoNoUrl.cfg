SPECIFICATION Spec
CONSTANTS
    Jobs = {j1}
    Dialects = {"openai_compat", "kling", "minimax", "vidu", "runway", "jimeng"}
    MaxAttempts = 3
    None = None
CHECK_DEADLOCK FALSE
INVARIANT
    SucceededHasUrl
