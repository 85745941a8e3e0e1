CONSTANTS
    Worker = {w1, w2}
    Symbol = {s1}
    Approval = {a1, a2}
    Lots = 2
    MaxHeld = 1
    Nobody = Nobody
    Prompt = TRUE

SPECIFICATION UninterruptedSpec

INVARIANT FilledIsManaged

CHECK_DEADLOCK FALSE
