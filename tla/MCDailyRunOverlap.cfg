CONSTANTS
    Owner = {o1, o2}
    Symbol = {s1, s2}
    NoSymbol = NoSymbol
    None = None
    Prompt = FALSE
    DueDates = FALSE

SPECIFICATION Spec

INVARIANT OneSummary

CHECK_DEADLOCK FALSE
