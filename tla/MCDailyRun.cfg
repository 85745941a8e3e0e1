CONSTANTS
    Owner = {o1, o2}
    Symbol = {s1, s2}
    NoSymbol = NoSymbol
    None = None
    Prompt = TRUE
    DueDates = TRUE
    Watcher = {w1, w2}
    MaxCrashes = 2
    MaxChanges = 2
    first = first
    second = second
    Listing <- MCListing
    Price = {3, 4}
    StopPct = 25
    TargetPct = 25
    Thread = {t1}
    MaxLots = 1
    MaxFaults = 1
    MaxAlerts = 1
    MaxRuns = 1
    MaxCooling = 1

SPECIFICATION MCSpec

INVARIANTS
    MCTypeOK
    OneSummary
    CompletedRunIsWhole
    ChangesSpanADay
    MessagesAreHonest
    EntriesAreOnFile

PROPERTIES
    RunSettles
    MissedRunIsReported
    StopsAreOffered

CHECK_DEADLOCK FALSE
