CONSTANTS
    Worker = {w1, w2, w3}
    Symbol = {s1}
    Approval = {a1, a2, a3, a4}
    Lots = 2
    MaxHeld = 1
    Nobody = Nobody
    Prompt = TRUE
    Poller = {p1, p2}
    Ticket = {t1, t2}
    Foreign = {t2}
    TicketSize = 2
    PageSize = 2
    Attempts = 2
    NoTicket = NoTicket
    Learner = {l1, l2}
    Recommendation = {trade1, idea1}
    Shadow = {idea1}
    Day = {1, 5}
    MaxLost = 1
    Experiment = {e1, e2}
    Run = {r1, r2}
    Approver = {who}
    NoOne = NoOne
    Floor = 2
    MaxCount = 2
    Source = {quote1, news1}
    MaxTime = 2
    MaxLots = 2
    MaxShares = 2
    Gain <- MCGain

SPECIFICATION MCSpec

INVARIANTS
    MCTypeOK
    OneEntryOneExit
    OpenIsBacked
    OneMonitor
    TerminalResultIsWhole
    EachFillNewOnce
    CleanReviewLasts
    ObservationsAreAccounted
    AcceptedIsEarned
    DecisionsReplay
    SaleIsCovered

CHECK_DEADLOCK FALSE
