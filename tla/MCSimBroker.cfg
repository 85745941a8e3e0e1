CONSTANTS
    share = share
    call = call
    Symbol = {share}
    Contract = {call}
    Expiry <- MCExpiry
    Review = {r1, r2, r3}
    Request <- MCRequest
    NoRequest = NoRequest
    Mark <- MCMark
    OptionQuote <- MCOptionQuote
    DayRange <- MCDayRange
    StartCash = 70
    Scale = 10
    Slip = 1
    ShareFee = 2
    ContractFee = 1
    Multiplier = 2
    MaxStray = 1
    near = near
    far = far
    Chain <- MCChain
    Expires <- MCExpires
    Buyer = {b1, b2}
    Bid = {0, 2}
    Spread = 2
    MaxPremium = 4
    MaxContracts = 1
    MaxHeld = 1
    MinDte = 1
    MaxDte = 0
    Gain = 50
    Loss = 50
    LastDay = 2
    MaxBroken = 1
    t1 = t1
    t2 = t2
    x1 = x1
    x2 = x2
    Trader = {x1, x2}
    Ticker = {t1, t2}
    Proposal <- MCProposal
    StartingCash = 7
    MaxOrder = 2
    MaxExposure = 3
    MaxDaily = 2
    MaxPending = 1
    MaxOpen = 1
    MinCash = 1
    Blackout = 5
    Hurdle <- MCHurdle
    MinConfidence = 75
    MaxRows = 4
    Analyst = {n1, n2}
    Candidate = {i1, i2}
    HostInput <- MCHostInput

SPECIFICATION MCSpec

SYMMETRY Symmetry

INVARIANTS
    MCTypeOK
    BooksBalance
    LastDaysAreOffered
    LimitsHoldUpToSessions
    EngineIsStricter
    VerdictsAreOnRecord

PROPERTIES
    TouchedBracketsExit

CHECK_DEADLOCK FALSE
