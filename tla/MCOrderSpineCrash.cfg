CONSTANTS
    Approval = {a1}
    Order = {stock}
    OptionOrder = {}
    NoOrder = NoOrder
    Worker = {w1}
    NoCall = NoCall

SPECIFICATION Spec

INVARIANTS
    CrashedPlacementsAreListed

CHECK_DEADLOCK FALSE
