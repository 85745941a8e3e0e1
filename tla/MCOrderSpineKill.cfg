CONSTANTS
    Approval = {a1}
    Order = {stock}
    OptionOrder = {}
    NoOrder = NoOrder
    Worker = {w1}
    NoCall = NoCall

SPECIFICATION Spec

PROPERTIES
    KillStopsPlacement

CHECK_DEADLOCK FALSE
