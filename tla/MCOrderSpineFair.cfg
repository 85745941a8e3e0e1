CONSTANTS
    Approval = {a1, a2}
    Order = {option}
    OptionOrder = {option}
    NoOrder = NoOrder
    Worker = {w1, w2}
    NoCall = NoCall

SPECIFICATION FairSpec

PROPERTIES
    ReservationSettles

CHECK_DEADLOCK FALSE
