CONSTANTS
    Approval = {a1}
    Order = {order}
    NoOrder = NoOrder
    Monitor = {w1}
    MaxReplies = 0
    MaxAges = 1

SPECIFICATION RestartedSpec

PROPERTIES
    SilenceRejects

CHECK_DEADLOCK FALSE
