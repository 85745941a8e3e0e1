CONSTANTS
    Approval = {a1, a2}
    Order = {order}
    NoOrder = NoOrder
    Monitor = {w1}
    MaxReplies = 1
    MaxAges = 0

SPECIFICATION FairSpec

PROPERTIES
    MonitorsCloseWindows

CHECK_DEADLOCK FALSE
