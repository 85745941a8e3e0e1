CONSTANTS
    Approval = {a1}
    Order = {order}
    NoOrder = NoOrder
    Monitor = {w1, w2}
    MaxReplies = 2
    MaxAges = 1

SPECIFICATION Spec

SYMMETRY Symmetry

INVARIANTS
    TypeOK
    AnsweredNoStands
    ClosedWindowsCarryNoAuthority
    AnsweredOnce
    AmountsAreReported

CHECK_DEADLOCK FALSE
