CONSTANTS
    Approval = {a1, a2}
    Order = {stock, option}
    OptionOrder = {option}
    NoOrder = NoOrder
    Worker = {w1, w2}
    NoCall = NoCall

SPECIFICATION Spec

SYMMETRY Symmetry

INVARIANTS
    TypeOK
    SingleSubmission
    SubmittedAsReviewed
    LedgerCoversBroker

PROPERTIES
    VerdictsAreFinal
    KeepsPromise

CHECK_DEADLOCK FALSE
