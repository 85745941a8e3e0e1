--------------------------- MODULE ApprovalLedger ---------------------------
(***************************************************************************)
(* The approvals table of CioDatabase (robinhood_tools/database.py).       *)
(*                                                                         *)
(* A row authorises one reviewed order.  Every method below is one SQLite  *)
(* transaction, so each is one atomic action.  A method that raises        *)
(* PolicyViolation changes nothing: there are no actions for refusals      *)
(* here, only the conditions under which a method goes through.            *)
(*                                                                         *)
(* Data that the code binds into a row is abstracted to what its guards    *)
(* compare: the order fingerprint is the Order itself, and the review ID,  *)
(* minted once per review and stored in one row, is the row's own name.    *)
(***************************************************************************)

CONSTANTS
    Approval,   \* approval IDs (uuid4), each also naming the review it binds
    Order,      \* order fingerprints: the content of a reviewed request
    NoOrder     \* the fingerprint of a row that does not exist yet

ASSUME NoOrderAssumption == NoOrder \notin Order

VARIABLES
    status,     \* the status column, "absent" before the row is inserted
    reviewed,   \* the fingerprint column
    lapsed      \* the rows whose expires_at the clock has passed

ledger == <<status, reviewed, lapsed>>

\* The statuses some transaction commits.  The code also declares "expired"
\* and "failed", which no method that the placement path uses ever commits:
\* _expire writes "expired" and raises, and the raise rolls the write back.
Status == {"absent", "pending", "approved", "executing", "executed",
           "rejected", "reconciliation_required"}

\* A row in one of these has spent its authority.
Consumed == {"executing", "executed", "reconciliation_required"}

LedgerTypeOK ==
    /\ status \in [Approval -> Status]
    /\ reviewed \in [Approval -> Order \cup {NoOrder}]
    /\ lapsed \subseteq Approval

LedgerInit ==
    /\ status = [a \in Approval |-> "absent"]
    /\ reviewed = [a \in Approval |-> NoOrder]
    /\ lapsed = {}

-----------------------------------------------------------------------------
\* create, create_option_approval: INSERT, refused if the ID is taken.
Create(a, o) ==
    /\ status[a] = "absent"
    /\ status' = [status EXCEPT ![a] = "pending"]
    /\ reviewed' = [reviewed EXCEPT ![a] = o]
    /\ UNCHANGED lapsed

\* approve: _expire raises on a lapsed row, the UPDATE wants "pending".
CanApprove(a) == status[a] = "pending" /\ a \notin lapsed

Approve(a) ==
    /\ CanApprove(a)
    /\ status' = [status EXCEPT ![a] = "approved"]
    /\ UNCHANGED <<reviewed, lapsed>>

\* reject: looks at the status only, never at the clock.
CanReject(a) == status[a] \in {"pending", "approved"}

Reject(a) ==
    /\ CanReject(a)
    /\ status' = [status EXCEPT ![a] = "rejected"]
    /\ UNCHANGED <<reviewed, lapsed>>

\* reserve_execution, reserve_option_execution: BEGIN IMMEDIATE, _expire, the
\* review ID and fingerprint comparison, then approved -> executing.
CanReserve(a, review, o) ==
    /\ status[a] = "approved"
    /\ a \notin lapsed
    /\ review = a
    /\ reviewed[a] = o

ReserveIgnoringStatus(a, review, o) ==          \* bug: accepts a reserved row
    /\ status[a] \in {"approved", "executing"}
    /\ a \notin lapsed
    /\ review = a
    /\ reviewed[a] = o
    /\ status' = [status EXCEPT ![a] = "executing"]
    /\ UNCHANGED <<reviewed, lapsed>>

ReserveIgnoringFingerprint(a, review, o) ==     \* bug: compares nothing
    /\ status[a] = "approved"
    /\ a \notin lapsed
    /\ status' = [status EXCEPT ![a] = "executing"]
    /\ UNCHANGED <<reviewed, lapsed>>

Reserve(a, review, o) ==
    /\ CanReserve(a, review, o)
    /\ status' = [status EXCEPT ![a] = "executing"]
    /\ UNCHANGED <<reviewed, lapsed>>

\* mark_executed: executing -> executed, raises from any other status.
MarkExecuted(a) ==
    /\ status[a] = "executing"
    /\ status' = [status EXCEPT ![a] = "executed"]
    /\ UNCHANGED <<reviewed, lapsed>>

MarkFailed(a) ==                                \* bug: the declared "failed"
    /\ status' = [status EXCEPT ![a] = "failed"]
    /\ UNCHANGED <<reviewed, lapsed>>

MarkApprovedAgain(a) ==                         \* bug: "let it be retried"
    /\ status' = [status EXCEPT ![a] = "approved"]
    /\ UNCHANGED <<reviewed, lapsed>>

\* mark_reconciliation_required: silently does nothing unless executing.
MarkReconciliationRequired(a) ==
    /\ status' = IF status[a] = "executing"
                 THEN [status EXCEPT ![a] = "reconciliation_required"]
                 ELSE status
    /\ UNCHANGED <<reviewed, lapsed>>

\* CioWorkflow.reconcile: a broker order in a live or filled state settles an
\* uncertain row; any other order state leaves it uncertain.
Settle(a, orderState) ==
    /\ orderState \in {"live", "filled"}
    /\ status[a] = "reconciliation_required"
    /\ status' = [status EXCEPT ![a] = "executed"]
    /\ UNCHANGED <<reviewed, lapsed>>

\* The clock passes expires_at.
Lapse(a) ==
    /\ status[a] # "absent"
    /\ a \notin lapsed
    /\ lapsed' = lapsed \cup {a}
    /\ UNCHANGED <<status, reviewed>>
=============================================================================
