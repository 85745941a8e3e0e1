----------------------------- MODULE OrderSpine -----------------------------
(***************************************************************************)
(* The placement path every order takes, from review to settled ledger row *)
(* (docs/architecture.md calls it the spine):                              *)
(*                                                                         *)
(*   kill check -> review -> create -> approve -> guards -> reserve        *)
(*     -> broker call -> mark executed | mark reconciliation required      *)
(*                                                                         *)
(* Workers are processes or threads that share one SQLite file: the live   *)
(* workflow (CioWorkflow), where a person approves between two calls, and  *)
(* the paper flows (place_signal_order, place_long_option), which approve  *)
(* their own row.  Between any two of a worker's steps another worker, the *)
(* operator, the broker or the clock may act, and the worker may die.      *)
(***************************************************************************)
EXTENDS ApprovalLedger, Naturals

CONSTANTS
    Worker,       \* processes that prepare and place orders
    OptionOrder,  \* the orders that are option orders
    NoCall        \* a worker that is between calls

ASSUME OptionOrderAssumption == OptionOrder \subseteq Order

\* The arguments of the call a worker is executing.
Call == [approval : Approval, review : Approval, order : Order, auto : BOOLEAN]

ASSUME NoCallAssumption == NoCall \notin Call

VARIABLES
    killed,       \* the emergency_kill row of system_controls
    pc,           \* the step a worker is about to take
    call,         \* its arguments, NoCall when idle
    submits,      \* broker calls made under each approval
    wire,         \* the order content sent under each approval
    book,         \* the state of that order at the broker
    orphaned      \* history: the rows whose worker died while holding them

vars == <<ledger, killed, pc, call, submits, wire, book, orphaned>>

PC == {"idle", "create", "approve", "reserve", "submit", "accepted", "uncertain"}

BookState == {"none", "live", "filled", "dead"}

TypeOK ==
    /\ LedgerTypeOK
    /\ killed \in BOOLEAN
    /\ pc \in [Worker -> PC]
    /\ call \in [Worker -> Call \cup {NoCall}]
    /\ submits \in [Approval -> Nat]
    /\ wire \in [Approval -> Order \cup {NoOrder}]
    /\ book \in [Approval -> BookState]
    /\ orphaned \subseteq Approval

Init ==
    /\ LedgerInit
    /\ killed = FALSE
    /\ pc = [w \in Worker |-> "idle"]
    /\ call = [w \in Worker |-> NoCall]
    /\ submits = [a \in Approval |-> 0]
    /\ wire = [a \in Approval |-> NoOrder]
    /\ book = [a \in Approval |-> "none"]
    /\ orphaned = {}

broker == <<submits, wire, book>>

\* Worker w has reserved its row and not yet written the outcome.
Holds(w) == pc[w] \in {"submit", "accepted", "uncertain"}

InFlight(a) == \E w \in Worker : Holds(w) /\ call[w].approval = a

\* Worker w goes on to its next step with the same arguments.
Goto(w, step) ==
    /\ pc' = [pc EXCEPT ![w] = step]
    /\ UNCHANGED call

\* Worker w's call returns, raises, or dies with the process.
Return(w) ==
    /\ pc' = [pc EXCEPT ![w] = "idle"]
    /\ call' = [call EXCEPT ![w] = NoCall]

Start(w, step, c) ==
    /\ pc[w] = "idle"
    /\ pc' = [pc EXCEPT ![w] = step]
    /\ call' = [call EXCEPT ![w] = c]

\* The client order ID sent to the broker.  Equity orders hash the review ID,
\* option orders only the fingerprint, so two reviews of one option order
\* share it.
ClientKey(a, o) == IF o \in OptionOrder THEN <<"option", o>> ELSE <<"equity", a>>

\* The orders the broker knows under a client order ID.
OrdersAt(key) == {b \in Approval : book[b] # "none" /\ ClientKey(b, wire[b]) = key}

-----------------------------------------------------------------------------
\* Preparing: prepare_purchase, place_signal_order, place_long_option.

\* The kill switch is read once, first; the broker review that follows mints
\* a review ID nobody else uses.
BeginReview(w, a, o, auto) ==
    /\ ~killed
    /\ status[a] = "absent"
    /\ \A v \in Worker : call[v] # NoCall => call[v].approval # a
    /\ Start(w, "create", [approval |-> a, review |-> a, order |-> o, auto |-> auto])
    /\ UNCHANGED <<ledger, killed, broker, orphaned>>

\* The row is inserted.  The live workflow then notifies and returns, leaving
\* the row pending even when the delivery fails; the paper flows go on.
CreateRow(w) ==
    /\ pc[w] = "create"
    /\ Create(call[w].approval, call[w].order)
    /\ IF call[w].auto THEN Goto(w, "approve") ELSE Return(w)
    /\ UNCHANGED <<killed, broker, orphaned>>

AutoApprove(w) ==
    /\ pc[w] = "approve"
    /\ Approve(call[w].approval)
    /\ Goto(w, "reserve")
    /\ UNCHANGED <<killed, broker, orphaned>>

\* The row was rejected, approved or lapsed meanwhile: approve raises.
AutoApproveRaises(w) ==
    /\ pc[w] = "approve"
    /\ ~CanApprove(call[w].approval)
    /\ Return(w)
    /\ UNCHANGED <<ledger, killed, broker, orphaned>>

-----------------------------------------------------------------------------
\* Placing: execute_approved, place_equity_order, place_option_order.

\* The caller may pass any approval, review and request.
BeginExecute(w, a, review, o) ==
    /\ ~killed
    /\ status[a] # "absent"
    /\ Start(w, "reserve", [approval |-> a, review |-> review, order |-> o, auto |-> FALSE])
    /\ UNCHANGED <<ledger, killed, broker, orphaned>>

\* The session guard, the account and shape checks or the confirmation fail,
\* or reserve_execution raises: nothing is written.
RefusePlacement(w) ==
    /\ pc[w] = "reserve"
    /\ Return(w)
    /\ UNCHANGED <<ledger, killed, broker, orphaned>>

ReserveRow(w) ==
    /\ pc[w] = "reserve"
    /\ Reserve(call[w].approval, call[w].review, call[w].order)
    /\ Goto(w, "submit")
    /\ UNCHANGED <<killed, broker, orphaned>>

\* The broker takes the order, unless it knows the client order ID already;
\* it may fill, reject or just book it at once.
BrokerTakes(a, o, state) ==
    /\ OrdersAt(ClientKey(a, o)) = {}
    /\ submits' = [submits EXCEPT ![a] = @ + 1]
    /\ wire' = [wire EXCEPT ![a] = o]
    /\ book' = [book EXCEPT ![a] = state]

\* place_equity_order / place_option_order return an order.  The answer's
\* status is not looked at: a rejected order is an answer too.
SubmitAnswered(w, state) ==
    /\ pc[w] = "submit"
    /\ BrokerTakes(call[w].approval, call[w].order, state)
    /\ Goto(w, "accepted")
    /\ UNCHANGED <<ledger, killed, orphaned>>

\* The order is taken and the answer is lost.
SubmitAnswerLost(w, state) ==
    /\ pc[w] = "submit"
    /\ BrokerTakes(call[w].approval, call[w].order, state)
    /\ Goto(w, "uncertain")
    /\ UNCHANGED <<ledger, killed, orphaned>>

\* The request never arrived, or the broker refused it.
SubmitRaises(w) ==
    /\ pc[w] = "submit"
    /\ submits' = [submits EXCEPT ![call[w].approval] = @ + 1]
    /\ Goto(w, "uncertain")
    /\ UNCHANGED <<ledger, killed, wire, book, orphaned>>

RecordExecuted(w) ==
    /\ pc[w] = "accepted"
    /\ MarkExecuted(call[w].approval)
    /\ Return(w)
    /\ UNCHANGED <<killed, broker, orphaned>>

RetrySubmit(w) ==                       \* bug: a blind retry of an uncertain call
    /\ pc[w] = "uncertain"
    /\ Goto(w, "submit")
    /\ UNCHANGED <<ledger, killed, broker, orphaned>>

ReleaseUncertain(w) ==                  \* bug: an uncertain row is usable again
    /\ pc[w] = "uncertain"
    /\ MarkApprovedAgain(call[w].approval)
    /\ Return(w)
    /\ UNCHANGED <<killed, broker, orphaned>>

FailUncertain(w) ==                     \* bug: the declared but unused "failed"
    /\ pc[w] = "uncertain"
    /\ MarkFailed(call[w].approval)
    /\ Return(w)
    /\ UNCHANGED <<killed, broker, orphaned>>

ForgetUncertain(w) ==                   \* bug: the exception is only re-raised
    /\ pc[w] = "uncertain"
    /\ Return(w)
    /\ UNCHANGED <<ledger, killed, broker, orphaned>>

RecordUncertain(w) ==
    /\ pc[w] = "uncertain"
    /\ MarkReconciliationRequired(call[w].approval)
    /\ Return(w)
    /\ UNCHANGED <<killed, broker, orphaned>>

-----------------------------------------------------------------------------
\* The operator, the broker, the clock and the machine.

OperatorApprove(a) == Approve(a) /\ UNCHANGED <<killed, pc, call, broker, orphaned>>

OperatorReject(a) == Reject(a) /\ UNCHANGED <<killed, pc, call, broker, orphaned>>

ReconcileUnseen(a) ==                   \* bug: settles without a broker order
    /\ \E state \in BookState : Settle(a, state)
    /\ UNCHANGED <<killed, pc, call, broker, orphaned>>

\* The operator looks the row's order up by client order ID and reconciles.
Reconcile(a) ==
    /\ \E b \in OrdersAt(ClientKey(a, reviewed[a])) : Settle(a, book[b])
    /\ UNCHANGED <<killed, pc, call, broker, orphaned>>

EmergencyStop ==
    /\ ~killed
    /\ killed' = TRUE
    /\ UNCHANGED <<ledger, pc, call, broker, orphaned>>

EmergencyResume ==
    /\ killed
    /\ killed' = FALSE
    /\ UNCHANGED <<ledger, pc, call, broker, orphaned>>

BrokerMoves(a, state) ==
    /\ book[a] = "live"
    /\ state \in {"filled", "dead"}
    /\ book' = [book EXCEPT ![a] = state]
    /\ UNCHANGED <<ledger, killed, pc, call, submits, wire, orphaned>>

ClockLapses(a) == Lapse(a) /\ UNCHANGED <<killed, pc, call, broker, orphaned>>

\* The process dies between two steps, or the write of an outcome fails: the
\* row keeps the status it had.
Crash(w) ==
    /\ pc[w] # "idle"
    /\ orphaned' = IF Holds(w) THEN orphaned \cup {call[w].approval} ELSE orphaned
    /\ Return(w)
    /\ UNCHANGED <<ledger, killed, broker>>

-----------------------------------------------------------------------------
WorkerStep(w) ==
    \/ CreateRow(w)
    \/ AutoApprove(w)
    \/ AutoApproveRaises(w)
    \/ RefusePlacement(w)
    \/ ReserveRow(w)
    \/ \E state \in {"live", "filled", "dead"} : SubmitAnswered(w, state)
    \/ \E state \in {"live", "filled", "dead"} : SubmitAnswerLost(w, state)
    \/ SubmitRaises(w)
    \/ RecordExecuted(w)
    \/ RecordUncertain(w)

Next ==
    \/ \E w \in Worker, a \in Approval, o \in Order, auto \in BOOLEAN :
         BeginReview(w, a, o, auto)
    \/ \E w \in Worker, a, review \in Approval, o \in Order : BeginExecute(w, a, review, o)
    \/ \E w \in Worker : WorkerStep(w)
    \/ \E w \in Worker : Crash(w)
    \/ \E a \in Approval : OperatorApprove(a)
    \/ \E a \in Approval : OperatorReject(a)
    \/ \E a \in Approval : Reconcile(a)
    \/ \E a \in Approval : ClockLapses(a)
    \/ \E a \in Approval, state \in BookState : BrokerMoves(a, state)
    \/ EmergencyStop
    \/ EmergencyResume

Spec == Init /\ [][Next]_vars

\* A call that was started runs on until it returns, raises or dies: these
\* are straight-line Python functions whose HTTP calls have timeouts.
Fairness == \A w \in Worker : WF_vars(WorkerStep(w))

FairSpec == Spec /\ Fairness

-----------------------------------------------------------------------------
\* Properties.

\* No approval ever sends two orders, whatever workers race for it, and
\* however their calls, answers and processes die: reserve_execution and the
\* rule that an uncertain placement is not retried (service.py) together.
SingleSubmission == \A a \in Approval : submits[a] <= 1

\* What reached the broker under an approval is exactly what was reviewed:
\* no changed request, and no other approval's request, slips through.
SubmittedAsReviewed == \A a \in Approval : wire[a] \in {NoOrder, reviewed[a]}

\* The ledger and the broker agree in the direction that matters: an order
\* known to the broker belongs to a row that can authorise nothing more, and
\* a row called executed has an order under its client order ID.
LedgerCoversBroker ==
    \A a \in Approval :
        /\ book[a] # "none" => status[a] \in Consumed
        /\ status[a] = "executed" => OrdersAt(ClientKey(a, reviewed[a])) # {}

\* A reserved row never gets its authority back, and a row that was settled
\* or rejected keeps its verdict, also against late writes of slow workers,
\* the operator's reject and reconcile.
VerdictsAreFinal ==
    [][\A a \in Approval :
        /\ status[a] \in Consumed => status'[a] \in Consumed
        /\ status[a] \in {"executed", "rejected"} => status'[a] = status[a]]_vars

\* Only a death leaves a reserved row without a worker: every error path after
\* the reservation writes an outcome before it raises.
NoneAbandoned ==
    \A a \in Approval : status[a] = "executing" => InFlight(a) \/ a \in orphaned

\* Every reservation is settled, as executed or for reconciliation, unless its
\* worker dies.
ReservationSettles ==
    \A a \in Approval : status[a] = "executing" ~> (status[a] # "executing" \/ a \in orphaned)

\* The abstract promise, seen through the ledger's statuses.
StageOf(s) ==
    CASE s = "absent" -> "absent"
      [] s = "pending" -> "requested"
      [] s = "approved" -> "granted"
      [] s = "rejected" -> "refused"
      [] OTHER -> "consumed"

stage == [a \in Approval |-> StageOf(status[a])]

Promise == INSTANCE SingleUseAuthorization WITH stage <- stage, submits <- submits

\* Every behaviour of the spine is one of single-use authorisations.
KeepsPromise == Promise!Spec

-----------------------------------------------------------------------------
\* Statements of the documentation that the code does not keep.

\* docs/risk_model.md: the kill switch "blocks reviews and placements
\* immediately".  The switch is read when a call starts, never again.
KillStopsPlacement == [][killed => submits' = submits]_vars

\* docs/trade_lifecycle.md: after a crash between reservation and answer, "on
\* restart, reconcile broker orders by client key".  The recovery plan lists
\* the rows in reconciliation_required and no others.
RecoveryPlan == {a \in Approval : status[a] = "reconciliation_required"}

CrashedPlacementsAreListed ==
    \A a \in Approval : status[a] = "executing" /\ ~InFlight(a) => a \in RecoveryPlan
=============================================================================
