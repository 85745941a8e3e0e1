-------------------------- MODULE OrderSpineProofs --------------------------
(***************************************************************************)
(* Proofs about OrderSpine, for any number of workers, approvals and       *)
(* orders.  The safety properties are not inductive as they stand: that    *)
(* an approval is submitted once rests on its row being "executing" while  *)
(* a worker holds it, on one worker at most holding a row, and on a row    *)
(* that authorises nothing yet never having been submitted.                *)
(***************************************************************************)
EXTENDS OrderSpine, TLAPS

\* A worker has arguments exactly while it is in a call.
CallsMatchSteps == \A w \in Worker : pc[w] = "idle" <=> call[w] = NoCall

\* The row a worker holds is reserved, for the very order the worker sends.
HeldRowsReserved ==
    \A w \in Worker : Holds(w) => /\ status[call[w].approval] = "executing"
                                  /\ call[w].order = reviewed[call[w].approval]

OneHolder ==
    \A v, w \in Worker : /\ Holds(v)
                         /\ Holds(w)
                         /\ call[v].approval = call[w].approval
                         => v = w

\* Where the worker stands tells what the broker has been asked.
StepsMatchBroker ==
    \A w \in Worker : /\ pc[w] = "submit" => submits[call[w].approval] = 0
                      /\ pc[w] = "accepted" => book[call[w].approval] # "none"

UnspentUnsent == \A a \in Approval : status[a] \notin Consumed => submits[a] = 0

\* What the broker knows of a row's order, from the number of calls made.
BookMatchesWire ==
    \A a \in Approval : /\ submits[a] = 0 => book[a] = "none" /\ wire[a] = NoOrder
                        /\ book[a] # "none" => wire[a] = reviewed[a]

ExecutedHasOrder ==
    \A a \in Approval : status[a] = "executed" => OrdersAt(ClientKey(a, reviewed[a])) # {}

IInv ==
    /\ TypeOK
    /\ CallsMatchSteps
    /\ HeldRowsReserved
    /\ OneHolder
    /\ StepsMatchBroker
    /\ UnspentUnsent
    /\ BookMatchesWire
    /\ ExecutedHasOrder
    /\ SingleSubmission
    /\ SubmittedAsReviewed
    /\ NoneAbandoned

-----------------------------------------------------------------------------
\* Type correctness, with the arguments a worker carries.

TypeInv == TypeOK /\ CallsMatchSteps

\* A worker inside a call has well-typed arguments.
LEMMA CallTyped ==
    ASSUME TypeInv, NEW w \in Worker, pc[w] # "idle"
    PROVE  call[w] \in Call
  BY DEF TypeInv, TypeOK, CallsMatchSteps

\* Starting a call keeps steps and arguments matched.
LEMMA StartTyped ==
    ASSUME TypeInv, NEW w \in Worker, NEW c \in Call, NEW step \in PC \ {"idle"},
           Start(w, step, c)
    PROVE  /\ pc' \in [Worker -> PC]
           /\ call' \in [Worker -> Call \cup {NoCall}]
           /\ CallsMatchSteps'
  BY NoCallAssumption DEF TypeInv, TypeOK, CallsMatchSteps, Start, PC

\* Going on to a next step keeps them matched.
LEMMA GotoTyped ==
    ASSUME TypeInv, NEW w \in Worker, NEW step \in PC \ {"idle"},
           pc[w] # "idle", Goto(w, step)
    PROVE  /\ pc' \in [Worker -> PC]
           /\ call' \in [Worker -> Call \cup {NoCall}]
           /\ CallsMatchSteps'
  BY DEF TypeInv, TypeOK, CallsMatchSteps, Goto, PC

\* So does the end of a call.
LEMMA ReturnTyped ==
    ASSUME TypeInv, NEW w \in Worker, Return(w)
    PROVE  /\ pc' \in [Worker -> PC]
           /\ call' \in [Worker -> Call \cup {NoCall}]
           /\ CallsMatchSteps'
  BY DEF TypeInv, TypeOK, CallsMatchSteps, Return, PC

\* Every step of a worker keeps the types.
LEMMA WorkerTyped ==
    ASSUME TypeInv, NEW w \in Worker, WorkerStep(w)
    PROVE  TypeInv'
<1> USE DEF TypeInv, TypeOK, LedgerTypeOK, Status, broker, ledger
<1>1. CASE CreateRow(w)
  <2>1. call[w] \in Call /\ "approve" \in PC \ {"idle"}
    BY <1>1, CallTyped DEF CreateRow, PC
  <2>2. Goto(w, "approve") \/ Return(w)
    BY <1>1 DEF CreateRow
  <2>3. CallsMatchSteps' /\ pc' \in [Worker -> PC] /\ call' \in [Worker -> Call \cup {NoCall}]
    BY <1>1, <2>1, <2>2, GotoTyped, ReturnTyped DEF CreateRow
  <2> QED
    BY <1>1, <2>1, <2>3 DEF CreateRow, Create, Call
<1>2. CASE AutoApprove(w)
  <2>1. CallsMatchSteps' /\ pc' \in [Worker -> PC] /\ call' \in [Worker -> Call \cup {NoCall}]
    BY <1>2, GotoTyped DEF AutoApprove, PC
  <2> QED
    BY <1>2, <2>1, CallTyped DEF AutoApprove, Approve, Call
<1>3. CASE AutoApproveRaises(w)
  BY <1>3, ReturnTyped DEF AutoApproveRaises
<1>4. CASE RefusePlacement(w)
  BY <1>4, ReturnTyped DEF RefusePlacement
<1>5. CASE ReserveRow(w)
  <2>1. CallsMatchSteps' /\ pc' \in [Worker -> PC] /\ call' \in [Worker -> Call \cup {NoCall}]
    BY <1>5, GotoTyped DEF ReserveRow, PC
  <2> QED
    BY <1>5, <2>1, CallTyped DEF ReserveRow, Reserve, Call
<1>6. ASSUME NEW state \in {"live", "filled", "dead"},
             SubmitAnswered(w, state) \/ SubmitAnswerLost(w, state)
      PROVE  TypeInv'
  <2>1. CallsMatchSteps' /\ pc' \in [Worker -> PC] /\ call' \in [Worker -> Call \cup {NoCall}]
    BY <1>6, GotoTyped DEF SubmitAnswered, SubmitAnswerLost, PC
  <2> QED
    BY <1>6, <2>1, CallTyped, SMTT(30) DEF SubmitAnswered, SubmitAnswerLost, BrokerTakes, Call, BookState
<1>7. CASE SubmitRaises(w)
  <2>1. CallsMatchSteps' /\ pc' \in [Worker -> PC] /\ call' \in [Worker -> Call \cup {NoCall}]
    BY <1>7, GotoTyped DEF SubmitRaises, PC
  <2> QED
    BY <1>7, <2>1, CallTyped DEF SubmitRaises, Call
<1>8. CASE RecordExecuted(w)
  BY <1>8, CallTyped, ReturnTyped DEF RecordExecuted, MarkExecuted, Call
<1>9. CASE RecordUncertain(w)
  BY <1>9, CallTyped, ReturnTyped DEF RecordUncertain, MarkReconciliationRequired, Call
<1> QED
  BY <1>1, <1>2, <1>3, <1>4, <1>5, <1>6, <1>7, <1>8, <1>9 DEF WorkerStep

\* Every step of the system keeps the types.
LEMMA NextTyped ==
    ASSUME TypeInv, [Next]_vars
    PROVE  TypeInv'
<1> USE DEF TypeInv, TypeOK, LedgerTypeOK, Status, broker, ledger
<1>1. ASSUME NEW w \in Worker, NEW a \in Approval, NEW o \in Order, NEW auto \in BOOLEAN,
             BeginReview(w, a, o, auto)
      PROVE  TypeInv'
  <2>1. [approval |-> a, review |-> a, order |-> o, auto |-> auto] \in Call
    BY DEF Call
  <2> QED
    BY <1>1, <2>1, StartTyped DEF BeginReview, PC
<1>2. ASSUME NEW w \in Worker, NEW a \in Approval, NEW review \in Approval, NEW o \in Order,
             BeginExecute(w, a, review, o)
      PROVE  TypeInv'
  <2>1. [approval |-> a, review |-> review, order |-> o, auto |-> FALSE] \in Call
    BY DEF Call
  <2> QED
    BY <1>2, <2>1, StartTyped DEF BeginExecute, PC
<1>3. ASSUME NEW w \in Worker, WorkerStep(w)
      PROVE  TypeInv'
  BY <1>3, WorkerTyped
<1>4. ASSUME NEW w \in Worker, Crash(w)
      PROVE  TypeInv'
  BY <1>4, CallTyped, ReturnTyped DEF Crash, Holds, Call
<1>5. ASSUME NEW a \in Approval,
             OperatorApprove(a) \/ OperatorReject(a) \/ Reconcile(a) \/ ClockLapses(a)
      PROVE  TypeInv'
  BY <1>5 DEF OperatorApprove, OperatorReject, Reconcile, ClockLapses, Approve, Reject,
              Settle, Lapse, CallsMatchSteps
<1>6. ASSUME NEW a \in Approval, NEW state \in BookState, BrokerMoves(a, state)
      PROVE  TypeInv'
  BY <1>6 DEF BrokerMoves, CallsMatchSteps
<1>7. CASE EmergencyStop \/ EmergencyResume
  BY <1>7 DEF EmergencyStop, EmergencyResume, CallsMatchSteps
<1>8. CASE UNCHANGED vars
  BY <1>8 DEF vars, CallsMatchSteps
<1> QED
  BY <1>1, <1>2, <1>3, <1>4, <1>5, <1>6, <1>7, <1>8 DEF Next

\* The initial state is well typed.
LEMMA InitTyped == Init => TypeInv
<1>1. Init => LedgerTypeOK
  BY DEF Init, LedgerInit, LedgerTypeOK, Status
<1>2. Init => killed \in BOOLEAN /\ orphaned \subseteq Approval
  BY DEF Init
<1>3. Init => pc \in [Worker -> PC] /\ call \in [Worker -> Call \cup {NoCall}]
  BY DEF Init, PC
<1>4. Init => /\ submits \in [Approval -> Nat]
              /\ wire \in [Approval -> Order \cup {NoOrder}]
              /\ book \in [Approval -> BookState]
  BY DEF Init, BookState
<1>5. Init => CallsMatchSteps
  BY DEF Init, CallsMatchSteps
<1> QED
  BY <1>1, <1>2, <1>3, <1>4, <1>5 DEF TypeInv, TypeOK

\* Type correctness of the ledger, the workers and the broker's book.
THEOREM TypeCorrect == Spec => []TypeOK
<1>1. Init => TypeInv
  BY InitTyped
<1>2. TypeInv /\ [Next]_vars => TypeInv'
  BY NextTyped
<1>3. TypeInv => TypeOK
  BY DEF TypeInv
<1> QED
  BY <1>1, <1>2, <1>3, PTL DEF Spec

-----------------------------------------------------------------------------
\* Who holds a row.

HoldInv == HeldRowsReserved /\ OneHolder

\* A step after which nobody newly holds a row, no held row changes and no
\* call is replaced keeps the holders.
LEMMA HoldersKept ==
    ASSUME HoldInv,
           \A w \in Worker : Holds(w)' => Holds(w) /\ call'[w] = call[w],
           \A w \in Worker : Holds(w)' => LET a == call[w].approval
                                         IN  status'[a] = status[a] /\ reviewed'[a] = reviewed[a]
    PROVE  HoldInv'
  BY DEF HoldInv, HeldRowsReserved, OneHolder

\* A worker writes its own row only, so the rows of other holders stay.
LEMMA WorkerHolds ==
    ASSUME TypeInv, HoldInv, NEW w \in Worker, WorkerStep(w)
    PROVE  HoldInv'
<1> DEFINE a == call[w].approval
<1>0. /\ pc \in [Worker -> PC] /\ status \in [Approval -> Status]
      /\ reviewed \in [Approval -> Order \cup {NoOrder}]
      /\ call \in [Worker -> Call \cup {NoCall}]
      /\ pc[w] # "idle" => a \in Approval
      /\ \A v \in Worker : Holds(v) => call[v].approval \in Approval
  BY CallTyped DEF TypeInv, TypeOK, LedgerTypeOK, Call, Holds
<1> USE <1>0 DEF HoldInv, HeldRowsReserved, OneHolder, Holds
<1>1. CASE CreateRow(w)
  BY <1>1 DEF CreateRow, Create, Goto, Return
<1>2. CASE AutoApprove(w)
  BY <1>2 DEF AutoApprove, Approve, CanApprove, Goto
<1>3. CASE AutoApproveRaises(w) \/ RefusePlacement(w)
  BY <1>3 DEF AutoApproveRaises, RefusePlacement, Return, ledger
<1>4. CASE ReserveRow(w)
  BY <1>4 DEF ReserveRow, Reserve, CanReserve, Goto
<1>5. ASSUME NEW state \in {"live", "filled", "dead"},
             SubmitAnswered(w, state) \/ SubmitAnswerLost(w, state)
      PROVE  HoldInv'
  BY <1>5 DEF SubmitAnswered, SubmitAnswerLost, Goto, ledger
<1>6. CASE SubmitRaises(w)
  BY <1>6 DEF SubmitRaises, Goto, ledger
<1>7. CASE RecordExecuted(w)
  BY <1>7 DEF RecordExecuted, MarkExecuted, Return
<1>8. CASE RecordUncertain(w)
  BY <1>8 DEF RecordUncertain, MarkReconciliationRequired, Return
<1> QED
  BY <1>1, <1>2, <1>3, <1>4, <1>5, <1>6, <1>7, <1>8 DEF WorkerStep

\* The operator, the broker and the clock never touch a held row.
LEMMA NextHolds ==
    ASSUME TypeInv, HoldInv, [Next]_vars
    PROVE  HoldInv'
<1>0. /\ pc \in [Worker -> PC] /\ status \in [Approval -> Status]
      /\ call \in [Worker -> Call \cup {NoCall}]
      /\ \A v \in Worker : Holds(v) => call[v].approval \in Approval
  BY CallTyped DEF TypeInv, TypeOK, LedgerTypeOK, Call, Holds
<1>1. ASSUME NEW w \in Worker, NEW a \in Approval, NEW o \in Order, NEW auto \in BOOLEAN,
             BeginReview(w, a, o, auto)
      PROVE  HoldInv'
  BY <1>0, <1>1, HoldersKept DEF BeginReview, Start, Holds, ledger
<1>2. ASSUME NEW w \in Worker, NEW a \in Approval, NEW review \in Approval, NEW o \in Order,
             BeginExecute(w, a, review, o)
      PROVE  HoldInv'
  BY <1>0, <1>2, HoldersKept DEF BeginExecute, Start, Holds, ledger
<1>3. ASSUME NEW w \in Worker, WorkerStep(w)
      PROVE  HoldInv'
  BY <1>3, WorkerHolds
<1>4. ASSUME NEW w \in Worker, Crash(w)
      PROVE  HoldInv'
  BY <1>0, <1>4, HoldersKept DEF Crash, Return, Holds, ledger
<1>5. ASSUME NEW a \in Approval,
             OperatorApprove(a) \/ OperatorReject(a) \/ Reconcile(a) \/ ClockLapses(a)
      PROVE  HoldInv'
  BY <1>0, <1>5 DEF OperatorApprove, OperatorReject, Reconcile, ClockLapses, Approve, CanApprove,
              Reject, CanReject, Settle, Lapse, HoldInv, HeldRowsReserved, OneHolder, Holds
<1>6. ASSUME NEW a \in Approval, NEW state \in BookState, BrokerMoves(a, state)
      PROVE  HoldInv'
  BY <1>6, HoldersKept DEF BrokerMoves, Holds, ledger
<1>7. CASE EmergencyStop \/ EmergencyResume \/ UNCHANGED vars
  BY <1>7, HoldersKept DEF EmergencyStop, EmergencyResume, vars, Holds, ledger
<1> QED
  BY <1>1, <1>2, <1>3, <1>4, <1>5, <1>6, <1>7 DEF Next

-----------------------------------------------------------------------------
\* What the broker has been asked.

BrokerInv ==
    /\ StepsMatchBroker
    /\ UnspentUnsent
    /\ BookMatchesWire
    /\ SingleSubmission
    /\ SubmittedAsReviewed

\* A worker asks the broker only for the row it holds, once.
LEMMA WorkerBroker ==
    ASSUME TypeInv, HoldInv, BrokerInv, NEW w \in Worker, WorkerStep(w)
    PROVE  BrokerInv'
<1> DEFINE a == call[w].approval
<1>0. /\ pc \in [Worker -> PC] /\ status \in [Approval -> Status]
      /\ reviewed \in [Approval -> Order \cup {NoOrder}]
      /\ call \in [Worker -> Call \cup {NoCall}]
      /\ submits \in [Approval -> Nat]
      /\ wire \in [Approval -> Order \cup {NoOrder}]
      /\ book \in [Approval -> BookState]
      /\ pc[w] # "idle" => a \in Approval
      /\ \A v \in Worker : Holds(v) => call[v].approval \in Approval
  BY CallTyped DEF TypeInv, TypeOK, LedgerTypeOK, Call, Holds
<1> USE <1>0 DEF BrokerInv, HoldInv, HeldRowsReserved, OneHolder, Holds, StepsMatchBroker,
                 UnspentUnsent, BookMatchesWire, SingleSubmission, SubmittedAsReviewed,
                 Consumed, broker
<1>1. CASE CreateRow(w)
  BY <1>1 DEF CreateRow, Create, Goto, Return
<1>2. CASE AutoApprove(w)
  BY <1>2 DEF AutoApprove, Approve, CanApprove, Goto
<1>3. CASE AutoApproveRaises(w) \/ RefusePlacement(w)
  BY <1>3 DEF AutoApproveRaises, RefusePlacement, Return, ledger
<1>4. CASE ReserveRow(w)
  BY <1>4 DEF ReserveRow, Reserve, CanReserve, Goto
<1>5. ASSUME NEW state \in {"live", "filled", "dead"},
             SubmitAnswered(w, state) \/ SubmitAnswerLost(w, state)
      PROVE  BrokerInv'
  BY <1>5 DEF SubmitAnswered, SubmitAnswerLost, BrokerTakes, Goto, ledger
<1>6. CASE SubmitRaises(w)
  BY <1>6 DEF SubmitRaises, Goto, ledger
<1>7. CASE RecordExecuted(w)
  BY <1>7 DEF RecordExecuted, MarkExecuted, Return
<1>8. CASE RecordUncertain(w)
  BY <1>8 DEF RecordUncertain, MarkReconciliationRequired, Return
<1> QED
  BY <1>1, <1>2, <1>3, <1>4, <1>5, <1>6, <1>7, <1>8 DEF WorkerStep

\* Nobody but a worker asks the broker for anything.
LEMMA NextBroker ==
    ASSUME TypeInv, HoldInv, BrokerInv, [Next]_vars
    PROVE  BrokerInv'
<1>0. /\ pc \in [Worker -> PC] /\ status \in [Approval -> Status]
      /\ call \in [Worker -> Call \cup {NoCall}]
      /\ book \in [Approval -> BookState]
      /\ \A v \in Worker : Holds(v) => call[v].approval \in Approval
  BY CallTyped DEF TypeInv, TypeOK, LedgerTypeOK, Call, Holds
<1> USE <1>0 DEF BrokerInv, StepsMatchBroker, UnspentUnsent, BookMatchesWire,
                 SingleSubmission, SubmittedAsReviewed, Consumed, Holds, broker, ledger
<1>1. ASSUME NEW w \in Worker, NEW a \in Approval, NEW o \in Order, NEW auto \in BOOLEAN,
             BeginReview(w, a, o, auto)
      PROVE  BrokerInv'
  BY <1>1 DEF BeginReview, Start
<1>2. ASSUME NEW w \in Worker, NEW a \in Approval, NEW review \in Approval, NEW o \in Order,
             BeginExecute(w, a, review, o)
      PROVE  BrokerInv'
  BY <1>2 DEF BeginExecute, Start
<1>3. ASSUME NEW w \in Worker, WorkerStep(w)
      PROVE  BrokerInv'
  BY <1>3, WorkerBroker
<1>4. ASSUME NEW w \in Worker, Crash(w)
      PROVE  BrokerInv'
  BY <1>4 DEF Crash, Return
<1>5. ASSUME NEW a \in Approval,
             OperatorApprove(a) \/ OperatorReject(a) \/ Reconcile(a) \/ ClockLapses(a)
      PROVE  BrokerInv'
  BY <1>5 DEF OperatorApprove, OperatorReject, Reconcile, ClockLapses, Approve, CanApprove,
              Reject, CanReject, Settle, Lapse
<1>6. ASSUME NEW a \in Approval, NEW state \in BookState, BrokerMoves(a, state)
      PROVE  BrokerInv'
  BY <1>6 DEF BrokerMoves, BookState
<1>7. CASE EmergencyStop \/ EmergencyResume \/ UNCHANGED vars
  BY <1>7 DEF EmergencyStop, EmergencyResume, vars
<1> QED
  BY <1>1, <1>2, <1>3, <1>4, <1>5, <1>6, <1>7 DEF Next

-----------------------------------------------------------------------------
\* The ledger against the book, and the rows nobody holds.

\* The broker never forgets an order, nor changes what it was sent.
LEMMA BookKept ==
    ASSUME TypeInv, HoldInv, BrokerInv, [Next]_vars
    PROVE  \A b \in Approval : book[b] # "none" => book'[b] # "none" /\ wire'[b] = wire[b]
<1> SUFFICES ASSUME NEW b \in Approval, book[b] # "none"
             PROVE  book'[b] # "none" /\ wire'[b] = wire[b]
  OBVIOUS
<1>0. /\ book \in [Approval -> BookState]
      /\ wire \in [Approval -> Order \cup {NoOrder}]
      /\ submits[b] # 0
  BY DEF TypeInv, TypeOK, BrokerInv, BookMatchesWire
<1>1. ASSUME NEW w \in Worker, NEW state \in {"live", "filled", "dead"},
             SubmitAnswered(w, state) \/ SubmitAnswerLost(w, state)
      PROVE  book'[b] # "none" /\ wire'[b] = wire[b]
  <2>1. call[w].approval \in Approval /\ submits[call[w].approval] = 0
    BY <1>1, CallTyped DEF SubmitAnswered, SubmitAnswerLost, BrokerInv, StepsMatchBroker, Call
  <2> QED
    BY <1>0, <1>1, <2>1 DEF SubmitAnswered, SubmitAnswerLost, BrokerTakes
<1>2. ASSUME NEW a \in Approval, NEW state \in BookState, BrokerMoves(a, state)
      PROVE  book'[b] # "none" /\ wire'[b] = wire[b]
  BY <1>0, <1>2 DEF BrokerMoves
<1>3. CASE UNCHANGED <<wire, book>>
  BY <1>3
<1>4. ASSUME NEW w \in Worker, WorkerStep(w)
      PROVE  book'[b] # "none" /\ wire'[b] = wire[b]
  BY <1>1, <1>3, <1>4 DEF WorkerStep, CreateRow, AutoApprove, AutoApproveRaises, RefusePlacement,
         ReserveRow, SubmitRaises, RecordExecuted, RecordUncertain, broker
<1> QED
  BY <1>2, <1>3, <1>4 DEF Next, BeginReview, BeginExecute, Crash, OperatorApprove, OperatorReject,
         Reconcile, ClockLapses, EmergencyStop, EmergencyResume, broker, vars

\* A row is written executed only for an order the broker knows.
LEMMA NextExecuted ==
    ASSUME TypeInv, HoldInv, BrokerInv, ExecutedHasOrder, [Next]_vars
    PROVE  ExecutedHasOrder'
<1> SUFFICES ASSUME NEW a \in Approval, status'[a] = "executed"
             PROVE  (OrdersAt(ClientKey(a, reviewed[a])))' # {}
  BY DEF ExecutedHasOrder
<1>0. status \in [Approval -> Status] /\ reviewed \in [Approval -> Order \cup {NoOrder}]
  BY DEF TypeInv, TypeOK, LedgerTypeOK
<1>1. reviewed'[a] = reviewed[a] /\ OrdersAt(ClientKey(a, reviewed[a])) # {}
  <2>1. CASE status[a] = "executed"
    <3>1. reviewed'[a] = reviewed[a]
      <4>1. ASSUME NEW w \in Worker, WorkerStep(w)
            PROVE  reviewed'[a] = reviewed[a]
        BY <1>0, <2>1, <4>1, CallTyped DEF WorkerStep, CreateRow, Create, AutoApprove, Approve,
           AutoApproveRaises, RefusePlacement, ReserveRow, Reserve, SubmitAnswered,
           SubmitAnswerLost, SubmitRaises, RecordExecuted, MarkExecuted, RecordUncertain,
           MarkReconciliationRequired, ledger, Call
      <4> QED
        BY <4>1 DEF Next, BeginReview, BeginExecute, Crash, OperatorApprove, Approve,
           OperatorReject, Reject, Reconcile, Settle, ClockLapses, Lapse, BrokerMoves,
           EmergencyStop, EmergencyResume, ledger, vars
    <3> QED
      BY <2>1, <3>1 DEF ExecutedHasOrder
  <2>2. CASE status[a] # "executed"
    <3>1. ASSUME NEW w \in Worker, WorkerStep(w)
          PROVE  reviewed'[a] = reviewed[a] /\ OrdersAt(ClientKey(a, reviewed[a])) # {}
      <4>1. RecordExecuted(w) /\ call[w].approval = a
        BY <1>0, <2>2, <3>1, CallTyped DEF WorkerStep, CreateRow, Create, AutoApprove, Approve,
           AutoApproveRaises, RefusePlacement, ReserveRow, Reserve, SubmitAnswered,
           SubmitAnswerLost, SubmitRaises, RecordExecuted, MarkExecuted, RecordUncertain,
           MarkReconciliationRequired, ledger, Call
      <4>2. book[a] # "none" /\ wire[a] = reviewed[a]
        BY <4>1 DEF RecordExecuted, BrokerInv, StepsMatchBroker, BookMatchesWire
      <4>3. a \in OrdersAt(ClientKey(a, reviewed[a]))
        BY <4>2 DEF OrdersAt
      <4> QED
        BY <4>1, <4>3 DEF RecordExecuted, MarkExecuted
    <3>2. ASSUME NEW c \in Approval, Reconcile(c)
          PROVE  reviewed'[a] = reviewed[a] /\ OrdersAt(ClientKey(a, reviewed[a])) # {}
      BY <1>0, <2>2, <3>2 DEF Reconcile, Settle
    <3> QED
      BY <1>0, <2>2, <3>1, <3>2 DEF Next, BeginReview, BeginExecute, Crash, OperatorApprove, Approve,
         OperatorReject, Reject, ClockLapses, Lapse, BrokerMoves, EmergencyStop,
         EmergencyResume, ledger, vars
  <2> QED
    BY <2>1, <2>2
<1>2. PICK b \in Approval : book[b] # "none" /\ ClientKey(b, wire[b]) = ClientKey(a, reviewed[a])
  BY <1>1 DEF OrdersAt
<1>3. book'[b] # "none" /\ wire'[b] = wire[b]
  BY <1>2, BookKept
<1>4. b \in (OrdersAt(ClientKey(a, reviewed[a])))'
  BY <1>1, <1>2, <1>3 DEF OrdersAt, ClientKey
<1> QED
  BY <1>4

\* A row leaves its holder's hands with an outcome, or with its holder's death.
LEMMA NextNoneAbandoned ==
    ASSUME TypeInv, HoldInv, NoneAbandoned, [Next]_vars
    PROVE  NoneAbandoned'
<1>0. /\ pc \in [Worker -> PC] /\ status \in [Approval -> Status]
      /\ call \in [Worker -> Call \cup {NoCall}]
      /\ \A v \in Worker : pc[v] # "idle" => call[v].approval \in Approval
  BY CallTyped DEF TypeInv, TypeOK, LedgerTypeOK, Call
<1> USE <1>0 DEF NoneAbandoned, InFlight, Holds, ledger, broker
<1>1. ASSUME NEW w \in Worker, NEW a \in Approval, NEW o \in Order, NEW auto \in BOOLEAN,
             BeginReview(w, a, o, auto)
      PROVE  NoneAbandoned'
  BY <1>1 DEF BeginReview, Start
<1>2. ASSUME NEW w \in Worker, NEW a \in Approval, NEW review \in Approval, NEW o \in Order,
             BeginExecute(w, a, review, o)
      PROVE  NoneAbandoned'
  BY <1>2 DEF BeginExecute, Start
<1>3. ASSUME NEW w \in Worker, WorkerStep(w)
      PROVE  NoneAbandoned'
  <2>1. CASE CreateRow(w)
    BY <2>1 DEF CreateRow, Create, Goto, Return
  <2>2. CASE AutoApprove(w)
    BY <2>2 DEF AutoApprove, Approve, CanApprove, Goto
  <2>3. CASE AutoApproveRaises(w) \/ RefusePlacement(w)
    BY <2>3 DEF AutoApproveRaises, RefusePlacement, Return
  <2>4. CASE ReserveRow(w)
    BY <2>4 DEF ReserveRow, Reserve, CanReserve, Goto
  <2>5. ASSUME NEW state \in {"live", "filled", "dead"},
               SubmitAnswered(w, state) \/ SubmitAnswerLost(w, state)
        PROVE  NoneAbandoned'
    BY <2>5 DEF SubmitAnswered, SubmitAnswerLost, Goto
  <2>6. CASE SubmitRaises(w)
    BY <2>6 DEF SubmitRaises, Goto
  <2>7. CASE RecordExecuted(w)
    BY <2>7 DEF RecordExecuted, MarkExecuted, Return
  <2>8. CASE RecordUncertain(w)
    BY <2>8 DEF RecordUncertain, MarkReconciliationRequired, Return
  <2> QED
    BY <1>3, <2>1, <2>2, <2>3, <2>4, <2>5, <2>6, <2>7, <2>8 DEF WorkerStep
<1>4. ASSUME NEW w \in Worker, Crash(w)
      PROVE  NoneAbandoned'
  BY <1>4 DEF Crash, Return
<1>5. ASSUME NEW a \in Approval,
             OperatorApprove(a) \/ OperatorReject(a) \/ Reconcile(a) \/ ClockLapses(a)
      PROVE  NoneAbandoned'
  BY <1>5 DEF OperatorApprove, OperatorReject, Reconcile, ClockLapses, Approve, CanApprove,
              Reject, CanReject, Settle, Lapse
<1>6. ASSUME NEW a \in Approval, NEW state \in BookState, BrokerMoves(a, state)
      PROVE  NoneAbandoned'
  BY <1>6 DEF BrokerMoves
<1>7. CASE EmergencyStop \/ EmergencyResume \/ UNCHANGED vars
  BY <1>7 DEF EmergencyStop, EmergencyResume, vars
<1> QED
  BY <1>1, <1>2, <1>3, <1>4, <1>5, <1>6, <1>7 DEF Next

-----------------------------------------------------------------------------
\* The inductive invariant and what follows from it.

\* The inductive invariant holds at first,
LEMMA InitInv == Init => IInv
<1> SUFFICES ASSUME Init PROVE IInv
  OBVIOUS
<1>1. TypeOK /\ CallsMatchSteps
  BY InitTyped DEF TypeInv
<1>2. HeldRowsReserved /\ OneHolder /\ StepsMatchBroker
  BY DEF Init, HeldRowsReserved, OneHolder, StepsMatchBroker, Holds
<1>3. UnspentUnsent /\ BookMatchesWire /\ SingleSubmission /\ SubmittedAsReviewed
  BY DEF Init, UnspentUnsent, BookMatchesWire, SingleSubmission, SubmittedAsReviewed
<1>4. ExecutedHasOrder /\ NoneAbandoned
  BY DEF Init, LedgerInit, ExecutedHasOrder, NoneAbandoned
<1> QED
  BY <1>1, <1>2, <1>3, <1>4 DEF IInv

\* every step keeps it,
LEMMA NextInv == IInv /\ [Next]_vars => IInv'
<1> SUFFICES ASSUME IInv, [Next]_vars PROVE IInv'
  OBVIOUS
<1>1. TypeInv /\ HoldInv /\ BrokerInv
  BY DEF IInv, TypeInv, HoldInv, BrokerInv
<1>2. TypeInv' /\ HoldInv' /\ BrokerInv'
  BY <1>1, NextTyped, NextHolds, NextBroker
<1>3. ExecutedHasOrder' /\ NoneAbandoned'
  BY <1>1, NextExecuted, NextNoneAbandoned DEF IInv
<1> QED
  BY <1>2, <1>3 DEF IInv, TypeInv, HoldInv, BrokerInv

\* and so it holds throughout.
LEMMA Invariance == Spec => []IInv
  BY InitInv, NextInv, PTL DEF Spec

\* No approval sends two orders, for any number of workers and approvals.
THEOREM SubmittedOnce == Spec => []SingleSubmission
<1>1. IInv => SingleSubmission
  BY DEF IInv
<1> QED
  BY <1>1, Invariance, PTL

\* Only the reviewed order is sent under an approval.
THEOREM SubmittedUnchanged == Spec => []SubmittedAsReviewed
<1>1. IInv => SubmittedAsReviewed
  BY DEF IInv
<1> QED
  BY <1>1, Invariance, PTL

\* The ledger's rows cover every order at the broker.
THEOREM LedgerCovers == Spec => []LedgerCoversBroker
<1>1. IInv => LedgerCoversBroker
  BY DEF IInv, LedgerCoversBroker, UnspentUnsent, BookMatchesWire, ExecutedHasOrder
<1> QED
  BY <1>1, Invariance, PTL

\* A reserved row has a worker, unless one died holding it.
THEOREM ReservedRowsHaveWorkers == Spec => []NoneAbandoned
<1>1. IInv => NoneAbandoned
  BY DEF IInv
<1> QED
  BY <1>1, Invariance, PTL

-----------------------------------------------------------------------------
\* What a step may do to a row's status: the edges of the status graph.

StatusEdges ==
    \A a \in Approval :
        <<status[a], status'[a]>> \in
            {<<"absent", "pending">>, <<"pending", "approved">>, <<"pending", "rejected">>,
             <<"approved", "rejected">>, <<"approved", "executing">>,
             <<"executing", "executed">>, <<"executing", "reconciliation_required">>,
             <<"reconciliation_required", "executed">>}
        \/ status'[a] = status[a]

\* Every step follows the edges.
LEMMA NextEdges ==
    ASSUME TypeInv, [Next]_vars
    PROVE  StatusEdges
<1>0. status \in [Approval -> Status]
  BY DEF TypeInv, TypeOK, LedgerTypeOK
<1> USE <1>0 DEF StatusEdges
<1>1. ASSUME NEW w \in Worker, WorkerStep(w)
      PROVE  StatusEdges
  <2>0. pc[w] # "idle" => call[w].approval \in Approval
    BY CallTyped DEF Call
  <2>1. CASE CreateRow(w)
    BY <2>0, <2>1 DEF CreateRow, Create
  <2>2. CASE AutoApprove(w)
    BY <2>0, <2>2 DEF AutoApprove, Approve, CanApprove
  <2>3. CASE ReserveRow(w)
    BY <2>0, <2>3 DEF ReserveRow, Reserve, CanReserve
  <2>4. CASE RecordExecuted(w)
    BY <2>0, <2>4 DEF RecordExecuted, MarkExecuted
  <2>5. CASE RecordUncertain(w)
    BY <2>0, <2>5 DEF RecordUncertain, MarkReconciliationRequired
  <2>6. CASE UNCHANGED ledger
    BY <2>6 DEF ledger
  <2> QED
    BY <1>1, <2>1, <2>2, <2>3, <2>4, <2>5, <2>6 DEF WorkerStep, AutoApproveRaises, RefusePlacement,
       SubmitAnswered, SubmitAnswerLost, SubmitRaises
<1>2. ASSUME NEW a \in Approval, OperatorApprove(a) \/ OperatorReject(a)
      PROVE  StatusEdges
  BY <1>2 DEF OperatorApprove, OperatorReject, Approve, CanApprove, Reject, CanReject
<1>3. ASSUME NEW a \in Approval, Reconcile(a) \/ ClockLapses(a)
      PROVE  StatusEdges
  BY <1>3 DEF Reconcile, Settle, ClockLapses, Lapse
<1>4. CASE UNCHANGED ledger
  BY <1>4 DEF ledger
<1> QED
  BY <1>1, <1>2, <1>3, <1>4 DEF Next, BeginReview, BeginExecute, Crash, BrokerMoves,
     EmergencyStop, EmergencyResume, vars, ledger

\* Spent authority stays spent and verdicts stay as they are.
THEOREM VerdictsStand == Spec => VerdictsAreFinal
<1>1. IInv /\ [Next]_vars =>
        [\A a \in Approval :
            /\ status[a] \in Consumed => status'[a] \in Consumed
            /\ status[a] \in {"executed", "rejected"} => status'[a] = status[a]]_vars
  BY NextEdges DEF IInv, TypeInv, StatusEdges, Consumed
<1> QED
  BY <1>1, Invariance, PTL DEF Spec, VerdictsAreFinal

-----------------------------------------------------------------------------
\* The refinement of SingleUseAuthorization.

\* Writing one status moves one authorisation to that status's stage.
LEMMA StageFollows ==
    ASSUME TypeInv, NEW a \in Approval, NEW s \in Status,
           status' = [status EXCEPT ![a] = s]
    PROVE  /\ stage' = [stage EXCEPT ![a] = StageOf(s)]
           /\ stage[a] = StageOf(status[a])
<1>1. \A b \in Approval : status'[b] = IF b = a THEN s ELSE status[b]
  BY DEF TypeInv, TypeOK, LedgerTypeOK
<1>2. stage' = [b \in Approval |-> StageOf(status'[b])]
  BY DEF stage, StageOf
<1>3. stage = [b \in Approval |-> StageOf(status[b])]
  BY DEF stage
<1>4. \A b \in Approval : stage'[b] = IF b = a THEN StageOf(s) ELSE stage[b]
  BY <1>1, <1>2, <1>3
<1> QED
  BY <1>2, <1>3, <1>4

\* A consumed row that is settled stays consumed.
LEMMA StageStays ==
    ASSUME TypeInv, NEW a \in Approval, NEW s \in Status,
           status' = [status EXCEPT ![a] = s], StageOf(s) = StageOf(status[a])
    PROVE  stage' = stage
<1>1. stage' = [stage EXCEPT ![a] = stage[a]]
  BY StageFollows
<1> QED
  BY <1>1 DEF stage

\* Steps that write neither a status nor a broker call are not seen.
LEMMA UntouchedStage ==
    ASSUME UNCHANGED <<status, submits>>
    PROVE  UNCHANGED Promise!vars
  BY DEF Promise!vars, stage, StageOf

\* Every step of a worker is a step of the promise, or invisible.
LEMMA WorkerRefines ==
    ASSUME IInv, NEW w \in Worker, WorkerStep(w)
    PROVE  [Promise!Next]_(Promise!vars)
<1> DEFINE a == call[w].approval
<1>0. /\ TypeInv
      /\ status \in [Approval -> Status]
      /\ submits \in [Approval -> Nat]
      /\ pc[w] # "idle" => a \in Approval
  BY CallTyped DEF IInv, TypeInv, TypeOK, LedgerTypeOK, Call
<1>1. CASE CreateRow(w)
  <2>1. /\ a \in Approval /\ status[a] = "absent"
        /\ status' = [status EXCEPT ![a] = "pending"] /\ UNCHANGED submits
    BY <1>0, <1>1 DEF CreateRow, Create, broker
  <2>2. Promise!Request(a)
    BY <1>0, <2>1, StageFollows DEF Promise!Request, Promise!Advance, StageOf, Status
  <2> QED
    BY <2>1, <2>2 DEF Promise!Next
<1>2. CASE AutoApprove(w)
  <2>1. /\ a \in Approval /\ status[a] = "pending"
        /\ status' = [status EXCEPT ![a] = "approved"] /\ UNCHANGED submits
    BY <1>0, <1>2 DEF AutoApprove, Approve, CanApprove, broker
  <2>2. Promise!Grant(a)
    BY <1>0, <2>1, StageFollows DEF Promise!Grant, Promise!Advance, StageOf, Status
  <2> QED
    BY <2>1, <2>2 DEF Promise!Next
<1>3. CASE AutoApproveRaises(w) \/ RefusePlacement(w)
  BY <1>3, UntouchedStage DEF AutoApproveRaises, RefusePlacement, ledger, broker
<1>4. CASE ReserveRow(w)
  <2>1. /\ a \in Approval /\ status[a] = "approved"
        /\ status' = [status EXCEPT ![a] = "executing"] /\ UNCHANGED submits
    BY <1>0, <1>4 DEF ReserveRow, Reserve, CanReserve, broker
  <2>2. Promise!Consume(a)
    BY <1>0, <2>1, StageFollows DEF Promise!Consume, Promise!Advance, StageOf, Status
  <2> QED
    BY <2>1, <2>2 DEF Promise!Next
<1>5. ASSUME pc[w] = "submit", submits' = [submits EXCEPT ![a] = @ + 1], UNCHANGED status
      PROVE  [Promise!Next]_(Promise!vars)
  <2>1. a \in Approval /\ status[a] = "executing" /\ submits[a] = 0
    BY <1>0, <1>5 DEF IInv, HeldRowsReserved, StepsMatchBroker, Holds
  <2>2. stage[a] = "consumed" /\ UNCHANGED stage
    BY <1>5, <2>1 DEF stage, StageOf
  <2>3. submits' = [submits EXCEPT ![a] = 1]
    BY <1>0, <1>5, <2>1
  <2>4. Promise!Submit(a)
    BY <2>1, <2>2, <2>3 DEF Promise!Submit
  <2> QED
    BY <2>1, <2>4 DEF Promise!Next
<1>6. ASSUME NEW state \in {"live", "filled", "dead"},
             SubmitAnswered(w, state) \/ SubmitAnswerLost(w, state)
      PROVE  [Promise!Next]_(Promise!vars)
  BY <1>5, <1>6 DEF SubmitAnswered, SubmitAnswerLost, BrokerTakes, ledger
<1>7. CASE SubmitRaises(w)
  BY <1>5, <1>7 DEF SubmitRaises, ledger
<1>8. CASE RecordExecuted(w)
  <2>1. /\ a \in Approval /\ status[a] = "executing"
        /\ status' = [status EXCEPT ![a] = "executed"] /\ UNCHANGED submits
    BY <1>0, <1>8 DEF RecordExecuted, MarkExecuted, broker
  <2> QED
    BY <1>0, <2>1, StageStays DEF Promise!vars, StageOf, Status
<1>9. CASE RecordUncertain(w)
  <2>1. /\ a \in Approval /\ status[a] = "executing"
        /\ status' = [status EXCEPT ![a] = "reconciliation_required"] /\ UNCHANGED submits
    BY <1>0, <1>9 DEF RecordUncertain, MarkReconciliationRequired, IInv, HeldRowsReserved, Holds, broker
  <2> QED
    BY <1>0, <2>1, StageStays DEF Promise!vars, StageOf, Status
<1> QED
  BY <1>1, <1>2, <1>3, <1>4, <1>6, <1>7, <1>8, <1>9 DEF WorkerStep

\* So is every step of the system.
LEMMA NextRefines ==
    ASSUME IInv, [Next]_vars
    PROVE  [Promise!Next]_(Promise!vars)
<1>0. TypeInv /\ status \in [Approval -> Status]
  BY DEF IInv, TypeInv, TypeOK, LedgerTypeOK
<1>1. ASSUME NEW w \in Worker, WorkerStep(w)
      PROVE  [Promise!Next]_(Promise!vars)
  BY <1>1, WorkerRefines
<1>2. ASSUME NEW a \in Approval, OperatorApprove(a)
      PROVE  [Promise!Next]_(Promise!vars)
  <2>1. /\ status[a] = "pending"
        /\ status' = [status EXCEPT ![a] = "approved"] /\ UNCHANGED submits
    BY <1>2 DEF OperatorApprove, Approve, CanApprove, broker
  <2>2. Promise!Grant(a)
    BY <1>0, <2>1, StageFollows DEF Promise!Grant, Promise!Advance, StageOf, Status
  <2> QED
    BY <2>2 DEF Promise!Next
<1>3. ASSUME NEW a \in Approval, OperatorReject(a)
      PROVE  [Promise!Next]_(Promise!vars)
  <2>1. /\ status[a] \in {"pending", "approved"}
        /\ status' = [status EXCEPT ![a] = "rejected"] /\ UNCHANGED submits
    BY <1>3 DEF OperatorReject, Reject, CanReject, broker
  <2>2. Promise!Refuse(a)
    BY <1>0, <2>1, StageFollows DEF Promise!Refuse, Promise!Advance, StageOf, Status
  <2> QED
    BY <2>2 DEF Promise!Next
<1>4. ASSUME NEW a \in Approval, Reconcile(a)
      PROVE  [Promise!Next]_(Promise!vars)
  <2>1. /\ status[a] = "reconciliation_required"
        /\ status' = [status EXCEPT ![a] = "executed"] /\ UNCHANGED submits
    BY <1>4 DEF Reconcile, Settle, broker
  <2> QED
    BY <1>0, <2>1, StageStays DEF Promise!vars, StageOf, Status
<1>5. CASE UNCHANGED <<status, submits>>
  BY <1>5, UntouchedStage
<1> QED
  BY <1>1, <1>2, <1>3, <1>4, <1>5 DEF Next, BeginReview, BeginExecute, Crash, BrokerMoves,
     ClockLapses, Lapse, EmergencyStop, EmergencyResume, vars, ledger, broker

\* The whole placement path, with its races, lost answers and crashes, keeps
\* the promise of a single-use authorisation.
THEOREM SpineKeepsPromise == Spec => KeepsPromise
<1>1. Init => Promise!Init
  BY DEF Init, LedgerInit, Promise!Init, stage, StageOf
<1>2. IInv /\ [Next]_vars => [Promise!Next]_(Promise!vars)
  BY NextRefines
<1> QED
  BY <1>1, <1>2, Invariance, PTL DEF Spec, KeepsPromise, Promise!Spec
=============================================================================
