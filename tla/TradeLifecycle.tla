--------------------------- MODULE TradeLifecycle ---------------------------
(***************************************************************************)
(* The one lifecycle task a symbol has (table trade_lifecycles), the        *)
(* sessions that move it, and the position at the broker that it is meant   *)
(* to follow: autonomous paper entries and exits (PaperAutoExecutor), live  *)
(* sales (CioWorkflow.prepare_sale, report_filled_sale), the monitors that  *)
(* watch open positions under a lease (monitor_open_positions), and the     *)
(* daily review that compares rows and positions                            *)
(* (detect_broker_state_drift).                                             *)
(*                                                                          *)
(* The account is shared: the position guard, the alert webhook, the        *)
(* overnight pilot and the bracket exits trade any symbol of it and never   *)
(* look at a lifecycle row.                                                 *)
(*                                                                          *)
(* Every session run works under an approval of its own, and sending the    *)
(* order is one step here: OrderSpine models what happens inside it.        *)
(***************************************************************************)
EXTENDS Integers, FiniteSets

CONSTANTS
    Worker,    \* processes that run sessions and monitors
    Symbol,    \* tickers
    Approval,  \* the approvals of all session runs, one each
    Lots,      \* the lots an entry buys
    Nobody,    \* no symbol, no approval, no lease holder
    MaxHeld,   \* bound: the lots another flow leaves of a symbol when it trades it
    Prompt     \* TRUE: evaluating an exit takes less than the five minutes of a lease

ASSUME LotsAssumption == Lots \in Nat \ {0}

ASSUME HeldAssumption == MaxHeld \in Nat

ASSUME PromptAssumption == Prompt \in BOOLEAN

ASSUME NobodyAssumption == Nobody \notin Worker \cup Symbol \cup Approval

VARIABLES
    status,    \* the lifecycle row of a symbol
    order,     \* the order prepared under an approval
    position,  \* lots held at the broker
    lease,     \* who holds the lease of a symbol
    pc,        \* the step a worker is about to take
    subject,   \* the symbol it works on
    under,     \* the approval it works under
    elsewhere, \* ghost: the lots other flows bought of a symbol, less those they sold
    review     \* the daily review: the symbols its snapshot shows as held and the
               \* rows it was compared with; ghost: the symbols other flows traded
               \* since, and the buys that were filled by then

apart == <<elsewhere, review>>

vars == <<status, order, position, lease, pc, subject, under, elsewhere, review>>

Status == {"none", "research", "buy_pending", "open", "sell_pending", "closed"}

\* No order yet, authorised, at the broker, done, or never taken.
OrderState == {"unused", "authorized", "live", "filled", "dead"}

Order == [state : OrderState, side : {"buy", "sell"}, symbol : Symbol \cup {Nobody}, lots : 0 .. Lots]

NoOrder == [state |-> "unused", side |-> "buy", symbol |-> Nobody, lots |-> 0]

PC == {"idle", "lookup", "begin", "attach", "pend", "place", "mark", "lease", "evaluate"}

NoReview == [pc |-> "idle", held |-> {}, rows |-> {}, moved |-> {}, filled |-> {}]

TypeOK ==
    /\ status \in [Symbol -> Status]
    /\ order \in [Approval -> Order]
    /\ position \in [Symbol -> Nat]
    /\ lease \in [Symbol -> Worker \cup {Nobody}]
    /\ pc \in [Worker -> PC]
    /\ subject \in [Worker -> Symbol \cup {Nobody}]
    /\ under \in [Worker -> Approval \cup {Nobody}]
    /\ elsewhere \in [Symbol -> Int]
    /\ review \in [pc : {"idle", "compare", "clean"}, held : SUBSET Symbol, rows : SUBSET Symbol,
                   moved : SUBSET Symbol, filled : SUBSET Approval]

Init ==
    /\ status = [s \in Symbol |-> "none"]
    /\ order = [a \in Approval |-> NoOrder]
    /\ position = [s \in Symbol |-> 0]
    /\ lease = [s \in Symbol |-> Nobody]
    /\ pc = [w \in Worker |-> "idle"]
    /\ subject = [w \in Worker |-> Nobody]
    /\ under = [w \in Worker |-> Nobody]
    /\ elsewhere = [s \in Symbol |-> 0]
    /\ review = NoReview

Goto(w, step) ==
    /\ pc' = [pc EXCEPT ![w] = step]
    /\ UNCHANGED <<subject, under>>

\* The session returns, raises or dies.
Return(w) ==
    /\ pc' = [pc EXCEPT ![w] = "idle"]
    /\ subject' = [subject EXCEPT ![w] = Nobody]
    /\ under' = [under EXCEPT ![w] = Nobody]

Begin(w, step, s, a) ==
    /\ pc[w] = "idle"
    /\ pc' = [pc EXCEPT ![w] = step]
    /\ subject' = [subject EXCEPT ![w] = s]
    /\ under' = [under EXCEPT ![w] = a]

\* bug: the update does not look at the status it moves from
MoveAnyway(w, from, to, step) ==
    /\ status' = [status EXCEPT ![subject[w]] = to]
    /\ Goto(w, step)
    /\ UNCHANGED <<order, position, lease, apart>>

\* A conditional update of the row: it raises unless the row is in `from`.
Move(w, from, to, step) ==
    /\ IF status[subject[w]] = from
       THEN /\ status' = [status EXCEPT ![subject[w]] = to]
            /\ Goto(w, step)
       ELSE /\ Return(w)
            /\ UNCHANGED status
    /\ UNCHANGED <<order, position, lease, apart>>

Sent(a) == order[a].state \in {"live", "filled"}

Orders(s, side) == {a \in Approval : Sent(a) /\ order[a].symbol = s /\ order[a].side = side}

Filled == {a \in Approval : order[a].state = "filled"}

-----------------------------------------------------------------------------
\* An autonomous entry: the order is reviewed and authorised.
StartEntry(w, s, a) ==
    /\ order[a] = NoOrder
    /\ Begin(w, "lookup", s, a)
    /\ order' = [order EXCEPT ![a] = [state |-> "authorized", side |-> "buy", symbol |-> s, lots |-> Lots]]
    /\ UNCHANGED <<status, position, lease, apart>>

\* _attach_lifecycle: the row is read, and then inserted or updated.  A symbol
\* that is past research, a closed one included, raises.
LookupLifecycle(w) ==
    /\ pc[w] = "lookup"
    /\ CASE status[subject[w]] = "none" -> Goto(w, "begin")
         [] status[subject[w]] = "research" -> Goto(w, "attach")
         [] OTHER -> Return(w)
    /\ UNCHANGED <<status, order, position, lease, apart>>

BeginBuyPending(w) ==
    /\ pc[w] = "begin"
    /\ Move(w, "none", "buy_pending", "place")

AttachBuy(w) ==
    /\ pc[w] = "attach"
    /\ Move(w, "research", "buy_pending", "place")

\* The morning review begins a task for an executable idea.
BeginResearch(s) ==
    /\ status[s] = "none"
    /\ status' = [status EXCEPT ![s] = "research"]
    /\ UNCHANGED <<order, position, lease, pc, subject, under, apart>>

\* The broker takes the order and fills it before the call returns.
PlaceFilled(w) ==
    /\ pc[w] = "place"
    /\ LET o == order[under[w]] IN
        /\ o.side = "sell" => o.lots <= position[o.symbol]
        /\ order' = [order EXCEPT ![under[w]].state = "filled"]
        /\ position' = [position EXCEPT ![o.symbol] =
                            IF o.side = "buy" THEN @ + o.lots ELSE @ - o.lots]
        /\ IF o.side = "buy" THEN Goto(w, "mark") ELSE Return(w)
    /\ UNCHANGED <<status, lease, apart>>

\* bug: the position is taken for open as soon as the order is sent
AcceptedIsOpen(w) ==
    /\ pc[w] = "place"
    /\ order' = [order EXCEPT ![under[w]].state = "live"]
    /\ status' = [status EXCEPT ![subject[w]] =
                      IF order[under[w]].side = "buy" THEN "open" ELSE @]
    /\ Return(w)
    /\ UNCHANGED <<position, lease, apart>>

\* The broker takes the order; the call returns it unfilled, or raises because
\* the answer is lost.  The session ends and the row stays as it is.
PlaceAccepted(w) ==
    /\ pc[w] = "place"
    /\ order' = [order EXCEPT ![under[w]].state = "live"]
    /\ Return(w)
    /\ UNCHANGED <<status, position, lease, apart>>

\* A guard, the reservation, the person or the broker says no.
PlaceRefused(w) ==
    /\ pc[w] = "place"
    /\ order' = [order EXCEPT ![under[w]].state = "dead"]
    /\ Return(w)
    /\ UNCHANGED <<status, position, lease, apart>>

MarkPositionOpen(w) ==
    /\ pc[w] = "mark"
    /\ status' = [status EXCEPT ![subject[w]] = IF @ = "buy_pending" THEN "open" ELSE @]
    /\ Return(w)
    /\ UNCHANGED <<order, position, lease, apart>>

-----------------------------------------------------------------------------
\* An exit, autonomous or reviewed by a person, of the whole position or of a
\* part of it: the row is read, the order prepared, the row moved.
StartSale(w, s, a, lots) ==
    /\ order[a] = NoOrder
    /\ status[s] = "open"
    /\ Begin(w, "pend", s, a)
    /\ order' = [order EXCEPT ![a] = [state |-> "authorized", side |-> "sell", symbol |-> s, lots |-> lots]]
    /\ UNCHANGED <<status, position, lease, apart>>

\* bug: a status the table does not know
PendUnknown(w) ==
    /\ pc[w] = "pend"
    /\ Move(w, "open", "selling", "place")

MarkSellPending(w) ==
    /\ pc[w] = "pend"
    /\ Move(w, "open", "sell_pending", "place")

\* The host reports a filled sale. Its side and state are checked, its symbol and
\* its size are not: any filled sale of the account closes the row.
ReportFilledSale(s) ==
    /\ status[s] = "sell_pending"
    /\ status' = [status EXCEPT ![s] = "closed"]
    /\ UNCHANGED <<order, position, lease, pc, subject, under, apart>>

-----------------------------------------------------------------------------
\* A monitor has listed the open positions; the lease is taken afterwards.
StartMonitor(w, s) ==
    /\ status[s] = "open"
    /\ Begin(w, "lease", s, Nobody)
    /\ UNCHANGED <<status, order, position, lease, apart>>

\* bug: the newer lease replaces the older one
StealLease(w) ==
    /\ pc[w] = "lease"
    /\ lease' = [lease EXCEPT ![subject[w]] = w]
    /\ Goto(w, "evaluate")
    /\ UNCHANGED <<status, order, position, apart>>

\* Refused while somebody else's lease runs.
AcquireLease(w) ==
    /\ pc[w] = "lease"
    /\ IF lease[subject[w]] = Nobody
       THEN /\ lease' = [lease EXCEPT ![subject[w]] = w]
            /\ Goto(w, "evaluate")
       ELSE /\ Return(w)
            /\ UNCHANGED lease
    /\ UNCHANGED <<status, order, position, apart>>

\* The exit is evaluated, or the observation raises; only the worker's own
\* lease is deleted.
ReleaseLease(w) ==
    /\ pc[w] = "evaluate"
    /\ lease' = [lease EXCEPT ![subject[w]] = IF @ = w THEN Nobody ELSE @]
    /\ Return(w)
    /\ UNCHANGED <<status, order, position, apart>>

\* Five minutes pass; while the holder evaluates only if it may be that slow.
LeaseExpires(s) ==
    /\ lease[s] # Nobody
    /\ Prompt => ~(pc[lease[s]] = "evaluate" /\ subject[lease[s]] = s)
    /\ lease' = [lease EXCEPT ![s] = Nobody]
    /\ UNCHANGED <<status, order, position, pc, subject, under, apart>>

-----------------------------------------------------------------------------
\* The broker fills a live order later; it never sells what is not held.
BrokerFills(a) ==
    /\ order[a].state = "live"
    /\ order[a].side = "sell" => order[a].lots <= position[order[a].symbol]
    /\ order' = [order EXCEPT ![a].state = "filled"]
    /\ position' = [position EXCEPT ![order[a].symbol] =
                        IF order[a].side = "buy" THEN @ + order[a].lots ELSE @ - order[a].lots]
    /\ UNCHANGED <<status, lease, pc, subject, under, apart>>

\* A flow that knows no lifecycle row buys or sells some lots of the symbol.
TradeElsewhere(s) ==
    /\ \E held \in 0 .. MaxHeld :
        /\ held # position[s]
        /\ position' = [position EXCEPT ![s] = held]
        /\ elsewhere' = [elsewhere EXCEPT ![s] = @ + held - position[s]]
    /\ review' = [review EXCEPT !.moved = IF review.pc = "idle" THEN @ ELSE @ \cup {s}]
    /\ UNCHANGED <<status, order, lease, pc, subject, under>>

-----------------------------------------------------------------------------
\* The drift check of the daily review.

\* expected_open_symbols.
Expected == {s \in Symbol : status[s] \in {"open", "sell_pending"}}

\* The host reads the positions of the account.
TakeSnapshot ==
    /\ review.pc = "idle"
    /\ review' = [NoReview EXCEPT !.pc = "compare", !.held = {s \in Symbol : position[s] > 0}, !.filled = Filled]
    /\ UNCHANGED <<status, order, position, lease, pc, subject, under, elsewhere>>

\* bug: positions without a task are looked for, tasks without a position are not
CompareOneWay ==
    /\ review.pc = "compare"
    /\ review' = IF review.held \subseteq Expected THEN [review EXCEPT !.pc = "clean", !.rows = Expected]
                 ELSE NoReview
    /\ UNCHANGED <<status, order, position, lease, pc, subject, under, elsewhere>>

\* require_no_broker_state_drift: the rows are read now, the positions were read
\* before; any difference raises and the review stops.
ComparePositions ==
    /\ review.pc = "compare"
    /\ review' = IF review.held = Expected THEN [review EXCEPT !.pc = "clean", !.rows = Expected]
                 ELSE NoReview
    /\ UNCHANGED <<status, order, position, lease, pc, subject, under, elsewhere>>

NextReview ==
    /\ review.pc = "clean"
    /\ review' = NoReview
    /\ UNCHANGED <<status, order, position, lease, pc, subject, under, elsewhere>>

-----------------------------------------------------------------------------
Crash(w) ==
    /\ pc[w] # "idle"
    /\ Return(w)
    /\ UNCHANGED <<status, order, position, lease, apart>>

Steps ==
    \/ \E w \in Worker :
        \/ \E s \in Symbol, a \in Approval : StartEntry(w, s, a)
        \/ \E s \in Symbol, a \in Approval, lots \in 1 .. Lots : StartSale(w, s, a, lots)
        \/ \E s \in Symbol : StartMonitor(w, s)
        \/ LookupLifecycle(w) \/ BeginBuyPending(w) \/ AttachBuy(w)
        \/ PlaceFilled(w) \/ PlaceAccepted(w) \/ PlaceRefused(w)
        \/ MarkPositionOpen(w) \/ MarkSellPending(w)
        \/ AcquireLease(w) \/ ReleaseLease(w)
    \/ \E s \in Symbol :
        \/ BeginResearch(s)
        \/ LeaseExpires(s)
        \/ ReportFilledSale(s)
    \/ \E a \in Approval : BrokerFills(a)

Outside == \/ \E s \in Symbol : TradeElsewhere(s)
           \/ TakeSnapshot \/ ComparePositions \/ NextReview

Next == Steps \/ Outside \/ \E w \in Worker : Crash(w)

Spec == Init /\ [][Next]_vars

\* No process dies, and no other flow trades.
UninterruptedSpec == Init /\ [][Steps]_vars

-----------------------------------------------------------------------------
\* However many sessions race for a symbol, crash or are started again, its
\* task sees one buy and one sale: a second session finds the row moved.
OneEntryOneExit ==
    \A s \in Symbol : /\ Cardinality(Orders(s, "buy")) <= 1
                      /\ Cardinality(Orders(s, "sell")) <= 1

\* An open task stands for the whole of its entry: the buy was filled, none of
\* its lots was sold by a session, and no sale is under way at the broker, so
\* that what is held differs from the entry by what other flows traded only.
OpenIsBacked ==
    \A s \in Symbol : status[s] = "open" =>
        position[s] = Lots + elsewhere[s] /\ Orders(s, "sell") = {}

\* What a clean review found lasts until another flow trades the symbol,
\* although its rows are read after its positions and sessions go on meanwhile:
\* a task it counted that is still open is held, and a position that it did
\* not see was bought by a session since (daily_controls.py:99).
CleanReviewLasts ==
    review.pc = "clean" =>
        \A s \in Symbol \ review.moved :
            /\ s \in review.rows /\ status[s] = "open" => position[s] > 0
            /\ s \notin review.rows /\ position[s] > 0 => Orders(s, "buy") \cap (Filled \ review.filled) # {}

\* Two workers never evaluate the exit of one symbol at a time (README.md:442).
OneMonitor ==
    \A v, w \in Worker :
        pc[v] = "evaluate" /\ pc[w] = "evaluate" /\ subject[v] = subject[w] => v = w

\* A filled buy opens the lifecycle, so that its exit is watched: once no
\* session works on the symbol, what is held has an open or selling task.
FilledIsManaged ==
    \A s \in Symbol :
        position[s] > 0 /\ (\A w \in Worker : subject[w] # s) =>
            status[s] \in {"open", "sell_pending"}
=============================================================================
