----------------------------- MODULE FillLedger -----------------------------
(***************************************************************************)
(* Executions of the broker and what the database knows of them: the        *)
(* broker fills orders lot by lot and lists only the latest fills of the    *)
(* account; pollers read an order, then its fills, and record them one at a *)
(* time in order_fills (poll_order_once, reconcile_order); and an operator  *)
(* may ask for a cancellation.                                              *)
(***************************************************************************)
EXTENDS Naturals, Sequences, FiniteSets

CONSTANTS
    Poller,   \* sessions that poll an order
    Ticket,    \* orders accepted by the broker
    Foreign,  \* those among them that were placed by hand, outside the package
    TicketSize,     \* lots of an order
    PageSize, \* fills the broker lists, the latest of the whole account
    Attempts, \* polls of one poll_until_terminal
    NoTicket   \* a poller that polls nothing

ASSUME FillAssumption ==
    /\ TicketSize \in Nat \ {0}
    /\ PageSize \in Nat \ {0}
    /\ Attempts \in Nat \ {0}
    /\ Foreign \subseteq Ticket
    /\ NoTicket \notin Ticket

VARIABLES
    native,   \* the broker's own status of an order
    tape,     \* every fill of the account, in the order it happened
    fills,    \* table order_fills
    news,     \* ghost: how often a fill was counted as new
    poll,     \* what a poller is doing
    outcome,  \* ghost: the terminal result last returned for an order
    cancel    \* the cancellation of an order

fillVars == <<native, tape, fills, news, poll, outcome, cancel>>

Native == {"accepted", "partially_filled", "pending_cancel", "filled", "canceled"}

\* bug: "cancel" looked up inside the word
StatusByWord(s) == IF s = "pending_cancel" THEN "cancelled"
                   ELSE IF s = "canceled" THEN "cancelled" ELSE IF s = "filled" THEN s ELSE "queued"

\* _order_status: what the package calls it; anything unknown is queued.
StatusOf(s) ==
    CASE s = "filled" -> "filled"
      [] s = "partially_filled" -> "partially_filled"
      [] s = "canceled" -> "cancelled"
      [] s = "accepted" -> "confirmed"
      [] OTHER -> "queued"

Terminal == {"filled", "cancelled", "rejected"}

Lot == Ticket \X (1 .. TicketSize)

\* The lots of an order that were executed.
LotsOf(o) == {l \in Lot : l[1] = o /\ \E i \in 1 .. Len(tape) : tape[i] = l}

\* The part of them the broker still lists (get_fills).
Listed(o) == {l \in LotsOf(o) : \E i \in 1 .. Len(tape) : tape[i] = l /\ i + PageSize > Len(tape)}

Latest(S) == {l \in S : \A m \in S : m[2] <= l[2]}

Stored(o) == {l \in fills : l[1] = o}

NoPoll == [pc |-> "idle", order |-> NoTicket, left |-> 0, status |-> "queued", page |-> {}, fit |-> FALSE]

Polling == [pc : {"idle", "order", "fills", "record", "sleep"}, order : Ticket \cup {NoTicket},
            left : 0 .. Attempts, status : Terminal \cup {"partially_filled", "confirmed", "queued"},
            page : SUBSET Lot, fit : BOOLEAN]

FillTypeOK ==
    /\ native \in [Ticket -> Native]
    /\ tape \in Seq(Lot)
    /\ fills \subseteq Lot
    /\ news \in [Lot -> Nat]
    /\ poll \in [Poller -> Polling]
    /\ outcome \in [Ticket -> [known : BOOLEAN, fit : BOOLEAN, lots : SUBSET Lot]]
    /\ cancel \in [Ticket -> {"none", "allowed", "reported", "refused"}]

FillInit ==
    /\ native = [o \in Ticket |-> "accepted"]
    /\ tape = <<>>
    /\ fills = {}
    /\ news = [l \in Lot |-> 0]
    /\ poll = [p \in Poller |-> NoPoll]
    /\ outcome = [o \in Ticket |-> [known |-> FALSE, fit |-> FALSE, lots |-> {}]]
    /\ cancel = [o \in Ticket |-> "none"]

-----------------------------------------------------------------------------
\* The broker.

Execute(o) ==
    /\ native[o] \in {"accepted", "partially_filled", "pending_cancel"}
    /\ LET k == Cardinality(LotsOf(o)) + 1 IN
        /\ tape' = Append(tape, <<o, k>>)
        /\ native' = [native EXCEPT ![o] = IF k = TicketSize THEN "filled"
                                           ELSE IF @ = "accepted" THEN "partially_filled" ELSE @]
    /\ UNCHANGED <<fills, news, poll, outcome, cancel>>

\* The broker carries a cancellation out, or lets the order expire.
EndOrder(o) ==
    /\ native[o] \in {"accepted", "partially_filled", "pending_cancel"}
    /\ native' = [native EXCEPT ![o] = "canceled"]
    /\ UNCHANGED <<tape, fills, news, poll, outcome, cancel>>

-----------------------------------------------------------------------------
\* poll_until_terminal.

StartPoll(p, o) ==
    /\ poll[p].pc = "idle"
    /\ poll' = [poll EXCEPT ![p] = [NoPoll EXCEPT !.pc = "order", !.order = o, !.left = Attempts]]
    /\ UNCHANGED <<native, tape, fills, news, outcome, cancel>>

\* get_order.
ReadOrder(p) ==
    /\ poll[p].pc = "order"
    /\ poll' = [poll EXCEPT ![p].pc = "fills", ![p].status = StatusOf(native[poll[p].order])]
    /\ UNCHANGED <<native, tape, fills, news, outcome, cancel>>

\* get_fills: the page is read after the order.
ReadFills(p) ==
    /\ poll[p].pc = "fills"
    /\ LET o == poll[p].order IN
        poll' = [poll EXCEPT ![p].pc = "record", ![p].page = Listed(o), ![p].fit = Listed(o) = LotsOf(o)]
    /\ UNCHANGED <<native, tape, fills, news, outcome, cancel>>

\* bug: INSERT OR REPLACE also reports one changed row
RecordFillReplacing(p) ==
    /\ poll[p].pc = "record"
    /\ poll[p].page # {}
    /\ \E l \in Latest(poll[p].page) :
        /\ poll' = [poll EXCEPT ![p].page = @ \ {l}]
        /\ fills' = fills \cup {l}
        /\ news' = [news EXCEPT ![l] = @ + 1]
    /\ UNCHANGED <<native, tape, outcome, cancel>>

\* record_fill: a stored fill is ignored and does not count.
RecordFill(p) ==
    /\ poll[p].pc = "record"
    /\ poll[p].page # {}
    /\ \E l \in Latest(poll[p].page) :
        /\ poll' = [poll EXCEPT ![p].page = @ \ {l}]
        /\ fills' = fills \cup {l}
        /\ news' = IF l \in fills THEN news ELSE [news EXCEPT ![l] = @ + 1]
    /\ UNCHANGED <<native, tape, outcome, cancel>>

\* The result holds what is stored of the order; an order that is not terminal
\* is polled again while attempts are left.
FinishPoll(p) ==
    /\ poll[p].pc = "record"
    /\ poll[p].page = {}
    /\ LET o == poll[p].order
           over == poll[p].status \in Terminal
       IN /\ outcome' = IF over THEN [outcome EXCEPT ![o] = [known |-> TRUE, fit |-> poll[p].fit, lots |-> Stored(o)]]
                        ELSE outcome
          /\ poll' = [poll EXCEPT ![p] = IF over \/ poll[p].left = 1 THEN NoPoll
                                         ELSE [poll[p] EXCEPT !.pc = "sleep", !.left = @ - 1, !.fit = FALSE]]
    /\ UNCHANGED <<native, tape, fills, news, cancel>>

PollAgain(p) ==
    /\ poll[p].pc = "sleep"
    /\ poll' = [poll EXCEPT ![p].pc = "order"]
    /\ UNCHANGED <<native, tape, fills, news, outcome, cancel>>

\* A request fails or the process dies: the exception leaves the loop.
PollDies(p) ==
    /\ poll[p].pc # "idle"
    /\ poll' = [poll EXCEPT ![p] = NoPoll]
    /\ UNCHANGED <<native, tape, fills, news, outcome, cancel>>

-----------------------------------------------------------------------------
\* cancel_equity_order: the order is read and must not be terminal; the request
\* is sent, and reported as cancelled, whatever the broker does with it.

AllowCancel(o) ==
    /\ cancel[o] = "none"
    /\ cancel' = [cancel EXCEPT ![o] = IF StatusOf(native[o]) \in Terminal THEN "refused" ELSE "allowed"]
    /\ UNCHANGED <<native, tape, fills, news, poll, outcome>>

SendCancel(o) ==
    /\ cancel[o] = "allowed"
    /\ IF native[o] \in {"filled", "canceled"}
       THEN cancel' = [cancel EXCEPT ![o] = "refused"] /\ UNCHANGED native
       ELSE /\ cancel' = [cancel EXCEPT ![o] = "reported"]
            /\ native' = [native EXCEPT ![o] = "pending_cancel"]
    /\ UNCHANGED <<tape, fills, news, poll, outcome>>

-----------------------------------------------------------------------------
OrderNext == \/ \E o \in Ticket : Execute(o)
             \/ \E o \in Ticket \ Foreign : EndOrder(o) \/ AllowCancel(o) \/ SendCancel(o)

PollNext(p) == \/ \E o \in Ticket \ Foreign : StartPoll(p, o)
               \/ ReadOrder(p) \/ ReadFills(p) \/ RecordFill(p) \/ FinishPoll(p)
               \/ PollAgain(p) \/ PollDies(p)

FillNext == OrderNext \/ \E p \in Poller : PollNext(p)

FillSpec == FillInit /\ [][FillNext]_fillVars

-----------------------------------------------------------------------------
(* A terminal result (poll_order_once) reports every lot the broker ever     *)
(* executed for the order, when they all were still listed: the order is     *)
(* read before the fills, so nothing is executed between the two readings of *)
(* an order that was over, and a cancellation that is only asked for does    *)
(* not pass for one.                                                         *)
TerminalResultIsWhole ==
    \A o \in Ticket : outcome[o].known /\ outcome[o].fit => outcome[o].lots = LotsOf(o)

(* However many sessions poll an order, and whenever they die, each stored   *)
(* fill was counted as new by exactly one of them (reconcile_order), so the  *)
(* new fills they report add up to the ledger.                               *)
EachFillNewOnce == \A l \in Lot : news[l] = IF l \in fills THEN 1 ELSE 0
=============================================================================
