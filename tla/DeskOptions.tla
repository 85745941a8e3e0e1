---------------------------- MODULE DeskOptions -----------------------------
(***************************************************************************)
(* Long options on the paper account: programs that buy a contract (the    *)
(* options pilot and the option leg of the TradingAgents session) and the  *)
(* guard that sells what has reached its target, its stop or its last      *)
(* days. Every order is a day limit order at the quote the program read,   *)
(* and its client order id is a hash of the order alone.                   *)
(*                                                                         *)
(* The broker is external: it refuses a client order id it has seen on any *)
(* day, refuses a sale of lots that rest in another one, fills when it     *)
(* likes, ends its orders with the day and settles what expired. What it   *)
(* refuses reaches the programs as an error no handler of a pass catches.  *)
(***************************************************************************)
EXTENDS Integers, FiniteSets, Sequences

CONSTANTS
    Chain,        \* the contracts in the order the broker lists its positions
    Expires,      \* the last day of a contract
    Buyer,        \* runs of the programs that buy
    Bid,          \* bids, in ticks; 0 is no bid
    Spread,       \* ask less bid
    MaxPremium,   \* premium_cap
    MaxContracts, \* max_contracts
    MaxHeld,      \* max_positions
    MinDte,       \* OptionSelectionFilters.min_dte
    MaxDte,       \* days to expiry at which the guard sells
    Gain, Loss,   \* target_pct, stop_pct
    LastDay,      \* bound: days
    MaxBroken     \* bound: requests that fail or whose answer is lost

OptionContract == {Chain[i] : i \in 1 .. Len(Chain)}

ASSUME ChainAssumption ==
    /\ Chain \in Seq(OptionContract)
    /\ \A i, j \in 1 .. Len(Chain) : Chain[i] = Chain[j] => i = j
    /\ Expires \in [OptionContract -> Nat]
    /\ Bid \subseteq Nat /\ Bid # {}
    /\ {Spread, MaxContracts} \subseteq Nat \ {0}
    /\ {MaxPremium, MaxHeld, MinDte, MaxDte, LastDay, MaxBroken} \subseteq Nat
    /\ MaxDte < MinDte
    /\ {Gain, Loss} \subseteq 1 .. 100

VARIABLES
    today,      \* the date
    window,     \* of the session guard: before, open or after
    halted,     \* system_controls: emergency_kill
    bid,        \* the broker's quotes
    lots, basis,\* positions: contracts and cost basis
    working,    \* asks that rest at the broker
    taken,      \* client order ids the broker has seen
    buyer,      \* a run of a program that buys
    pass,       \* the guard's pass
    passed,     \* a pass begun in today's window has ended
    broken,     \* requests that failed
    offered,    \* record: contracts offered today
    excused,    \* record: contracts today's passes could not offer
    unread      \* record: contracts whose quotes a pass of today could not read

optionVars == <<today, window, halted, bid, lots, basis, working, taken, buyer, pass,
                passed, broken, offered, excused, unread>>
records == <<offered, excused, unread>>
books == <<lots, basis, working, taken>>

Quiet == [pc |-> "quiet"]
PassRow == [on : OptionContract, lots : Nat, cost : Nat]
Ask == [side : {"buy", "sell"}, on : OptionContract, lots : Nat \ {0}, limit : Nat]

OptionsTypeOK ==
    /\ today \in 0 .. LastDay /\ window \in {"before", "open", "after"}
    /\ halted \in BOOLEAN /\ passed \in BOOLEAN
    /\ bid \in [OptionContract -> Bid]
    /\ lots \in [OptionContract -> Nat] /\ basis \in [OptionContract -> Nat]
    /\ \A a \in working : a \in Ask
    /\ buyer \in [Buyer -> [pc : {"quiet", "count", "place", "done"}, ask : Ask \cup {Quiet}]]
    /\ pass \in [pc : {"quiet", "pass"}, todo : SUBSET PassRow]
    /\ broken \in 0 .. MaxBroken
    /\ offered \subseteq OptionContract /\ excused \subseteq OptionContract
    /\ unread \subseteq OptionContract

OptionsInit ==
    /\ today = 0 /\ window = "before" /\ halted = FALSE
    /\ bid \in [OptionContract -> Bid]
    /\ lots = [c \in OptionContract |-> 0] /\ basis = lots
    /\ working = {} /\ taken = {}
    /\ buyer = [b \in Buyer |-> [pc |-> "quiet", ask |-> Quiet]]
    /\ pass = [pc |-> "quiet", todo |-> {}] /\ passed = FALSE
    /\ broken = 0 /\ offered = {} /\ excused = {} /\ unread = {}

Dte(c) == Expires[c] - today

\* The quote of a contract has both sides.
AskOf(c) == bid[c] + Spread

\* quote_chain lists expirations from today on.
QuoteChain == {c \in OptionContract : Dte(c) >= 0}

Breaks == broken < MaxBroken /\ broken' = broken + 1

-----------------------------------------------------------------------------
\* An order: review, ledger and session guard are OrderSpine's and here one
\* step with the request to the broker.

\* client_order_id: cio-opt- and the fingerprint of the order.
ClientOrderId(ask) == <<"cio-opt", ask>>

\* PolicyViolation, before the broker is asked.
Stopped == halted \/ window # "open"

\* close_long_option before the broker is asked: no bid, and the ledger's view
\* of what is held.
SaleBlocked(c, n) == bid[c] = 0 \/ Stopped \/ lots[c] < n

SaleOf(c) == {a \in working : a.side = "sell" /\ a.on = c}

BrokerTakes(ask) ==
    /\ ClientOrderId(ask) \notin taken
    /\ ask.side = "sell" => SaleOf(ask.on) = {} /\ ask.lots <= lots[ask.on]

Take(ask) ==
    /\ BrokerTakes(ask)
    /\ working' = working \cup {ask}
    /\ taken' = taken \cup {ClientOrderId(ask)}
    /\ UNCHANGED <<lots, basis>>

\* A refusal by the broker, no answer, or an answer that was lost.
OrderRaises(ask) ==
    \/ ~BrokerTakes(ask) /\ UNCHANGED books /\ UNCHANGED broken
    \/ Breaks /\ (UNCHANGED books \/ Take(ask))

-----------------------------------------------------------------------------
\* options_pilot.py and trade_option_leg: scout, count what is held, place.

\* select_long_option: days to expiry are its filter that matters here;
\* which of the liquid contracts ranks first is open.
Eligible(c) == Dte(c) >= MinDte

\* The option leg of a session sizes by the cap alone.
LegSized(ask) == MaxPremium \div ask

Sized(ask) == LET most == MaxPremium \div ask IN IF most < MaxContracts THEN most ELSE MaxContracts

Scout(b) ==
    /\ buyer[b].pc = "quiet"
    /\ \E c \in {x \in QuoteChain : Eligible(x)} : \E n \in {Sized(AskOf(c)), LegSized(AskOf(c))} :
          /\ n >= 1
          /\ buyer' = [buyer EXCEPT ![b] =
                [pc |-> "count", ask |-> [side |-> "buy", on |-> c, lots |-> n, limit |-> AskOf(c)]]]
    /\ UNCHANGED <<today, window, halted, bid, books, pass, passed, broken, records>>

\* Only filled positions are counted, and a count that fails is none.
CountHeld(b) ==
    /\ buyer[b].pc = "count"
    /\ LET full == Cardinality({c \in OptionContract : lots[c] > 0}) >= MaxHeld
       IN  \/ /\ buyer' = [buyer EXCEPT ![b].pc = IF full THEN "done" ELSE "place"]
              /\ UNCHANGED broken
           \/ Breaks /\ buyer' = [buyer EXCEPT ![b].pc = "place"]
    /\ UNCHANGED <<today, window, halted, bid, books, pass, passed, records>>

\* place_long_option: the price is the one the scout saw.
Open(b) ==
    /\ buyer[b].pc = "place"
    /\ \/ UNCHANGED books /\ UNCHANGED broken      \* stopped, earnings, no member, over the cap
       \/ ~Stopped /\ Take(buyer[b].ask) /\ UNCHANGED broken
       \/ ~Stopped /\ OrderRaises(buyer[b].ask)
    /\ buyer' = [buyer EXCEPT ![b].pc = "done"]
    /\ UNCHANGED <<today, window, halted, bid, pass, passed, records>>

-----------------------------------------------------------------------------
\* options_guard.py.

\* The file keeps first_seen under "tracked" and the pass looks for it at
\* the top: every pass sees every contract for the first time, the days
\* held are none and STALE is never decided.
DecideBeforeLastDays(dte, mark, cost) ==        \* bug: the first of the last days is not one
    IF dte < MaxDte THEN "EXPIRE"
    ELSE IF mark * 100 >= cost * (100 + Gain) THEN "TARGET"
    ELSE IF mark * 100 <= cost * (100 - Loss) THEN "STOP" ELSE "HOLD"

Decide(dte, mark, cost) ==
    IF dte <= MaxDte THEN "EXPIRE"
    ELSE IF mark * 100 >= cost * (100 + Gain) THEN "TARGET"
    ELSE IF mark * 100 <= cost * (100 - Loss) THEN "STOP" ELSE "HOLD"

StartPass ==
    /\ pass.pc = "quiet"
    /\ LET rowOf(c) == [on |-> c, lots |-> lots[c], cost |-> basis[c]]
       IN  pass' = [pc |-> "pass", todo |-> {rowOf(c) : c \in {d \in OptionContract : lots[d] > 0}}]
    /\ UNCHANGED <<today, window, halted, bid, books, buyer, passed, broken, records>>

PassDone == pass' = [pc |-> "quiet", todo |-> {}] /\ passed' = (window = "open")

Left == {row.on : row \in pass.todo}

\* The broker lists c before d.
ListedFirst(c, d) == \E i, j \in 1 .. Len(Chain) : Chain[i] = c /\ Chain[j] = d /\ i < j

\* One position. What a handler of the pass catches leads to the next one: no
\* bid, the stop, and a quote that cannot be read, be it the contract's, stale
\* or torn, its underlying's or the closing one. What the broker or the
\* connection raises ends the pass, its file unwritten.
GuardContract ==
    /\ pass.pc = "pass"
    /\ \E row \in pass.todo :
          LET c == row.on
              sale == [side |-> "sell", on |-> c, lots |-> row.lots, limit |-> bid[c]]
              holds == Decide(Dte(c), bid[c] * row.lots, row.cost) = "HOLD"
              blocked == SaleBlocked(c, row.lots)
              next == pass' = [pass EXCEPT !.todo = @ \ {row}] /\ UNCHANGED passed
          IN  /\ \A other \in pass.todo : ~ListedFirst(other.on, c)
              /\ \/ holds /\ next /\ UNCHANGED <<books, broken, records>>
                 \/ /\ ~holds /\ blocked
                    /\ next /\ excused' = excused \cup {c}
                    /\ UNCHANGED <<books, broken, offered, unread>>
                 \/ /\ ~holds /\ next /\ unread' = unread \cup {c}
                    /\ UNCHANGED <<books, broken, offered, excused>>
                 \/ /\ ~holds /\ ~blocked /\ Take(sale)
                    /\ next /\ offered' = offered \cup {c}
                    /\ UNCHANGED <<broken, excused, unread>>
                 \/ /\ ~holds /\ ~blocked /\ OrderRaises(sale)
                    /\ PassDone /\ excused' = excused \cup Left /\ UNCHANGED <<offered, unread>>
                 \/ /\ Breaks /\ PassDone                  \* no answer to a request for quotes
                    /\ excused' = excused \cup Left /\ UNCHANGED <<books, offered, unread>>
    /\ UNCHANGED <<today, window, halted, bid, buyer>>

EndPass ==
    /\ pass.pc = "pass" /\ pass.todo = {}
    /\ PassDone
    /\ UNCHANGED <<today, window, halted, bid, books, buyer, broken, records>>

-----------------------------------------------------------------------------
\* The broker, the day and the operator.

FillAsk(a) ==
    /\ a \in working
    /\ working' = working \ {a}
    /\ lots' = [lots EXCEPT ![a.on] = IF a.side = "buy" THEN @ + a.lots ELSE @ - a.lots]
    /\ basis' = [basis EXCEPT ![a.on] = IF a.side = "buy" THEN @ + a.lots * a.limit
                                        ELSE IF lots'[a.on] = 0 THEN 0 ELSE @ - a.lots * (@ \div lots[a.on])]
    /\ UNCHANGED <<today, window, halted, bid, taken, buyer, pass, passed, broken, records>>

Quote(c) ==
    /\ \E p \in Bid \ {bid[c]} : bid' = [bid EXCEPT ![c] = p]
    /\ UNCHANGED <<today, window, halted, books, buyer, pass, passed, broken, records>>

\* The timer lets no open window go by without a pass.
MoveWindow ==
    /\ pass.pc = "quiet"
    /\ \/ window = "before" /\ window' = "open" /\ UNCHANGED working
       \/ window = "open" /\ passed /\ window' = "after" /\ working' = {}
    /\ passed' = FALSE
    /\ UNCHANGED <<today, halted, bid, lots, basis, taken, buyer, pass, broken, records>>

NextDay ==
    /\ window = "after" /\ pass.pc = "quiet" /\ today < LastDay
    /\ \A b \in Buyer : buyer[b].pc \in {"quiet", "done"}
    /\ today' = today + 1 /\ window' = "before"
    /\ lots' = [c \in OptionContract |-> IF Dte(c) <= 0 THEN 0 ELSE lots[c]]
    /\ basis' = [c \in OptionContract |-> IF Dte(c) <= 0 THEN 0 ELSE basis[c]]
    /\ offered' = {} /\ excused' = {} /\ unread' = {}
    /\ UNCHANGED <<halted, bid, working, taken, buyer, pass, passed, broken>>

Halt == halted' = ~halted /\ UNCHANGED <<today, window, bid, books, buyer, pass, passed, broken, records>>

OptionsNext ==
    \/ \E b \in Buyer : Scout(b) \/ CountHeld(b) \/ Open(b)
    \/ StartPass \/ GuardContract \/ EndPass
    \/ \E a \in working : FillAsk(a)
    \/ \E c \in OptionContract : Quote(c)
    \/ MoveWindow \/ NextDay \/ Halt

OptionsSpec == OptionsInit /\ [][OptionsNext]_optionVars

-----------------------------------------------------------------------------
\* Properties.

\* On each of its last days a contract that is held was offered for sale, or
\* a pass of that day met what keeps it from selling: no bid, the emergency
\* stop, a quote of its own or of its underlying that could not be read, or
\* an error that ended the pass (which the ask of an earlier day at the same
\* bid also is). No contract is held through its last days because the pass
\* did not come to it or saw nothing to do: buying stops before they begin, so
\* none comes into them behind the pass's list, and what keeps one contract
\* from selling keeps no other, unless it ends the pass.
LastDaysAreOffered ==
    window = "after" =>
        \A c \in OptionContract :
            lots[c] > 0 /\ Dte(c) <= MaxDte => c \in offered \cup excused \cup unread
=============================================================================
