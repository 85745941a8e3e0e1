----------------------------- MODULE SimBroker ------------------------------
(***************************************************************************)
(* SimulationBroker: the account a simulation season trades against.  One   *)
(* Python object, called by one program at a time: every method is a step,  *)
(* and what is hard is what a long sequence of calls adds up to, and what a *)
(* method leaves behind when it raises half-way.                            *)
(*                                                                          *)
(* Prices are counted in ticks and money in ticks divided by Scale, so that *)
(* a slippage of Slip / Scale of a price is a whole amount of money.  The   *)
(* method that raises before it wrote anything is no step; neither is the   *)
(* resubmission that returns the order it finds.                            *)
(***************************************************************************)
EXTENDS Integers, SequencesExt

CONSTANTS
    Symbol,       \* shares
    Contract,     \* long options
    Expiry,       \* the day a contract expires
    Review,       \* review IDs
    Request,      \* the orders that are asked for
    NoRequest,    \* a review ID that was not handed out
    Mark,         \* prices of a share
    OptionQuote,  \* quotes of a contract: bid, ask and intrinsic value
    DayRange,     \* the prices of the day, per share, or none; fills outside are refused
    StartCash, Scale, Slip, ShareFee, ContractFee, Multiplier,
    MaxStray      \* bound: how often the model lets an exit be refused

Instrument == Symbol \cup Contract

NoPrice == 0

ASSUME MoneyAssumption ==
    /\ {StartCash, ShareFee, ContractFee, MaxStray} \subseteq Nat
    /\ {Scale, Multiplier} \subseteq Nat \ {0}
    /\ Slip \in 0 .. Scale

ASSUME MarketAssumption ==
    /\ Symbol \cap Contract = {}
    /\ Expiry \in [Contract -> Nat]
    /\ Mark \subseteq Nat \ {0}
    /\ OptionQuote \subseteq [bid : Nat, ask : Nat \ {0}, intrinsic : Nat]
    /\ \A quoted \in OptionQuote : quoted.bid <= quoted.ask
    /\ DayRange \in [Symbol -> SUBSET Nat]
    /\ IsFiniteSet(Contract)

\* What lets a request through policy.py: a limit for options, brackets only
\* around a limit buy of whole shares.  A notional order has no lots.
ASSUME RequestAssumption ==
    /\ Request \subseteq [on : Instrument, side : {"buy", "sell"}, lots : Nat,
                          limit : Nat, target : Nat, stop : Nat]
    /\ NoRequest \notin Request
    /\ \A q \in Request : q.on \in Contract => q.lots > 0 /\ q.limit > 0 /\ q.target = NoPrice
    /\ \A q \in Request : (q.target = NoPrice) = (q.stop = NoPrice)
    /\ \A q \in Request :
          q.target # NoPrice => q.side = "buy" /\ q.lots > 0 /\ q.stop < q.limit /\ q.limit < q.target

VARIABLES
    cash,
    held,      \* lots of each instrument
    quote,     \* bid, ask and intrinsic value; a share has its mark for all three
    reviewed,  \* the request a review ID stands for
    order,     \* the order placed under a review ID
    book,      \* the orders with a bracket, oldest first
    stray,     \* history: cash credited for exits that were then refused
    strays,    \* history: how many there were
    settled    \* history: lots and proceeds of settled contracts

vars == <<cash, held, quote, reviewed, order, book, stray, strays, settled>>
history == <<stray, strays, settled>>

Status == {"none", "queued", "filled", "cancelled"}

\* The bracket of an order: never attached, waiting, or the leg that was hit.
Bracket == {"none", "open", "stop", "target"}

Placed == [request : Request \cup {NoRequest}, status : Status, price : Nat, bracket : Bracket]

NotPlaced == [request |-> NoRequest, status |-> "none", price |-> 0, bracket |-> "none"]

Marked(price) == [bid |-> price, ask |-> price, intrinsic |-> price]

TypeOK ==
    /\ cash \in Int
    /\ held \in [Instrument -> Nat]
    /\ quote \in [Instrument -> [bid : Nat, ask : Nat, intrinsic : Nat]]
    /\ reviewed \in [Review -> Request \cup {NoRequest}]
    /\ order \in [Review -> Placed]
    /\ book \in Seq(Review)
    /\ stray \in Int
    /\ strays \in 0 .. MaxStray
    /\ settled \in [Contract -> [lots : Nat, proceeds : Nat]]

Init ==
    /\ cash = StartCash
    /\ held = [i \in Instrument |-> 0]
    /\ quote \in {q \in [Instrument -> {Marked(price) : price \in Mark} \cup OptionQuote] :
                     \A i \in Instrument : q[i] \in IF i \in Symbol THEN {Marked(p) : p \in Mark}
                                                                     ELSE OptionQuote}
    /\ reviewed = [r \in Review |-> NoRequest]
    /\ order = [r \in Review |-> NotPlaced]
    /\ book = <<>>
    /\ stray = 0
    /\ strays = 0
    /\ settled = [c \in Contract |-> [lots |-> 0, proceeds |-> 0]]

-----------------------------------------------------------------------------
\* What an order costs.

\* Money for the lots of a request at a price that is money already.
Size(q) == IF q.on \in Contract THEN q.lots * Multiplier ELSE q.lots

Fee(q) == q.lots * (IF q.on \in Contract THEN ContractFee ELSE ShareFee)

\* The market's side of the quote, moved by the slippage.
Touch(q) == IF q.side = "buy" THEN quote[q.on].ask * (Scale + Slip)
                              ELSE quote[q.on].bid * (Scale - Slip)

\* A limit order gets the limit or the touch; the sale of a contract is
\* filled at the touch whatever its limit.
FillPrice(q) ==
    IF q.limit = NoPrice \/ (q.on \in Contract /\ q.side = "sell") THEN Touch(q)
    ELSE IF q.side = "buy" THEN Min({q.limit * Scale, Touch(q)})
    ELSE Max({q.limit * Scale, Touch(q)})

\* A limit the market is not at rests, and nothing ever fills it later.
Rests(q) ==
    /\ q.limit # NoPrice
    /\ IF q.side = "buy" THEN q.limit < quote[q.on].ask ELSE q.limit > quote[q.on].bid

InRange(q) ==
    q.on \in Symbol /\ DayRange[q.on] # {} =>
        \E low, high \in DayRange[q.on] : low * Scale <= FillPrice(q) /\ FillPrice(q) <= high * Scale

NeverShort(q) == TRUE                   \* bug: the holding is not looked at

Covered(q) == held[q.on] >= q.lots

-----------------------------------------------------------------------------
\* Orders.

\* review_order: the ID is new, and stands for this request.
ReviewOrder(r, q) ==
    /\ reviewed[r] = NoRequest
    /\ order[r] = NotPlaced
    /\ reviewed' = [reviewed EXCEPT ![r] = q]
    /\ UNCHANGED <<cash, held, quote, order, book, history>>

\* place_order goes on for an ID that has no order yet and stands for this
\* request, or that this simulator does not know.
Accepts(r, q) ==
    /\ reviewed[r] \in {NoRequest, q}
    /\ order[r] = NotPlaced

Rest(r, q) ==
    /\ Accepts(r, q)
    /\ Rests(q)
    /\ q.on \in Contract /\ q.side = "sell" => Covered(q)
    /\ order' = [order EXCEPT ![r] = [request |-> q, status |-> "queued", price |-> 0, bracket |-> "none"]]
    /\ UNCHANGED <<cash, held, quote, reviewed, book, history>>

Filled(r, q) ==
    order' = [order EXCEPT ![r] =
        [request |-> q, status |-> "filled", price |-> FillPrice(q),
         bracket |-> IF q.target # NoPrice THEN "open" ELSE "none"]]

Buy(r, q) ==
    /\ Accepts(r, q)
    /\ q.side = "buy"
    /\ ~Rests(q)
    /\ InRange(q)
    /\ cash >= Size(q) * FillPrice(q) + Fee(q)
    /\ cash' = cash - (Size(q) * FillPrice(q) + Fee(q))
    /\ held' = [held EXCEPT ![q.on] = @ + q.lots]
    /\ Filled(r, q)
    /\ book' = IF q.target # NoPrice THEN Append(book, r) ELSE book
    /\ UNCHANGED <<quote, reviewed, history>>

Sell(r, q) ==
    /\ Accepts(r, q)
    /\ q.side = "sell"
    /\ ~Rests(q)
    /\ InRange(q)
    /\ Covered(q)
    /\ cash' = cash + Size(q) * FillPrice(q) - Fee(q)
    /\ held' = [held EXCEPT ![q.on] = @ - q.lots]
    /\ Filled(r, q)
    /\ UNCHANGED <<quote, reviewed, book, history>>

CancelOrder(r) ==
    /\ order[r].status = "queued"
    /\ order' = [order EXCEPT ![r].status = "cancelled"]
    /\ UNCHANGED <<cash, held, quote, reviewed, book, history>>

-----------------------------------------------------------------------------
\* Markets.

UpdateOptionQuotes(c, quoted) ==
    /\ quote' = [quote EXCEPT ![c] = quoted]
    /\ UNCHANGED <<cash, held, reviewed, order, book, history>>

\* The leg of a bracket that a mark touches; the stop comes first.
Leg(q, mark) ==
    IF mark <= q.stop THEN "stop" ELSE IF mark >= q.target THEN "target" ELSE "open"

LegPrice(q, leg) == IF leg = "stop" THEN q.stop ELSE q.target

\* The shares leave, and with them the bracket: the other leg is cancelled.
LeaveOpen(account, r, q, leg) ==        \* bug: the bracket's status is not written
    [account EXCEPT !.held[q.on] = @ - q.lots]

Leave(account, r, q, leg) ==
    [cash |-> account.cash, held |-> [account.held EXCEPT ![q.on] = @ - q.lots],
     exits |-> account.exits \cup {<<r, leg>>}, refused |-> account.refused, stray |-> account.stray]

\* What one turn of the loop of update_marks makes of the account: nothing
\* for a bracket that is closed or not touched, else an exit, whose proceeds
\* are credited before the holding is looked at.
Turn(account, r, mark) ==
    LET q == order[r].request
        leg == Leg(q, mark[q.on])
        proceeds == q.lots * LegPrice(q, leg) * Scale - Fee(q)
        short == account.held[q.on] < q.lots
        paid == [cash |-> account.cash + proceeds, held |-> account.held, exits |-> account.exits,
                 refused |-> short, stray |-> IF short THEN proceeds ELSE 0]
    IN  IF account.refused \/ order[r].bracket # "open" \/ leg = "open" THEN account
        ELSE IF short THEN paid ELSE Leave(paid, r, q, leg)

Unswept == [cash |-> cash, held |-> held, exits |-> {}, refused |-> FALSE, stray |-> 0]

SweepOne(mark) ==                       \* bug: one exit per call
    FoldLeft(LAMBDA account, r : IF account.exits # {} THEN account ELSE Turn(account, r, mark),
             Unswept, book)

\* The account after the brackets, oldest first; a refusal leaves the loop.
Sweep(mark) == FoldLeft(LAMBDA account, r : Turn(account, r, mark), Unswept, book)

UpdateMarks(mark) ==
    LET after == Sweep(mark)
    IN  /\ after.refused => strays < MaxStray
        /\ quote' = [i \in Instrument |-> IF i \in Symbol THEN Marked(mark[i]) ELSE quote[i]]
        /\ cash' = after.cash
        /\ held' = after.held
        /\ order' = [r \in Review |->
              IF \E leg \in Bracket : <<r, leg>> \in after.exits
              THEN [order[r] EXCEPT !.bracket = CHOOSE leg \in Bracket : <<r, leg>> \in after.exits]
              ELSE order[r]]
        /\ stray' = stray + after.stray
        /\ strays' = IF after.refused THEN strays + 1 ELSE strays
        /\ UNCHANGED <<reviewed, book, settled>>

\* settle_expired: every long contract that has expired by today is paid its
\* intrinsic value and dropped.
Due(today) == {c \in Contract : held[c] > 0 /\ Expiry[c] <= today}

Proceeds(c) == held[c] * quote[c].intrinsic * Multiplier * Scale

SettleExpired(today) ==
    /\ Due(today) # {}
    /\ cash' = cash + MapThenSumSet(Proceeds, Due(today))
    /\ held' = [i \in Instrument |-> IF i \in Due(today) THEN 0 ELSE held[i]]
    /\ settled' = [c \in Contract |->
          IF c \in Due(today)
          THEN [lots |-> settled[c].lots + held[c], proceeds |-> settled[c].proceeds + Proceeds(c)]
          ELSE settled[c]]
    /\ UNCHANGED <<quote, reviewed, order, book, stray, strays>>

Next ==
    \/ \E r \in Review, q \in Request :
          \/ ReviewOrder(r, q)
          \/ Rest(r, q)
          \/ Buy(r, q)
          \/ Sell(r, q)
    \/ \E r \in Review : CancelOrder(r)
    \/ \E c \in Contract, quoted \in OptionQuote : UpdateOptionQuotes(c, quoted)
    \/ \E mark \in [Symbol -> Mark] : UpdateMarks(mark)
    \/ \E today \in {Expiry[c] : c \in Contract} : SettleExpired(today)

Spec == Init /\ [][Next]_vars

-----------------------------------------------------------------------------
\* Properties.

Executed(side) == {r \in Review : order[r].status = "filled" /\ order[r].request.side = side}

Exited == {r \in Review : order[r].bracket \in {"stop", "target"}}

Worth(r) == Size(order[r].request) * order[r].price

Charge(r) == Fee(order[r].request)

ExitWorth(r) ==
    order[r].request.lots * LegPrice(order[r].request, order[r].bracket) * Scale

Settlement(c) == settled[c].proceeds

\* The cash is the starting cash, less every filled purchase, plus every
\* filled sale, every exit and every settlement, each once and with its fees:
\* no call, resubmission or refused call moves money that no record explains,
\* except the proceeds update_marks credits before it refuses an exit.
BooksBalance ==
    cash + MapThenSumSet(Worth, Executed("buy"))
         + MapThenSumSet(Charge, Executed("buy") \cup Executed("sell"))
         + MapThenSumSet(Charge, Exited)
      = StartCash + MapThenSumSet(Worth, Executed("sell"))
         + MapThenSumSet(ExitWorth, Exited)
         + MapThenSumSet(Settlement, Contract)
         + stray

Touched(r) ==
    /\ order[r].bracket = "open"
    /\ Leg(order[r].request, quote[order[r].request.on].bid) # "open"

\* When update_marks returns, no bracket the new marks touch is still open;
\* only a refused exit keeps younger ones waiting.
TouchedBracketsExit ==
    [][(\E s \in Symbol : quote'[s] # quote[s]) /\ strays' = strays
          => \A r \in Review : ~Touched(r)']_vars
=============================================================================
