----------------------------- MODULE EntryRules -----------------------------
(***************************************************************************)
(* The rules a purchase passes before an authorization is written: those   *)
(* of PaperAutoExecutor.execute_purchase, those of TradeWorkflow's          *)
(* prepare_purchase, which share RiskLimits.validate_purchase, and those of *)
(* the RiskEngine that says it mirrors them.                               *)
(*                                                                         *)
(* The portfolio is an argument: the caller reads it, and the rules are     *)
(* evaluated over what it read while other sessions write theirs. The       *)
(* reading is external (no code of the package builds a PortfolioState      *)
(* from the ledger); here it is a faithful one, of the moment it is made.   *)
(*                                                                         *)
(* A proposal is what the rules tell apart: each field is a value good      *)
(* enough, or one of the ways it is not.                                    *)
(***************************************************************************)
EXTENDS Integers, FiniteSets, Bags, FiniteSetsExt

CONSTANTS
    Trader,       \* sessions that buy
    Ticker,       \* shares, all of one sector
    Proposal,     \* what each session may propose
    StartingCash,
    MaxOrder, MaxExposure, MaxDaily, MaxPending, MaxOpen,
    MinCash,      \* minimum cash reserve, in dollars
    Blackout,     \* earnings_blackout_days
    Hurdle,       \* entry_minimum_scores: the least score by regime
    MinConfidence,
    MaxRows       \* bound: authorizations

ASSUME RulesAssumption ==
    /\ {StartingCash, MaxOrder, MaxExposure, MaxDaily, MaxPending, MaxOpen, MinCash, Blackout, MaxRows} \subseteq Nat
    /\ DOMAIN Hurdle = {"risk_on", "neutral", "risk_off"}
    /\ IsFiniteSet(Trader) /\ Trader # {}
    /\ \A t \in Trader : \A p \in Proposal[t] :
          p.on \in Ticker /\ p.value \in Nat \ {0} /\ p.spread \in {"tight", "none", "wide"}

VARIABLES
    trader,     \* a session: its proposal and the portfolio it read
    ledger,     \* authorizations of the day, rejected ones removed: a bag of rows
    owned,      \* dollars held of a share
    stopped,    \* system_controls: emergency_kill
    cool        \* shares in cooldown

ruleVars == <<trader, ledger, owned, stopped, cool>>

RowStatus == {"pending", "approved", "placed", "filled", "ended"}

\* The authorizations on the ledger, and how many there are.
Rows(status) == {a \in BagToSet(ledger) : a.status \in status}
Count(status) == MapThenSumSet(LAMBDA a : ledger[a], Rows(status))

RulesTypeOK ==
    /\ \A t \in Trader : trader[t].pc \in {"free", "judge", "approve", "place"}
    /\ IsABag(ledger) /\ BagToSet(ledger) \subseteq [on : Ticker, value : Nat, status : RowStatus]
    /\ Count(RowStatus) <= MaxRows
    /\ owned \in [Ticker -> Nat] /\ stopped \in BOOLEAN /\ cool \subseteq Ticker

RulesInit ==
    /\ trader = [t \in Trader |-> [pc |-> "free"]]
    /\ ledger = EmptyBag /\ owned = [t \in Ticker |-> 0]
    /\ stopped = FALSE /\ cool = {}

-----------------------------------------------------------------------------
\* The portfolio a caller hands over.

Dollars(status) == MapThenSumSet(LAMBDA a : a.value * ledger[a], Rows(status))
Authorized == RowStatus \ {"pending"}

Portfolio ==
    [settled |-> StartingCash - Dollars({"placed", "filled"}),
     pending |-> Count({"pending"}),
     approved |-> Dollars(Authorized),
     owned |-> owned,
     open |-> Cardinality({t \in Ticker : owned[t] > 0})]

-----------------------------------------------------------------------------
\* Rules shared by the paths.

WithinLimitsOrOne(pf, p) ==   \* bug: one pending approval more than the limit
    /\ p.value <= MaxOrder /\ pf.owned[p.on] + p.value <= MaxExposure
    /\ pf.open < MaxOpen \/ pf.owned[p.on] > 0
    /\ pf.settled - p.value >= MinCash
    /\ pf.approved + p.value <= MaxDaily
    /\ pf.pending <= MaxPending
    /\ ~p.illiquid

\* RiskLimits.validate_purchase over the portfolio's settled cash less its
\* commitments. A weight is a dollar limit over one equity, and the losses
\* of day and week are left out.
WithinLimits(pf, p) ==
    /\ p.value <= MaxOrder /\ pf.owned[p.on] + p.value <= MaxExposure
    /\ pf.open < MaxOpen \/ pf.owned[p.on] > 0
    /\ pf.settled - p.value >= MinCash
    /\ pf.approved + p.value <= MaxDaily
    /\ pf.pending < MaxPending
    /\ ~p.illiquid

NotStopped(p) == ~stopped /\ p.on \notin cool

\* A date is required; days in the past are clear. The days are calendar
\* days, although the setting's name counts trading days.
EarningsClear(p) == \E d \in p.earnings : d < 0 \/ d > Blackout

ClearsHurdle(p) == p.regime \in DOMAIN Hurdle /\ p.score >= Hurdle[p.regime]

LimitRequest(p) == p.form = "limit" /\ p.day /\ p.price # "none"

\* validate_equity_order_request: a price where the form needs one, and a
\* bracket with both legs, around the limit, on a limit purchase of whole shares.
ValidOrder(p) ==
    /\ p.form = "limit" => p.price # "none"
    /\ p.bracket # "none" => p.bracket = "sound" /\ p.side = "buy" /\ p.form = "limit"

\* A constituent by a list that is a day old at most; an index fund of the
\* owner's own list is eligible too.
Constituent(p) == p.member = "constituent"
EligiblePurchase(p) == Constituent(p) \/ p.member = "index fund"

\* DataQuality.require_complete: all six kinds of evidence are there.
CompleteData(p) == p.quality = "full"

\* MarketSnapshot.validate and TradeCandidate.validate but for the score.
SoundCandidate(p) == p.snapshot = "sound" /\ CompleteData(p) /\ p.spread = "tight"

\* A structured analysis is of this share, and its words do not contradict
\* the signal it states.
AnalysisHolds(p) == p.analysis # "inconsistent"

\* The context's own signals: chart, TradingView (stated, and its structured
\* analysis), and what a panic-sell entry needs.
ContextHolds(p) ==
    /\ p.chart = "supportive"
    /\ AnalysisHolds(p)
    /\ p.analysis # "none" => p.signal \in {"none", p.analysis}
    /\ "conflicting" \notin {p.signal, p.analysis}
    /\ ~p.news
    /\ p.panic # "unconfirmed"

\* require_paper_execution and the environment of the service.
PaperMode(p) == p.mode \in {"paper", "paper, live switch on"}

InSession(p) == p.session = "inside"

\* execute_purchase before the review, and the review's own rule.
ExecutorAccepts(p, pf) ==
    /\ PaperMode(p) /\ InSession(p) /\ NotStopped(p)
    /\ p.side = "buy" /\ LimitRequest(p) /\ p.price = "intended"
    /\ ContextHolds(p)
    /\ EarningsClear(p)
    /\ SoundCandidate(p) /\ ClearsHurdle(p)
    /\ WithinLimits(pf, p)
    /\ ValidOrder(p) /\ EligiblePurchase(p)

\* prepare_purchase: no earnings rule, no hurdle by regime, no session.
WorkflowAccepts(p, pf) ==
    /\ NotStopped(p)
    /\ p.side = "buy"
    /\ SoundCandidate(p) /\ p.score >= Hurdle["risk_on"]
    /\ WithinLimits(pf, p)
    /\ ValidOrder(p) /\ EligiblePurchase(p)

Passes(p, pf) == IF p.asks THEN WorkflowAccepts(p, pf) ELSE ExecutorAccepts(p, pf)

-----------------------------------------------------------------------------
\* RiskEngine.check: every rule is evaluated, and one that raises anything
\* fails. A sale skips the rules of purchases.

EngineShapeAnyPrice(p) == LimitRequest(p)   \* bug: a limit above the reviewed price passes

EngineShape(p) == LimitRequest(p) /\ (p.side = "buy" => p.price = "intended")

EngineRules(p, pf) ==
    LET buys(rule) == p.side = "buy" => rule
    IN  [mode       |-> p.mode = "paper",
         session    |-> InSession(p),
         universe   |-> buys(Constituent(p)),
         earnings   |-> buys(EarningsClear(p)),
         news       |-> ~p.news,
         quality    |-> buys(CompleteData(p)),
         regime     |-> buys(ClearsHurdle(p)),
         sizing     |-> buys(p.spread # "wide" /\ WithinLimits(pf, p)),
         shape      |-> EngineShape(p),
         confidence |-> buys(\E c \in p.confidence : c >= MinConfidence),
         state      |-> NotStopped(p)]

EngineApproves(p, pf) == \A rule \in DOMAIN EngineRules(p, pf) : EngineRules(p, pf)[rule]

-----------------------------------------------------------------------------
\* The sessions, the people and the broker.

Judging(t) == trader[t].pc = "judge"

Read(t) ==
    /\ trader[t].pc = "free"
    /\ \E p \in Proposal[t] : trader' = [trader EXCEPT ![t] = [pc |-> "judge", proposal |-> p, pf |-> Portfolio]]
    /\ UNCHANGED <<ledger, owned, stopped, cool>>

Row(p, status) == [on |-> p.on, value |-> p.value, status |-> status]

\* The rules hold of what was read; the row is written now. The executor
\* approves its own row, the workflow leaves it to a person.
Judge(t) ==
    /\ Judging(t)
    /\ LET p == trader[t].proposal
       IN  \/ /\ ~Passes(p, trader[t].pf)
              /\ trader' = [trader EXCEPT ![t] = [pc |-> "free"]] /\ UNCHANGED ledger
           \/ /\ Passes(p, trader[t].pf) /\ Count(RowStatus) < MaxRows
              /\ ledger' = ledger (+) SetToBag({Row(p, "pending")})
              /\ trader' = [trader EXCEPT ![t] =
                    IF p.asks THEN [pc |-> "free"] ELSE [pc |-> "approve", row |-> Row(p, "pending")]]
    /\ UNCHANGED <<owned, stopped, cool>>

Without(row) == ledger (-) SetToBag({row})
To(row, status) == Without(row) (+) SetToBag({[row EXCEPT !.status = status]})

Approve(t) ==
    /\ trader[t].pc = "approve"
    /\ ledger' = To(trader[t].row, "approved")
    /\ trader' = [trader EXCEPT ![t] = [pc |-> "place", row |-> [trader[t].row EXCEPT !.status = "approved"]]]
    /\ UNCHANGED <<owned, stopped, cool>>

\* The order is placed, or the attempt fails and the row stays.
Place(t) ==
    /\ trader[t].pc = "place"
    /\ ledger' \in {ledger, To(trader[t].row, "placed")}
    /\ trader' = [trader EXCEPT ![t] = [pc |-> "free"]]
    /\ UNCHANGED <<owned, stopped, cool>>

InHand(row) == Cardinality({t \in Trader : trader[t].pc \in {"approve", "place"} /\ trader[t].row = row})

\* A person approves, rejects or places what the workflow wrote; no rule of
\* this module is evaluated again.
PersonDecides ==
    /\ \E a \in BagToSet(ledger) : ledger[a] > InHand(a) /\
          \/ a.status = "pending" /\ ledger' \in {To(a, "approved"), Without(a)}
          \/ a.status = "approved" /\ ~stopped /\ ledger' = To(a, "placed")
    /\ UNCHANGED <<trader, owned, stopped, cool>>

OrderResolves ==
    /\ \E a \in Rows({"placed"}) :
          \/ ledger' = To(a, "filled") /\ owned' = [owned EXCEPT ![a.on] = @ + a.value]
          \/ ledger' = To(a, "ended") /\ UNCHANGED owned
    /\ UNCHANGED <<trader, stopped, cool>>

Stop == ~stopped /\ stopped' = TRUE /\ UNCHANGED <<trader, ledger, owned, cool>>

Cool(t) == t \notin cool /\ cool' = cool \cup {t} /\ UNCHANGED <<trader, ledger, owned, stopped>>

RulesNext ==
    \/ \E t \in Trader : Read(t) \/ Judge(t) \/ Approve(t) \/ Place(t)
    \/ PersonDecides \/ OrderResolves \/ Stop
    \/ \E t \in Ticker : Cool(t)

RulesSpec == RulesInit /\ [][RulesNext]_ruleVars

-----------------------------------------------------------------------------
\* Properties.

\* The limits are checked over a portfolio somebody read earlier and the row
\* is written without looking again, so each session but one may go past
\* them by the one purchase it had in hand, and the capital limit also by
\* what was pending, which it does not count and nobody checks again.
LimitsHoldUpToSessions ==
    /\ Count({"pending"}) < MaxPending + Cardinality(Trader)
    /\ Dollars(Authorized) <= MaxDaily + (MaxPending + Cardinality(Trader) - 1) * MaxOrder

\* "mirrors live-path flag semantics": what the engine approves passes the
\* executor, given what the engine has no field for (chart, TradingView and
\* panic evidence, a sound snapshot, a bracket) and a known spread, which the executor
\* requires and the engine does without.
EngineIsStricter ==
    \A t \in Trader : Judging(t) =>
        LET p == trader[t].proposal
            pf == trader[t].pf
        IN  EngineApproves(p, pf) /\ p.side = "buy" /\ p.spread # "none" /\ p.snapshot = "sound"
              /\ ValidOrder(p) /\ ContextHolds(p)
                => ExecutorAccepts(p, pf)
=============================================================================
