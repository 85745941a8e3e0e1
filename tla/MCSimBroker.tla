---------------------------- MODULE MCSimBroker -----------------------------
(***************************************************************************)
(* SimBroker, DeskOptions, EntryRules and DeskDebate on small instances.   *)
(*                                                                         *)
(* SimBroker: one share and one contract, three review IDs, and requests   *)
(* of every kind the code tells apart; three orders are two bracketed      *)
(* entries and the sale that takes the cover of one of them.               *)
(* DeskOptions: two contracts that expire a day apart, so that an error at *)
(* the first keeps the pass from the second, and two buyers.               *)
(* EntryRules: one good purchase through the executor and one through the  *)
(* workflow, judged by two sessions; and every proposal that is off in one *)
(* field, judged by one.                                                   *)
(* DeskDebate: two processes on two candidates, every debate of a signal,   *)
(* hosts' debates on both sides of the red flag, and every program that    *)
(* writes a candidate of its own.                                          *)
(*                                                                         *)
(* The components share no state, so a behaviour follows one of them and   *)
(* the states of the run add up: side says which.                          *)
(***************************************************************************)
EXTENDS SimBroker, DeskOptions, EntryRules, DeskDebate

CONSTANTS share, call, near, far, t1, t2, x1, x2

VARIABLE side

allVars == <<vars, optionVars, ruleVars, debateVars, side>>

MCExpiry == [c \in {call} |-> 1]
MCMark == {2, 4, 6}
MCDayRange == [s \in {share} |-> {2, 5}]

MCOptionQuote ==
    {[bid |-> 0, ask |-> 2, intrinsic |-> 0], [bid |-> 3, ask |-> 3, intrinsic |-> 2]}

MCAsk(on, way, lot, limit, target, stop) ==
    [on |-> on, side |-> way, lots |-> lot, limit |-> limit, target |-> target, stop |-> stop]

\* A bracketed entry, a market order of nothing (notional), a sale, and a
\* contract bought and sold.
MCRequest ==
    { MCAsk(share, "buy", 1, 4, 6, 3),
      MCAsk(share, "buy", 0, NoPrice, NoPrice, NoPrice),
      MCAsk(share, "sell", 1, 4, NoPrice, NoPrice),
      MCAsk(call, "buy", 1, 2, NoPrice, NoPrice),
      MCAsk(call, "sell", 1, 3, NoPrice, NoPrice) }

Symmetry == Permutations(Review)

MCChain == <<near, far>>
MCExpires == [c \in {near, far} |-> IF c = near THEN 1 ELSE 2]

MCHurdle == [risk_on |-> 90, neutral |-> 93, risk_off |-> 97]

MCGood ==
    [on |-> t1, value |-> 2, side |-> "buy", asks |-> FALSE, mode |-> "paper", session |-> "inside",
     member |-> "constituent", earnings |-> {6}, news |-> FALSE, quality |-> "full", regime |-> "neutral",
     score |-> 93, spread |-> "tight", illiquid |-> FALSE, form |-> "limit", day |-> TRUE,
     price |-> "intended", confidence |-> {75}, chart |-> "supportive", signal |-> "none",
     analysis |-> "none", panic |-> "no", snapshot |-> "sound", bracket |-> "sound"]

MCAsking == [MCGood EXCEPT !.asks = TRUE, !.on = t2]

Off(f, values) == {[MCGood EXCEPT ![f] = v] : v \in values}

OffInOne ==
    UNION { Off("value", {1, 3}), Off("side", {"sell"}), Off("mode", {"paper, live switch on", "research"}),
            Off("session", {"outside"}), Off("member", {"index fund", "none", "stale"}),
            Off("earnings", {{}, {-1}, {0}, {5}}), Off("news", {TRUE}), Off("quality", {"partial"}),
            Off("regime", {"risk_on", "risk_off", "unknown"}), Off("score", {92}),
            Off("spread", {"none", "wide"}), Off("illiquid", {TRUE}), Off("form", {"market"}),
            Off("day", {FALSE}), Off("price", {"none", "chased"}), Off("confidence", {{}, {74}}),
            Off("chart", {"other"}), Off("signal", {"conflicting"}), Off("analysis", {"neutral", "inconsistent"}),
            Off("panic", {"confirmed", "unconfirmed"}), Off("snapshot", {"stale"}),
            Off("bracket", {"none", "unsound"}) }

MCProposal == [t \in {x1, x2} |-> IF t = x1 THEN {MCGood, MCAsking} \cup OffInOne ELSE {MCGood, MCAsking}]

\* Debates of a host: a strong case, one the red team stops, a weak one and a
\* sale, with a proposal and without.
MCViews(market, bull, bear, red) ==
    "market" :> [verdict |-> market, confidence |-> 80] @@ "macro" :> [verdict |-> "CHOP", confidence |-> 60] @@
    "bull" :> [verdict |-> "bullish", confidence |-> bull] @@ "bear" :> [verdict |-> "bearish", confidence |-> bear] @@
    "red" :> [verdict |-> "challenge", confidence |-> red]

MCHostInput ==
    [side : Side, proposal : {TRUE}, signal : {"none"},
     views : {MCViews("bullish", 80, 30, 69), MCViews("bullish", 80, 30, 70), MCViews("bearish", 30, 75, 10),
              "news" :> [verdict |-> "bullish", confidence |-> 59]}]

MCTypeOK == TypeOK /\ OptionsTypeOK /\ RulesTypeOK /\ DebateTypeOK

MCInit ==
    /\ Init /\ OptionsInit /\ RulesInit /\ DebateInit
    /\ side \in {"simulator", "options", "limits", "rules", "debate"}
    /\ side # "options" => bid = [c \in OptionContract |-> 0]
    /\ side # "simulator" => quote[share] = Marked(2) /\ quote[call].bid = 0

MCNext ==
    /\ \/ side = "simulator" /\ Next /\ UNCHANGED <<optionVars, ruleVars, debateVars>>
       \/ side = "options" /\ OptionsNext /\ UNCHANGED <<vars, ruleVars, debateVars>>
       \/ /\ side = "limits" /\ RulesNext /\ UNCHANGED <<vars, optionVars, debateVars>>
          /\ \A t \in Trader : trader'[t].pc = "judge" => trader'[t].proposal \in {MCGood, MCAsking}
       \/ /\ side = "rules" /\ RulesNext /\ UNCHANGED <<vars, optionVars, debateVars>>
          /\ UNCHANGED trader[x2]
       \/ side = "debate" /\ DebateNext /\ UNCHANGED <<vars, optionVars, ruleVars>>
    /\ UNCHANGED side

MCSpec == MCInit /\ [][MCNext]_allVars
=============================================================================
