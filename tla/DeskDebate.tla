----------------------------- MODULE DeskDebate ------------------------------
(***************************************************************************)
(* The desk's debate over a trade candidate (robinhood_tools/agents.py):   *)
(* opinions go into the candidate tables one transaction at a time, a rule *)
(* judges them, and a candidate with a proposal goes to the risk engine.   *)
(* The TradingAgents session (scripts/tradingagents_paper_auto.py) turns a *)
(* model's decision into such a debate and trades only if the desk agrees. *)
(*                                                                         *)
(* Three programs write candidates of their own into the same tables, with *)
(* one opinion and no judge, and approve them once their order is taken:   *)
(* the overnight pilot, the options pilot and the session's option leg.    *)
(*                                                                         *)
(* Updates of a candidate name its ID and ask for nothing else; what keeps *)
(* two analyses apart is that the ID is inserted once. The texts that ride *)
(* as evidence are left out, and the risk engine is EntryRules'.           *)
(***************************************************************************)
EXTENDS Integers, Sequences

CONSTANTS
    Analyst,      \* processes that analyse
    Candidate,    \* candidate IDs
    HostInput     \* debates a host supplies, some with a risk proposal

Side == {"buy", "sell"}
Agent == {"market", "news", "macro", "bull", "bear", "red"}

\* Who a candidate's payload says it comes from: the desk or a program.
Program == {"overnight-rule", "options-scout", "options-auto"}
Source == {"desk"} \cup Program

\* MarketView, NewsView, MacroView and DebateOpinion: what the judge and the
\* tables read of them.
View == [verdict : STRING, confidence : 0 .. 100]

Signal == {"buy", "overweight", "hold", "underweight", "sell"}

ASSUME DebateAssumption ==
    \A i \in HostInput :
        /\ i.side \in Side /\ i.proposal \in BOOLEAN /\ i.signal = "none"
        /\ DOMAIN i.views \subseteq Agent
        /\ \A a \in DOMAIN i.views : i.views[a] \in View

VARIABLES
    board,    \* trade_candidates, agent_opinions and risk_decisions of a candidate
    analyst,  \* what a process is doing
    ordered   \* the candidates whose purchase the broker took

debateVars == <<board, analyst, ordered>>

Verdict == {"STRONG_CALL", "CALL", "NO_TRADE", "PUT", "STRONG_PUT"}

Blank ==
    [status |-> "none", source |-> "desk", side |-> "buy", proposal |-> FALSE,
     views |-> <<>>, judge |-> "none", risk |-> "none"]
Away == [pc |-> "idle"]

CandidateStatus == {"none", "discovered", "researching", "debating", "risk_review", "approved", "rejected"}

DebateTypeOK ==
    /\ \A c \in Candidate :
          /\ board[c].status \in CandidateStatus /\ board[c].source \in Source
          /\ board[c].side \in Side /\ board[c].proposal \in BOOLEAN
          /\ DOMAIN board[c].views \subseteq Agent \cup {"scout"}
          /\ board[c].judge \in Verdict \cup {"none"}
          /\ board[c].risk \in {"none", "approved", "rejected"}
    /\ \A s \in Analyst : analyst[s].pc \in {"idle", "write", "conclude", "risk", "settle", "trade",
                                             "opine", "review", "order", "approve"}
    /\ ordered \subseteq Candidate

DebateInit ==
    /\ board = [c \in Candidate |-> Blank]
    /\ analyst = [s \in Analyst |-> Away]
    /\ ordered = {}

-----------------------------------------------------------------------------
\* The judge.

\* What an opinion adds: a bull and a bear by who speaks, a market and a news
\* view by their verdict.
Lean(views, a) ==
    LET up == a = "bull" \/ (a \in {"market", "news"} /\ views[a].verdict = "bullish")
        down == a = "bear" \/ (a \in {"market", "news"} /\ views[a].verdict = "bearish")
    IN  IF a \notin DOMAIN views THEN 0
        ELSE IF up THEN views[a].confidence ELSE IF down THEN - views[a].confidence ELSE 0

\* rule_judge; its confidence and summary follow from the same total.
RuleJudge(views) ==
    LET total == Lean(views, "market") + Lean(views, "news") + Lean(views, "bull") + Lean(views, "bear")
        stopped == "red" \in DOMAIN views /\ views["red"].confidence >= 70
    IN  CASE ~stopped /\ total >= 120 -> "STRONG_CALL"
          [] ~stopped /\ total >= 60 /\ total < 120 -> "CALL"
          [] ~stopped /\ total <= -120 -> "STRONG_PUT"
          [] ~stopped /\ total <= -60 /\ total > -120 -> "PUT"
          [] OTHER -> "NO_TRADE"

Wanted(side) == IF side = "buy" THEN {"CALL", "STRONG_CALL"} ELSE {"PUT", "STRONG_PUT"}

-----------------------------------------------------------------------------
\* A session's debate, made of one model's decision.

SignalConfidence(sig) ==
    CASE sig \in {"buy", "sell"} -> 75
      [] sig \in {"overweight", "underweight"} -> 65
      [] OTHER -> 50

Direction(sig) ==
    CASE sig \in {"buy", "overweight"} -> "bullish"
      [] sig \in {"sell", "underweight"} -> "bearish"
      [] OTHER -> "neutral"

\* desk_input_from_signal: the other side's opinion is a made-up counterweight.
SignalInput(sig) ==
    LET conf == SignalConfidence(sig)
        counter == IF 110 - conf > 30 THEN 110 - conf ELSE 30
        up == Direction(sig) = "bullish"
        bull == IF Direction(sig) = "neutral" THEN 45 ELSE IF up THEN conf ELSE counter
        bear == IF Direction(sig) = "neutral" THEN 45 ELSE IF up THEN counter ELSE conf
    IN  [side |-> IF Direction(sig) = "bearish" THEN "sell" ELSE "buy", proposal |-> FALSE, signal |-> sig,
         views |-> [market |-> [verdict |-> Direction(sig), confidence |-> conf],
                    bull |-> [verdict |-> "bullish", confidence |-> bull],
                    bear |-> [verdict |-> "bearish", confidence |-> bear],
                    red |-> [verdict |-> "challenge", confidence |-> 35]]]

DeskInput == HostInput \cup {SignalInput(sig) : sig \in Signal}

-----------------------------------------------------------------------------
\* run_desk_analysis, one transaction a step.

\* What is written after the candidate itself; absent opinions are skipped.
Script == <<"researching", "market", "news", "macro", "debating", "bull", "bear", "red", "judge">>

Lines(input) == {k \in 1 .. 9 : Script[k] \in Agent => Script[k] \in DOMAIN input.views}

NewRow(source, side, proposal) ==
    [status |-> "discovered", source |-> source, side |-> side, proposal |-> proposal,
     views |-> <<>>, judge |-> "none", risk |-> "none"]

\* An analysis with that much left to write.
Writing(c, input, left) ==
    [pc |-> IF left = {} THEN "conclude" ELSE "write", on |-> c, input |-> input, todo |-> left]

\* record_candidate; an ID that is there is refused, which ends the analysis.
Discover(s, c, input) ==
    /\ analyst[s].pc = "idle"
    /\ board[c].status = "none"
    /\ board' = [board EXCEPT ![c] = NewRow("desk", input.side, input.proposal)]
    /\ analyst' = [analyst EXCEPT ![s] = Writing(c, input, Lines(input))]
    /\ UNCHANGED ordered

WithView(views, agent, view) ==
    [a \in DOMAIN views \cup {agent} |-> IF a = agent THEN view ELSE views[a]]

\* update_candidate_status, record_opinion.
Recording(row, item, input) ==
    CASE item \in Agent -> [row EXCEPT !.views = WithView(@, item, input.views[item])]
      [] item = "judge" -> [row EXCEPT !.judge = RuleJudge(input.views)]
      [] OTHER -> [row EXCEPT !.status = item]

Write(s) ==
    /\ analyst[s].pc = "write"
    /\ \E k \in analyst[s].todo :
          LET me == analyst[s]
          IN  /\ \A j \in me.todo : k <= j
              /\ board' = [board EXCEPT ![me.on] = Recording(@, Script[k], me.input)]
              /\ analyst' = [analyst EXCEPT ![s] = Writing(me.on, me.input, me.todo \ {k})]
    /\ UNCHANGED ordered

\* A session goes on to trade if the outcome is the advice its signal asks for.
Answered(s, agreed) ==
    LET me == analyst[s]
    IN  analyst' = [analyst EXCEPT ![s] =
            IF agreed /\ me.input.signal # "none" THEN [pc |-> "trade", on |-> me.on, signal |-> me.input.signal] ELSE Away]

Conclude(s) ==
    /\ analyst[s].pc = "conclude"
    /\ LET me == analyst[s]
           sideOk == RuleJudge(me.input.views) \in Wanted(me.input.side)
           next == IF ~sideOk THEN "rejected" ELSE IF me.input.proposal THEN "risk_review" ELSE "approved"
       IN  /\ board' = [board EXCEPT ![me.on].status = next]
           /\ IF next = "risk_review" THEN analyst' = [analyst EXCEPT ![s].pc = "risk"]
              ELSE Answered(s, next = "approved")
    /\ UNCHANGED ordered

\* record_risk_decision of what the engine says.
CheckRisk(s) ==
    /\ analyst[s].pc = "risk"
    /\ \E says \in {"approved", "rejected"} : board' = [board EXCEPT ![analyst[s].on].risk = says]
    /\ analyst' = [analyst EXCEPT ![s].pc = "settle"]
    /\ UNCHANGED ordered

Settle(s) ==
    /\ analyst[s].pc = "settle"
    /\ board' = [board EXCEPT ![analyst[s].on].status = board[analyst[s].on].risk]
    /\ analyst' = [analyst EXCEPT ![s] = Away]
    /\ UNCHANGED ordered

Debating(s) == analyst[s].pc \in {"write", "conclude", "risk", "settle"}

\* bug: the session trades although the debate could not be recorded
BreaksOpen(s) == Debating(s) /\ Answered(s, TRUE) /\ UNCHANGED <<board, ordered>>

\* A database call raises or the process dies: a session takes it as a no.
BreaksOff(s) == Debating(s) /\ Answered(s, FALSE) /\ UNCHANGED <<board, ordered>>

NextTicker(s) ==
    /\ analyst[s].pc = "trade"
    /\ analyst' = [analyst EXCEPT ![s] = Away] /\ UNCHANGED <<board, ordered>>

-----------------------------------------------------------------------------
\* The programs that ask no desk, one transaction a step.

\* A purchase is proposed: by the overnight pilot because a close is above
\* its average, by the options pilot in the direction its caller names, and by
\* a session that trades options in the direction of its signal.
MayPropose(s, source, verdict) ==
    \/ analyst[s].pc = "idle" /\ source = "overnight-rule" /\ verdict = "bullish"
    \/ analyst[s].pc = "idle" /\ source = "options-scout" /\ verdict \in {"call", "put"}
    \/ /\ analyst[s].pc = "trade" /\ source = "options-auto"
       /\ verdict = Direction(analyst[s].signal)

Propose(s, c, source, verdict) ==
    /\ MayPropose(s, source, verdict)
    /\ board[c].status = "none"
    /\ board' = [board EXCEPT ![c] = NewRow(source, "buy", FALSE)]
    /\ analyst' = [analyst EXCEPT ![s] = [pc |-> "opine", on |-> c, source |-> source, verdict |-> verdict]]
    /\ UNCHANGED ordered

\* The one opinion of a program's candidate.
Speaker(source) == IF source = "overnight-rule" THEN "market" ELSE "scout"
OwnView(me) == [verdict |-> me.verdict, confidence |-> IF me.source = "overnight-rule" THEN 60 ELSE 65]

Opine(s) ==
    /\ analyst[s].pc = "opine"
    /\ LET me == analyst[s]
       IN  /\ board' = [board EXCEPT ![me.on].views = WithView(@, Speaker(me.source), OwnView(me))]
           /\ analyst' = [analyst EXCEPT ![s].pc = IF me.source = "overnight-rule" THEN "order" ELSE "review"]
    /\ UNCHANGED ordered

\* The options programs write risk_review; nobody writes a risk decision.
ToReview(s) ==
    /\ analyst[s].pc = "review"
    /\ board' = [board EXCEPT ![analyst[s].on].status = "risk_review"]
    /\ analyst' = [analyst EXCEPT ![s].pc = "order"]
    /\ UNCHANGED ordered

\* place_signal_order, place_long_option: the broker takes the purchase, and
\* its answer arrives or is lost, which ends the program or its ticker.
Order(s) ==
    /\ analyst[s].pc = "order"
    /\ ordered' = ordered \cup {analyst[s].on}
    /\ \/ analyst' = [analyst EXCEPT ![s].pc = "approve"]
       \/ analyst' = [analyst EXCEPT ![s] = Away]
    /\ UNCHANGED board

MarkApproved(s) ==
    /\ analyst[s].pc = "approve"
    /\ board' = [board EXCEPT ![analyst[s].on].status = "approved"]
    /\ analyst' = [analyst EXCEPT ![s] = Away]
    /\ UNCHANGED ordered

\* A dry run, a refusal by a gate, an error or the process' death.
GivesUp(s) ==
    /\ analyst[s].pc \in {"opine", "review", "order", "approve"}
    /\ analyst' = [analyst EXCEPT ![s] = Away] /\ UNCHANGED <<board, ordered>>

ProgramNext(s) ==
    \/ \E c \in Candidate, source \in Program, verdict \in {"bullish", "bearish", "call", "put"} :
          Propose(s, c, source, verdict)
    \/ Opine(s) \/ ToReview(s) \/ Order(s) \/ MarkApproved(s) \/ GivesUp(s)

DebateNext ==
    \E s \in Analyst :
        \/ \E c \in Candidate, input \in DeskInput : Discover(s, c, input)
        \/ Write(s) \/ Conclude(s) \/ CheckRisk(s) \/ Settle(s) \/ BreaksOff(s) \/ NextTicker(s)
        \/ ProgramNext(s)

DebateSpec == DebateInit /\ [][DebateNext]_debateVars

-----------------------------------------------------------------------------
\* Properties.

\* The verdicts that back a contract bought in a direction.
Backing(direction) == Wanted(IF direction = "bearish" THEN "sell" ELSE "buy")

(* The tables tell how a candidate was decided, wherever a process broke off *)
(* and whoever else writes. The judge's verdict is what the rule says of the *)
(* opinions on record. A candidate of the desk that is approved has the      *)
(* verdict of its side (so no red flag of 70 is on record), and one with a   *)
(* proposal the engine's approval. A candidate of a program has no verdict:  *)
(* approved, it has the program's opinion on record and its order at the     *)
(* broker. A session trades only on a debate that is on record to its end,   *)
(* with a verdict on the side of its signal; so an option leg's candidate    *)
(* always has such a debate of the desk beside it.                           *)
VerdictsAreOnRecord ==
    /\ \A c \in Candidate :
          LET row == board[c]
              decided == row.status = "approved"
          IN  /\ row.judge # "none" => RuleJudge(row.views) = row.judge
              /\ decided /\ row.source = "desk" =>
                    row.judge \in Wanted(row.side) /\ (row.proposal => row.risk = "approved")
              /\ decided /\ row.source # "desk" => Speaker(row.source) \in DOMAIN row.views /\ c \in ordered
              /\ row.source = "options-auto" /\ "scout" \in DOMAIN row.views =>
                    \E d \in Candidate :
                        /\ board[d].source = "desk" /\ board[d].status = "approved"
                        /\ board[d].judge \in Backing(row.views["scout"].verdict)
    /\ \A s \in Analyst : analyst[s].pc = "trade" =>
          /\ board[analyst[s].on].source = "desk" /\ board[analyst[s].on].status = "approved"
          /\ board[analyst[s].on].judge \in Backing(Direction(analyst[s].signal))
=============================================================================
