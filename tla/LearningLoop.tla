---------------------------- MODULE LearningLoop ----------------------------
(***************************************************************************)
(* The learning checkpoints of a recommendation (table                      *)
(* learning_checkpoints) and the sessions that settle them into strategy    *)
(* observations (scripts/learn_from_trades.py). Two sessions may overlap,   *)
(* and the observation and its completion are two transactions.             *)
(***************************************************************************)
EXTENDS Naturals, FiniteSets

CONSTANTS
    Learner,        \* sessions of learn_from_trades
    Recommendation, \* approvals of trades, and shadow ideas
    Shadow,         \* the shadow ideas: no approval row has their id
    Day,            \* trading days after which an outcome is looked at
    MaxLost         \* bound: sessions that die with an observation of one checkpoint at hand

ASSUME LearningAssumption ==
    /\ Shadow \subseteq Recommendation /\ Day \subseteq Nat /\ MaxLost \in Nat
    /\ IsFiniteSet(Learner)

VARIABLES
    row,      \* the checkpoint of a recommendation and a day
    observed, \* rows of strategy_observations that came from it
    trade,    \* what the broker has of a recommendation
    learner,  \* what a session is doing
    lost      \* ghost: sessions that ended between the observation and the completion

learningVars == <<row, observed, trade, learner, lost>>

Checkpoint == Recommendation \X Day

LearningTypeOK ==
    /\ row \in [Checkpoint -> {"none", "waiting", "due", "done"}]
    /\ observed \in [Checkpoint -> Nat]
    /\ trade \in [Recommendation -> {"unfilled", "held", "closed"}]
    /\ learner \in [Learner -> [pc : {"idle", "next", "observe", "complete"}, todo : SUBSET Checkpoint]]
    /\ lost \in [Checkpoint -> Nat]

LearningInit ==
    /\ row = [c \in Checkpoint |-> "none"]
    /\ observed = [c \in Checkpoint |-> 0]
    /\ trade = [r \in Recommendation |-> "unfilled"]
    /\ learner = [s \in Learner |-> [pc |-> "idle", todo |-> {}]]
    /\ lost = [c \in Checkpoint |-> 0]

-----------------------------------------------------------------------------
\* schedule_learning replaces the rows, the completed ones too. An entry
\* schedules once; a review that is resumed schedules its shadow idea again.
Schedule(r) ==
    /\ r \in Shadow \/ \A d \in Day : row[<<r, d>>] = "none"
    /\ row' = [c \in Checkpoint |-> IF c[1] = r THEN "waiting" ELSE row[c]]
    /\ UNCHANGED <<observed, trade, learner, lost>>

ComesDue(c) ==
    /\ row[c] = "waiting"
    /\ row' = [row EXCEPT ![c] = "due"]
    /\ UNCHANGED <<observed, trade, learner, lost>>

\* The broker fills an order, and later the position is closed.
TradeMoves(r) ==
    /\ r \notin Shadow
    /\ trade[r] # "closed"
    /\ trade' = [trade EXCEPT ![r] = IF @ = "unfilled" THEN "held" ELSE "closed"]
    /\ UNCHANGED <<row, observed, learner, lost>>

-----------------------------------------------------------------------------
\* One session: the due rows are read once, and settled in the order of their
\* due dates.

Goes(s, pc, todo) == learner' = [learner EXCEPT ![s] = [pc |-> pc, todo |-> todo]]

Rests(s) == Goes(s, "idle", {})

Subject(s) == CHOOSE c \in learner[s].todo : \A d \in learner[s].todo : c[2] <= d[2]

StartLearning(s) ==
    /\ learner[s].pc = "idle"
    /\ Goes(s, "next", {c \in Checkpoint : row[c] = "due"})
    /\ UNCHANGED <<row, observed, trade, lost>>

\* The approval and its fills are looked up: an unknown approval, an error and
\* an order without fills all skip the row.
Skip(s) ==
    /\ learner[s].pc = "next"
    /\ learner[s].todo # {}
    /\ Goes(s, "next", learner[s].todo \ {Subject(s)})
    /\ UNCHANGED <<row, observed, trade, lost>>

FindFills(s) ==
    /\ learner[s].pc = "next"
    /\ learner[s].todo # {}
    /\ Subject(s)[1] \notin Shadow
    /\ trade[Subject(s)[1]] # "unfilled"
    /\ Goes(s, "observe", learner[s].todo)
    /\ UNCHANGED <<row, observed, trade, lost>>

\* record_strategy_observation: the outcome against the benchmark, or an empty
\* one when the position is gone.
Observe(s) ==
    /\ learner[s].pc = "observe"
    /\ Goes(s, "complete", learner[s].todo)
    /\ observed' = [observed EXCEPT ![Subject(s)] = @ + 1]
    /\ UNCHANGED <<row, trade, lost>>

\* bug: the update does not ask for an open row
CompleteAgain(s) ==
    /\ learner[s].pc = "complete"
    /\ row' = [row EXCEPT ![Subject(s)] = "done"]
    /\ Goes(s, "next", learner[s].todo \ {Subject(s)})
    /\ UNCHANGED <<observed, trade, lost>>

\* complete_learning_checkpoint raises for a completed row, and the session
\* does not catch it: it ends, and lessons.json is not written.
CompleteCheckpoint(s) ==
    /\ learner[s].pc = "complete"
    /\ LET c == Subject(s) IN
        IF row[c] \in {"waiting", "due"}
        THEN /\ row' = [row EXCEPT ![c] = "done"]
             /\ Goes(s, "next", learner[s].todo \ {c})
             /\ UNCHANGED lost
        ELSE /\ Rests(s)
             /\ lost' = [lost EXCEPT ![c] = @ + 1]
             /\ UNCHANGED row
    /\ UNCHANGED <<observed, trade>>

FinishLearning(s) ==
    /\ learner[s].pc = "next"
    /\ learner[s].todo = {}
    /\ Rests(s)
    /\ UNCHANGED <<row, observed, trade, lost>>

\* The positions cannot be read, or the process dies.
LearnerDies(s) ==
    /\ learner[s].pc # "idle"
    /\ learner[s].pc = "complete" => lost[Subject(s)] < MaxLost
    /\ Rests(s)
    /\ lost' = IF learner[s].pc = "complete" THEN [lost EXCEPT ![Subject(s)] = @ + 1] ELSE lost
    /\ UNCHANGED <<row, observed, trade>>

Settle(s) == Skip(s) \/ FindFills(s) \/ Observe(s) \/ CompleteCheckpoint(s) \/ FinishLearning(s)

LearningNext ==
    \/ \E r \in Recommendation : Schedule(r) \/ TradeMoves(r)
    \/ \E c \in Checkpoint : ComesDue(c)
    \/ \E s \in Learner : StartLearning(s) \/ Settle(s) \/ LearnerDies(s)

LearningSpec == LearningInit /\ [][LearningNext]_learningVars

-----------------------------------------------------------------------------
Pending(c) == {s \in Learner : learner[s].pc = "complete" /\ Subject(s) = c}

(* Every observation of a checkpoint is explained: by the completion of its  *)
(* row, by a session that is about to complete it, or by one that died       *)
(* before it could. So observations are counted twice only where sessions    *)
(* overlapped or died, and scheduling never opens a completed row again.     *)
ObservationsAreAccounted ==
    \A c \in Checkpoint :
        observed[c] = (IF row[c] = "done" THEN 1 ELSE 0) + Cardinality(Pending(c)) + lost[c]
=============================================================================
