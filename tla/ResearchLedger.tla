--------------------------- MODULE ResearchLedger ---------------------------
(***************************************************************************)
(* Research under governance: strategy experiments and their paper runs     *)
(* (tables research_experiments and research_experiment_runs), the status   *)
(* of an experiment up to its acceptance by a person, and the decision      *)
(* records whose evidence must have been there when the decision was made.  *)
(*                                                                          *)
(* The ids of experiments and runs are digests of their contents: what an   *)
(* id stands for is fixed from the start, and recording it again is the     *)
(* same row.                                                                *)
(***************************************************************************)
EXTENDS Naturals, FiniteSets, FiniteSetsExt

CONSTANTS
    Experiment, \* experiments by their digest
    Run,        \* paper runs by their digest
    Approver,   \* people who accept a strategy
    NoOne,      \* no approver is recorded
    Floor,      \* the fewest observations an experiment may ask for (10)
    MaxCount,   \* bound: observations of a run or asked for by an experiment
    Source,     \* named sources of evidence
    MaxTime     \* bound: points in time of evidence and decisions

ASSUME ResearchAssumption ==
    /\ Floor \in Nat \ {0}
    /\ MaxCount \in Nat
    /\ MaxTime \in Nat
    /\ NoOne \notin Approver

VARIABLES
    about,    \* what the digests stand for: [need, of, count]
    research, \* status and approver of an experiment
    runs,     \* table research_experiment_runs
    decision  \* the decision last recorded

researchVars == <<about, research, runs, decision>>

Count == 0 .. MaxCount
Time == 0 .. MaxTime

Evidence == [source : Source, observed : Time, effective : Time]

NoDecision == [at |-> 0, evidence |-> {}]

ResearchStatus == {"none", "proposed", "paper", "accepted", "rejected", "rolled_back"}

ResearchTypeOK ==
    /\ about \in [need : [Experiment -> Count], of : [Run -> Experiment], count : [Run -> Count]]
    /\ research \in [Experiment -> [status : ResearchStatus, approver : Approver \cup {NoOne}]]
    /\ runs \subseteq Run
    /\ decision \in [at : Time, evidence : SUBSET Evidence]

ResearchInit ==
    /\ about \in [need : [Experiment -> Count], of : [Run -> Experiment], count : [Run -> Count]]
    /\ research = [e \in Experiment |-> [status |-> "none", approver |-> NoOne]]
    /\ runs = {}
    /\ decision = NoDecision

-----------------------------------------------------------------------------
\* ResearchExperiment.validate and ResearchRun.validate: of what they ask,
\* the counts are what acceptance depends on.
ValidExperiment(e) == about.need[e] >= Floor
ValidRun(r) == about.count[r] >= 1

\* record_research_experiment: a row that is there is kept.
RegisterExperiment(e) ==
    /\ ValidExperiment(e)
    /\ research' = IF research[e].status = "none" THEN [research EXCEPT ![e].status = "proposed"] ELSE research
    /\ UNCHANGED <<about, runs, decision>>

\* record_research_run: valid runs of an experiment that is on paper.
RecordRun(r) ==
    /\ ValidRun(r)
    /\ research[about.of[r]].status = "paper"
    /\ runs' = runs \cup {r}
    /\ UNCHANGED <<about, research, decision>>

RunsOf(e) == {r \in runs : about.of[r] = e}

\* bug: the sum runs over the whole table
ObservationsOfAll(e) == MapThenSumSet(LAMBDA r : about.count[r], runs)

Observations(e) == MapThenSumSet(LAMBDA r : about.count[r], RunsOf(e))

Allowed(s) ==
    CASE s = "proposed" -> {"paper", "rejected"}
      [] s = "paper" -> {"accepted", "rejected"}
      [] s = "accepted" -> {"rolled_back"}
      [] OTHER -> {}

\* transition_research_experiment: acceptance takes the observations and an
\* approver; every transition writes its own approver, or none, over the last.
Transition(e, s, who) ==
    /\ s \in Allowed(research[e].status)
    /\ s = "accepted" => Observations(e) >= about.need[e] /\ who # NoOne
    /\ research' = [research EXCEPT ![e] = [status |-> s, approver |-> who]]
    /\ UNCHANGED <<about, runs, decision>>

-----------------------------------------------------------------------------
\* bug: evidence need only be in force by the decision
ValidWhenEffective(at, evidence) ==
    /\ evidence # {}
    /\ \A i, j \in evidence : i.source = j.source => i = j
    /\ \A i \in evidence : i.effective <= at

\* DecisionRecord.validate and EvidenceTimestamp.validate: some evidence, of
\* different sources, seen before the decision and in force when it was seen.
ValidDecision(at, evidence) ==
    /\ evidence # {}
    /\ \A i, j \in evidence : i.source = j.source => i = j
    /\ \A i \in evidence : i.observed <= at /\ i.effective <= i.observed

RecordDecision(at, evidence) ==
    /\ ValidDecision(at, evidence)
    /\ decision' = [at |-> at, evidence |-> evidence]
    /\ UNCHANGED <<about, research, runs>>

\* ReplaySnapshot.validate: nothing in it was unknown at the decision, and no
\* name that is required is missing.
Replayable(at, evidence, required) ==
    /\ \A i, j \in evidence : i.source = j.source => i = j
    /\ required \subseteq {i.source : i \in evidence}
    /\ \A i \in evidence : i.observed <= at /\ i.effective <= at

GovernNext ==
    \/ \E e \in Experiment :
        \/ RegisterExperiment(e)
        \/ \E s \in ResearchStatus, who \in Approver \cup {NoOne} : Transition(e, s, who)
    \/ \E r \in Run : RecordRun(r)

DecideNext == \E at \in Time : \E i, j \in Evidence : RecordDecision(at, {i, j})

ResearchNext == GovernNext \/ DecideNext

ResearchSpec == ResearchInit /\ [][ResearchNext]_researchVars

-----------------------------------------------------------------------------
(* A strategy that is accepted, or was, has the observations its experiment  *)
(* asked for, and never fewer than the floor; while it is accepted a person  *)
(* stands behind it (transition_research_experiment).                        *)
AcceptedIsEarned ==
    \A e \in Experiment :
        /\ research[e].status \in {"accepted", "rolled_back"} =>
               /\ MapThenSumSet(LAMBDA r : about.count[r], RunsOf(e)) >= about.need[e]
               /\ about.need[e] >= Floor
        /\ research[e].status = "accepted" => research[e].approver # NoOne

(* Whatever a recorded decision was based on can be replayed at its time:    *)
(* the rules for evidence (governance.py) are no weaker than the look-ahead  *)
(* guard of the replay (replay.py).                                          *)
DecisionsReplay ==
    Replayable(decision.at, decision.evidence, {i.source : i \in decision.evidence})
=============================================================================
