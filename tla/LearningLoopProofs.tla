------------------------- MODULE LearningLoopProofs -------------------------
(***************************************************************************)
(* What is learned from the trades, for any number of sessions, days,       *)
(* recommendations, experiments and lots: no observation is lost track of,  *)
(* an accepted strategy has earned it, and a sale is charged to its lots.   *)
(*                                                                          *)
(* The accounting of observations is inductive once it is known that no     *)
(* session settles a shadow idea: only those are scheduled again, and a     *)
(* completed row that opened again would be observed a second time.         *)
(*                                                                          *)
(* The acceptance of an experiment is a matter of a sum over its runs, the  *)
(* accounting of a sale one of a sum over the lots that rank before a lot:  *)
(* both rest on SumTheorems.                                                *)
(*                                                                          *)
(* With the lifecycle row and the fills, proved about in modules of their   *)
(* own, these are the records that TLC explores together.                   *)
(***************************************************************************)
EXTENDS MCTradeLifecycle, TradeLifecycleProofs, FillLedgerProofs, SumTheorems, FiniteSetTheorems, TLAPS

Settling(s) == learner[s].pc \in {"observe", "complete"}

\* A shadow idea has no approval, so no session finds fills for it.
ShadowsStayOpen ==
    /\ \A s \in Learner : Settling(s) => Subject(s)[1] \notin Shadow
    /\ \A c \in Checkpoint : row[c] = "done" => c[1] \notin Shadow

LearningInv == LearningTypeOK /\ ShadowsStayOpen /\ ObservationsAreAccounted

Sitting == [pc : {"idle", "next", "observe", "complete"}, todo : SUBSET Checkpoint]

-----------------------------------------------------------------------------
LEMMA LearningTypeStep == LearningTypeOK /\ [LearningNext]_learningVars => LearningTypeOK'
<1> SUFFICES ASSUME LearningTypeOK, [LearningNext]_learningVars PROVE LearningTypeOK'
  OBVIOUS
<1> USE DEF LearningTypeOK, Goes, Rests
<1>1. ASSUME NEW r \in Recommendation, Schedule(r) \/ TradeMoves(r) PROVE LearningTypeOK'
  BY <1>1 DEF Schedule, TradeMoves
<1>2. ASSUME NEW c \in Checkpoint, ComesDue(c) PROVE LearningTypeOK'
  BY <1>2 DEF ComesDue
<1>3. ASSUME NEW s \in Learner, StartLearning(s) \/ Skip(s) \/ FindFills(s) \/ FinishLearning(s) PROVE LearningTypeOK'
  <2>1. learner[s] \in Sitting
    BY DEF Sitting
  <2>2. learner' \in [Learner -> Sitting]
    BY <1>3, <2>1 DEF StartLearning, Skip, FindFills, FinishLearning, Sitting
  <2> QED
    BY <1>3, <2>2 DEF StartLearning, Skip, FindFills, FinishLearning, Sitting
<1>4. ASSUME NEW s \in Learner, Observe(s) \/ CompleteCheckpoint(s) \/ LearnerDies(s) PROVE LearningTypeOK'
  <2>1. learner' \in [Learner -> Sitting]
    BY <1>4 DEF Observe, CompleteCheckpoint, LearnerDies, Sitting
  <2>2. /\ observed' \in [Checkpoint -> Nat] /\ lost' \in [Checkpoint -> Nat]
        /\ row' \in [Checkpoint -> {"none", "waiting", "due", "done"}] /\ trade' = trade
    BY <1>4, SMTT(30) DEF Observe, CompleteCheckpoint, LearnerDies
  <2> QED
    BY <2>1, <2>2 DEF Sitting
<1>5. CASE UNCHANGED learningVars
  BY <1>5 DEF learningVars
<1> QED
  BY <1>1, <1>2, <1>3, <1>4, <1>5 DEF LearningNext, Settle

\* What a session that acts leaves of the others.
OthersRest(s) == \A t \in Learner \ {s} : learner'[t] = learner[t]

LEMMA OneSessionActs ==
  ASSUME LearningTypeOK, NEW s \in Learner, StartLearning(s) \/ Settle(s) \/ LearnerDies(s)
  PROVE  OthersRest(s)
BY DEF LearningTypeOK, OthersRest, StartLearning, Settle, Skip, FindFills, Observe, CompleteCheckpoint, FinishLearning, LearnerDies, Goes, Rests

LEMMA ShadowsStep == LearningInv /\ [LearningNext]_learningVars => ShadowsStayOpen'
<1> SUFFICES ASSUME LearningInv, [LearningNext]_learningVars PROVE ShadowsStayOpen'
  OBVIOUS
<1>0. LearningTypeOK /\ ShadowsStayOpen
  BY DEF LearningInv
<1>1. ASSUME NEW r \in Recommendation, Schedule(r) \/ TradeMoves(r) PROVE ShadowsStayOpen'
  BY <1>0, <1>1 DEF Schedule, TradeMoves, ShadowsStayOpen, Settling, Subject
<1>2. ASSUME NEW c \in Checkpoint, ComesDue(c) PROVE ShadowsStayOpen'
  BY <1>0, <1>2 DEF ComesDue, ShadowsStayOpen, Settling, Subject, LearningTypeOK
<1>3. ASSUME NEW s \in Learner, StartLearning(s) \/ Settle(s) \/ LearnerDies(s) PROVE ShadowsStayOpen'
  <2>1. OthersRest(s)
    BY <1>0, <1>3, OneSessionActs
  <2>2. Settling(s)' => Subject(s)'[1] \notin Shadow
    <3>1. CASE FindFills(s) \/ Observe(s)
      <4>1. learner'[s].todo = learner[s].todo
        BY <1>0, <3>1 DEF FindFills, Observe, Goes, LearningTypeOK
      <4>2. Subject(s)' = Subject(s)
        BY <4>1 DEF Subject
      <4>3. Subject(s)[1] \notin Shadow
        BY <1>0, <3>1 DEF FindFills, Observe, ShadowsStayOpen, Settling
      <4> QED
        BY <4>2, <4>3
    <3>2. CASE StartLearning(s) \/ Skip(s) \/ CompleteCheckpoint(s) \/ FinishLearning(s) \/ LearnerDies(s)
      <4>1. learner'[s].pc \in {"idle", "next"}
        BY <1>0, <3>2 DEF StartLearning, Skip, CompleteCheckpoint, FinishLearning, LearnerDies, Goes, Rests, LearningTypeOK
      <4> QED
        BY <4>1 DEF Settling
    <3> QED
      BY <1>3, <3>1, <3>2 DEF Settle
  <2>3. ASSUME NEW c \in Checkpoint, row'[c] = "done" PROVE c[1] \notin Shadow
    <3>1. row'[c] = row[c] \/ (Settling(s) /\ c = Subject(s))
      BY <1>0, <1>3 DEF StartLearning, Settle, Skip, FindFills, Observe, CompleteCheckpoint, FinishLearning, LearnerDies, Goes, Rests,
           Settling, LearningTypeOK
    <3> QED
      BY <1>0, <2>3, <3>1 DEF ShadowsStayOpen
  <2>4. ASSUME NEW t \in Learner \ {s}, Settling(t)' PROVE Subject(t)'[1] \notin Shadow
    BY <1>0, <2>1, <2>4 DEF OthersRest, ShadowsStayOpen, Settling, Subject
  <2> QED
    BY <2>2, <2>3, <2>4 DEF ShadowsStayOpen
<1>4. CASE UNCHANGED learningVars
  BY <1>0, <1>4 DEF learningVars, ShadowsStayOpen, Settling, Subject
<1> QED
  BY <1>1, <1>2, <1>3, <1>4 DEF LearningNext

-----------------------------------------------------------------------------
\* The accounts.

Done(c) == IF row[c] = "done" THEN 1 ELSE 0

Accounted(c) == observed[c] = Done(c) + Cardinality(Pending(c)) + lost[c]

LEMMA PendingFinite ==
  ASSUME NEW c
  PROVE  IsFiniteSet(Pending(c)) /\ Cardinality(Pending(c)) \in Nat
BY LearningAssumption, FS_Subset, FS_CardinalityType DEF Pending

\* Nothing of a checkpoint's accounts moves.
LEMMA AccountsRest ==
  ASSUME NEW c, Accounted(c), observed'[c] = observed[c], Done(c)' = Done(c), lost'[c] = lost[c], Pending(c)' = Pending(c)
  PROVE  Accounted(c)'
BY DEF Accounted

\* A session that is not about to complete, before or after.
LEMMA PendingRests ==
  ASSUME LearningTypeOK, NEW s \in Learner, OthersRest(s), NEW c, s \in Pending(c) <=> s \in Pending(c)'
  PROVE  Pending(c)' = Pending(c)
BY DEF OthersRest, Pending, Subject

LEMMA AccountsStep == LearningInv /\ [LearningNext]_learningVars => ObservationsAreAccounted'
<1> SUFFICES ASSUME LearningInv, [LearningNext]_learningVars, NEW c \in Checkpoint PROVE Accounted(c)'
  BY DEF ObservationsAreAccounted, Accounted, Done
<1>0. LearningTypeOK /\ ShadowsStayOpen /\ Accounted(c)
  BY DEF LearningInv, ObservationsAreAccounted, Accounted, Done
<1>n. observed[c] \in Nat /\ lost[c] \in Nat /\ Done(c) \in {0, 1}
  BY <1>0 DEF LearningTypeOK, Done
<1>p. IsFiniteSet(Pending(c)) /\ Cardinality(Pending(c)) \in Nat
  BY PendingFinite
<1>1. ASSUME NEW r \in Recommendation, Schedule(r) \/ TradeMoves(r) PROVE Accounted(c)'
  <2>1. c = <<c[1], c[2]>> /\ c[2] \in Day
    BY DEF Checkpoint
  <2>2. Done(c)' = Done(c)
    BY <1>0, <1>1, <2>1 DEF Schedule, TradeMoves, ShadowsStayOpen, Done, Checkpoint
  <2>3. observed' = observed /\ lost' = lost /\ Pending(c)' = Pending(c)
    BY <1>1 DEF Schedule, TradeMoves, Pending, Subject
  <2> QED
    BY <1>0, <2>2, <2>3, AccountsRest
<1>2. ASSUME NEW d \in Checkpoint, ComesDue(d) PROVE Accounted(c)'
  <2>1. observed' = observed /\ lost' = lost /\ Pending(c)' = Pending(c) /\ Done(c)' = Done(c)
    BY <1>0, <1>2 DEF ComesDue, Pending, Subject, Done, LearningTypeOK
  <2> QED
    BY <1>0, <2>1, AccountsRest
<1>3. ASSUME NEW s \in Learner, StartLearning(s) \/ Skip(s) \/ FindFills(s) \/ FinishLearning(s) PROVE Accounted(c)'
  <2>1. OthersRest(s)
    BY <1>0, <1>3, OneSessionActs DEF Settle
  <2>2. learner[s].pc # "complete" /\ learner'[s].pc # "complete" /\ UNCHANGED <<observed, lost, row>>
    BY <1>0, <1>3 DEF StartLearning, Skip, FindFills, FinishLearning, Goes, Rests, LearningTypeOK
  <2>3. Pending(c)' = Pending(c)
    BY <1>0, <2>1, <2>2, PendingRests DEF Pending
  <2> QED
    BY <1>0, <2>2, <2>3, AccountsRest DEF Done
<1>4. ASSUME NEW s \in Learner, Observe(s) PROVE Accounted(c)'
  <2>1. OthersRest(s)
    BY <1>0, <1>4, OneSessionActs DEF Settle
  <2>2. /\ learner[s].pc = "observe" /\ learner'[s].pc = "complete" /\ learner'[s].todo = learner[s].todo
        /\ observed' = [observed EXCEPT ![Subject(s)] = @ + 1] /\ UNCHANGED <<lost, row>>
    BY <1>0, <1>4 DEF Observe, Goes, LearningTypeOK
  <2>3. Subject(s)' = Subject(s) /\ s \notin Pending(c)
    BY <2>2 DEF Subject, Pending
  <2>4. CASE Subject(s) = c
    <3>1. Pending(c)' = Pending(c) \cup {s}
      BY <2>1, <2>2, <2>3, <2>4 DEF Pending, OthersRest, Subject
    <3>2. Cardinality(Pending(c)') = Cardinality(Pending(c)) + 1
      BY <1>p, <2>3, <3>1, FS_AddElement
    <3>3. observed'[c] = observed[c] + 1
      BY <1>0, <2>2, <2>4 DEF LearningTypeOK
    <3> QED
      BY <1>0, <1>n, <1>p, <2>2, <3>2, <3>3 DEF Accounted, Done
  <2>5. CASE Subject(s) # c
    <3>1. Pending(c)' = Pending(c)
      BY <1>0, <2>1, <2>3, <2>5, PendingRests DEF Pending
    <3>2. observed'[c] = observed[c]
      BY <1>0, <2>2, <2>5 DEF LearningTypeOK
    <3> QED
      BY <1>0, <2>2, <3>1, <3>2, AccountsRest DEF Done
  <2> QED
    BY <2>4, <2>5
<1>5. ASSUME NEW s \in Learner, CompleteCheckpoint(s) \/ LearnerDies(s) PROVE Accounted(c)'
  <2>1. OthersRest(s)
    BY <1>0, <1>5, OneSessionActs DEF Settle
  <2>2. learner'[s].pc # "complete" /\ observed' = observed /\ s \notin Pending(c)'
    BY <1>0, <1>5 DEF CompleteCheckpoint, LearnerDies, Goes, Rests, LearningTypeOK, Pending
  <2>3. CASE s \in Pending(c)
    <3>1. Pending(c)' = Pending(c) \ {s}
      BY <2>1, <2>2, <2>3 DEF Pending, OthersRest, Subject
    <3>2. Cardinality(Pending(c)') = Cardinality(Pending(c)) - 1
      BY <1>p, <2>3, <3>1, FS_RemoveElement
    <3>3. \/ row[c] # "done" /\ row'[c] = "done" /\ lost'[c] = lost[c]
          \/ row'[c] = row[c] /\ lost'[c] = lost[c] + 1
      BY <1>0, <1>5, <2>3 DEF CompleteCheckpoint, LearnerDies, Goes, Rests, LearningTypeOK, Pending
    <3> QED
      BY <1>0, <1>n, <1>p, <2>2, <3>2, <3>3 DEF Accounted, Done
  <2>4. CASE s \notin Pending(c)
    <3>1. Pending(c)' = Pending(c)
      BY <1>0, <2>1, <2>2, <2>4, PendingRests
    <3>2. row'[c] = row[c] /\ lost'[c] = lost[c]
      BY <1>0, <1>5, <2>4 DEF CompleteCheckpoint, LearnerDies, Goes, Rests, LearningTypeOK, Pending
    <3> QED
      BY <1>0, <2>2, <3>1, <3>2, AccountsRest DEF Done
  <2> QED
    BY <2>3, <2>4
<1>6. CASE UNCHANGED learningVars
  BY <1>0, <1>6, AccountsRest DEF learningVars, Done, Pending, Subject
<1> QED
  BY <1>1, <1>2, <1>3, <1>4, <1>5, <1>6 DEF LearningNext, Settle

-----------------------------------------------------------------------------
LEMMA LearningStart == LearningInit => LearningInv
<1> SUFFICES ASSUME LearningInit PROVE LearningInv
  OBVIOUS
<1>1. LearningTypeOK /\ ShadowsStayOpen
  BY DEF LearningInit, LearningTypeOK, ShadowsStayOpen, Settling, Goes, Rests
<1>2. ASSUME NEW c \in Checkpoint PROVE Accounted(c)
  <2>1. Pending(c) = {}
    BY DEF LearningInit, Pending, Goes, Rests
  <2> QED
    BY <2>1, FS_EmptySet DEF LearningInit, Accounted, Done
<1> QED
  BY <1>1, <1>2 DEF LearningInv, ObservationsAreAccounted, Accounted, Done

\* No step breaks the invariant, so it holds.
LEMMA LearningHolds == LearningSpec => []LearningInv
<1>1. LearningInv /\ [LearningNext]_learningVars => LearningInv'
  BY LearningTypeStep, ShadowsStep, AccountsStep DEF LearningInv
<1> QED
  BY <1>1, LearningStart, PTL DEF LearningSpec

\* Every observation is explained by its row's completion or by a session that
\* overlapped or died, whatever is scheduled again.
THEOREM ObservationsExplained == LearningSpec => []ObservationsAreAccounted
<1>1. LearningInv => ObservationsAreAccounted
  BY DEF LearningInv
<1> QED
  BY <1>1, LearningHolds, PTL

\* No shadow idea is ever completed.
THEOREM ShadowsAreNeverDone == LearningSpec => []ShadowsStayOpen
<1>1. LearningInv => ShadowsStayOpen
  BY DEF LearningInv
<1> QED
  BY <1>1, LearningHolds, PTL

-----------------------------------------------------------------------------
(* The research ledger.                                                      *)

\* What AcceptedIsEarned asks of an experiment with n observations.
EarnedBy(e, n) ==
    /\ research[e].status \in {"accepted", "rolled_back"} => n >= about.need[e] /\ about.need[e] >= Floor
    /\ research[e].status = "accepted" => research[e].approver # NoOne

\* AcceptedIsEarned with its sum named.
Earned == \A e \in Experiment : EarnedBy(e, SumOver(about.count, RunsOf(e)))

\* Whatever is on record was registered with enough observations asked for.
Registered == \A e \in Experiment : research[e].status # "none" => about.need[e] >= Floor

ResearchInv == ResearchTypeOK /\ Registered /\ Earned /\ DecisionsReplay

-----------------------------------------------------------------------------
\* Every step of the research ledger keeps its types.
LEMMA ResearchTypeStep == ResearchTypeOK /\ [ResearchNext]_researchVars => ResearchTypeOK'
<1> SUFFICES ASSUME ResearchTypeOK, [ResearchNext]_researchVars PROVE ResearchTypeOK'
  OBVIOUS
<1> USE DEF ResearchTypeOK
<1>1. ASSUME NEW e \in Experiment, RegisterExperiment(e) PROVE ResearchTypeOK'
  BY <1>1 DEF RegisterExperiment, ResearchStatus
<1>2. ASSUME NEW e \in Experiment, NEW s \in ResearchStatus, NEW who \in Approver \cup {NoOne}, Transition(e, s, who)
      PROVE  ResearchTypeOK'
  BY <1>2 DEF Transition
<1>3. ASSUME NEW r \in Run, RecordRun(r) PROVE ResearchTypeOK'
  BY <1>3 DEF RecordRun
<1>4. ASSUME NEW at \in Time, NEW i \in Evidence, NEW j \in Evidence, RecordDecision(at, {i, j}) PROVE ResearchTypeOK'
  BY <1>4 DEF RecordDecision
<1>5. CASE UNCHANGED researchVars
  BY <1>5 DEF researchVars
<1> QED
  BY <1>1, <1>2, <1>3, <1>4, <1>5 DEF ResearchNext, GovernNext, DecideNext

\* The property with its sum named.
LEMMA EarnedIsSum == AcceptedIsEarned <=> Earned
<1> DEFINE total(e) == MapThenSumSet(LAMBDA r : about.count[r], RunsOf(e))
<1>1. ASSUME NEW e \in Experiment PROVE total(e) = SumOver(about.count, RunsOf(e))
  BY DEF SumOver
<1>2. AcceptedIsEarned <=> \A e \in Experiment : EarnedBy(e, total(e))
  BY Zenon DEF AcceptedIsEarned, EarnedBy
<1> QED
  BY <1>1, <1>2 DEF Earned

\* Only a paper experiment records runs, so the observations an accepted one
\* was accepted with are the ones it has.
LEMMA EarnedStep ==
  ASSUME ResearchTypeOK, Registered, Earned, [ResearchNext]_researchVars
  PROVE  Registered' /\ Earned'
<1> USE DEF ResearchTypeOK, Registered, EarnedBy, Earned
<1>1. ASSUME NEW e \in Experiment, RegisterExperiment(e) PROVE Registered' /\ Earned'
  <2>1. \A d \in Experiment : research'[d].status \in {"accepted", "rolled_back"} => research'[d] = research[d]
    BY <1>1 DEF RegisterExperiment, ResearchStatus
  <2>2. UNCHANGED <<about, runs>>
    BY <1>1 DEF RegisterExperiment
  <2>3. \A d \in Experiment : RunsOf(d)' = RunsOf(d)
    BY <2>2 DEF RunsOf
  <2>4. Earned'
    BY <2>1, <2>2, <2>3
  <2> QED
    BY <1>1, <2>4 DEF RegisterExperiment, ValidExperiment
<1>2. ASSUME NEW e \in Experiment, NEW s \in ResearchStatus, NEW who \in Approver \cup {NoOne}, Transition(e, s, who)
      PROVE  Registered' /\ Earned'
  <2>1. /\ research'[e] = [status |-> s, approver |-> who]
        /\ \A d \in Experiment \ {e} : research'[d] = research[d]
    BY <1>2 DEF Transition
  <2>2. UNCHANGED <<about, runs>>
    BY <1>2 DEF Transition
  <2>3. \A d \in Experiment : RunsOf(d)' = RunsOf(d)
    BY <2>2 DEF RunsOf
  <2>4. research[e].status # "none" /\ (s = "rolled_back" => research[e].status = "accepted")
    BY <1>2 DEF Transition, Allowed, ResearchStatus
  <2>5. s = "accepted" => SumOver(about.count, RunsOf(e)) >= about.need[e] /\ who # NoOne
    <3>1. Observations(e) = SumOver(about.count, RunsOf(e))
      BY DEF Observations, SumOver
    <3> QED
      BY <1>2, <3>1 DEF Transition
  <2>6. Earned'
    BY <2>1, <2>2, <2>3, <2>4, <2>5
  <2> QED
    BY <2>1, <2>2, <2>4, <2>6
<1>3. ASSUME NEW r \in Run, RecordRun(r) PROVE Registered' /\ Earned'
  <2>1. UNCHANGED <<about, research>> /\ runs' = runs \cup {r} /\ research[about.of[r]].status = "paper"
    BY <1>3 DEF RecordRun
  <2>2. \A d \in Experiment : research[d].status # "paper" => RunsOf(d)' = RunsOf(d)
    BY <2>1 DEF RunsOf
  <2> QED
    BY <2>1, <2>2
<1>4. ASSUME UNCHANGED <<about, research, runs>> PROVE Registered' /\ Earned'
  <2>1. \A d \in Experiment : RunsOf(d)' = RunsOf(d)
    BY <1>4 DEF RunsOf
  <2> QED
    BY <1>4, <2>1
<1> QED
  BY <1>1, <1>2, <1>3, <1>4 DEF ResearchNext, GovernNext, DecideNext, RecordDecision, researchVars

\* A recorded decision names evidence it could know of.
LEMMA ReplayStep ==
  ASSUME ResearchTypeOK, DecisionsReplay, [ResearchNext]_researchVars
  PROVE  DecisionsReplay'
<1>1. ASSUME NEW at \in Time, NEW i \in Evidence, NEW j \in Evidence, RecordDecision(at, {i, j}) PROVE DecisionsReplay'
  <2>1. \A k \in {i, j} : k.effective \in Nat /\ k.observed \in Nat /\ at \in Nat
    BY ResearchAssumption DEF Evidence, Time
  <2>2. decision' = [at |-> at, evidence |-> {i, j}] /\ ValidDecision(at, {i, j})
    BY <1>1 DEF RecordDecision
  <2> QED
    BY <2>1, <2>2 DEF DecisionsReplay, Replayable, ValidDecision
<1>2. ASSUME UNCHANGED decision PROVE DecisionsReplay'
  BY <1>2 DEF DecisionsReplay
<1> QED
  BY <1>1, <1>2 DEF ResearchNext, GovernNext, DecideNext, RegisterExperiment, Transition, RecordRun, researchVars

\* An empty ledger satisfies the invariant.
LEMMA ResearchStart == ResearchInit => ResearchInv
<1> SUFFICES ASSUME ResearchInit PROVE ResearchInv
  OBVIOUS
<1>1. ResearchTypeOK
  BY ResearchAssumption DEF ResearchInit, ResearchTypeOK, ResearchStatus, NoDecision, Time
<1>2. Registered /\ Earned
  BY DEF ResearchInit, Registered, Earned, EarnedBy
<1>3. DecisionsReplay
  BY DEF ResearchInit, DecisionsReplay, Replayable, NoDecision
<1> QED
  BY <1>1, <1>2, <1>3 DEF ResearchInv

\* No step breaks the invariant.
LEMMA ResearchStep == ResearchInv /\ [ResearchNext]_researchVars => ResearchInv'
BY ResearchTypeStep, EarnedStep, ReplayStep DEF ResearchInv

\* The statuses and approvers of the experiments, the runs and the decision stay
\* what transition, record_run and record_decision write.
THEOREM ResearchTypesHold == ResearchSpec => []ResearchTypeOK
<1>1. ResearchInv => ResearchTypeOK
  BY DEF ResearchInv
<1> QED
  BY <1>1, ResearchStart, ResearchStep, PTL DEF ResearchSpec

\* An experiment that is accepted, or was, has the observations it asked for, at
\* least the floor, and a named approver while it stands accepted, for any
\* number of experiments and runs.
THEOREM AcceptanceIsEarned == ResearchSpec => []AcceptedIsEarned
<1>1. ResearchInv => AcceptedIsEarned
  BY EarnedIsSum DEF ResearchInv
<1> QED
  BY <1>1, ResearchStart, ResearchStep, PTL DEF ResearchSpec

\* A recorded decision can be replayed from its evidence: none of it was
\* effective or observed after the decision.
THEOREM RecordedDecisionsReplay == ResearchSpec => []DecisionsReplay
<1>1. ResearchInv => DecisionsReplay
  BY DEF ResearchInv
<1> QED
  BY <1>1, ResearchStart, ResearchStep, PTL DEF ResearchSpec

-----------------------------------------------------------------------------
(* The lots of a sale.                                                       *)

\* The smaller of two.
LEMMA MinOfTwo ==
  ASSUME NEW a \in Int, NEW b \in Int
  PROVE  Min({a, b}) = IF a <= b THEN a ELSE b
<1> DEFINE least == IF a <= b THEN a ELSE b
<1>1. least \in {a, b} /\ \A y \in {a, b} : least <= y
  OBVIOUS
<1>2. ASSUME NEW x \in {a, b}, \A y \in {a, b} : x <= y PROVE x = least
  BY <1>2
<1> QED
  BY <1>1, <1>2 DEF Min

\* The larger of two.
LEMMA MaxOfTwo ==
  ASSUME NEW a \in Int, NEW b \in Int
  PROVE  Max({a, b}) = IF a >= b THEN a ELSE b
<1> DEFINE most == IF a >= b THEN a ELSE b
<1>1. most \in {a, b} /\ \A y \in {a, b} : most >= y
  OBVIOUS
<1>2. ASSUME NEW x \in {a, b}, \A y \in {a, b} : x >= y PROVE x = most
  BY <1>2
<1> QED
  BY <1>1, <1>2 DEF Max

-----------------------------------------------------------------------------
\* A list of lots, of any length.
IsLots(lots) == \E n \in Nat : lots \in [1 .. n -> TaxLot]

\* The rank is a strict total order of the lots.
LEMMA RankIsTotal ==
  ASSUME NEW lots, IsLots(lots)
  PROVE  /\ \A i \in DOMAIN lots : ~RankedFirst(lots, i, i)
         /\ \A i, j \in DOMAIN lots : i # j => RankedFirst(lots, i, j) \/ RankedFirst(lots, j, i)
         /\ \A i, j \in DOMAIN lots : RankedFirst(lots, i, j) => ~RankedFirst(lots, j, i)
         /\ \A i, j, k \in DOMAIN lots : RankedFirst(lots, i, j) /\ RankedFirst(lots, j, k) => RankedFirst(lots, i, k)
<1>1. PICK n \in Nat : lots \in [1 .. n -> TaxLot]
  BY DEF IsLots
<1>2. \A i \in DOMAIN lots : i \in Int /\ lots[i].gain \in Int /\ lots[i].longTerm \in BOOLEAN
  <2>1. ASSUME NEW i \in DOMAIN lots PROVE i \in Int /\ lots[i] \in TaxLot
    BY <1>1
  <2> QED
    BY <2>1, TaxLotAssumption DEF TaxLot
<1>3. \A i, j, k \in DOMAIN lots : Before(lots[i], lots[j]) /\ Before(lots[j], lots[k]) => Before(lots[i], lots[k])
  BY <1>2 DEF Before
<1>4. \A i, j, k \in DOMAIN lots : ~Before(lots[i], lots[j]) /\ ~Before(lots[j], lots[k]) => ~Before(lots[i], lots[k])
  BY <1>2 DEF Before
<1>5. \A i, j \in DOMAIN lots : Before(lots[i], lots[j]) => ~Before(lots[j], lots[i])
  BY <1>2 DEF Before
<1> QED
  BY <1>2, <1>3, <1>4, <1>5 DEF RankedFirst

\* Some lot of a set comes last.
LEMMA SomeLotIsLast ==
  ASSUME NEW lots, IsLots(lots), NEW S \in SUBSET DOMAIN lots, S # {}
  PROVE  \E l \in S : \A m \in S \ {l} : RankedFirst(lots, m, l)
<1> DEFINE Last(T) == \E l \in T : \A m \in T \ {l} : RankedFirst(lots, m, l)
           Bad == {T \in SUBSET DOMAIN lots : T # {} /\ ~Last(T)}
<1> SUFFICES ASSUME Bad # {} PROVE FALSE
  OBVIOUS
<1>0. IsFiniteSet(DOMAIN lots)
  BY FS_Interval DEF IsLots
<1>1. Bad \subseteq FiniteSubsetsOf(DOMAIN lots)
  BY <1>0, FS_Subset DEF FiniteSubsetsOf
<1>2. PICK T \in Bad : \A U \in Bad : U \subseteq T => U = T
  <2> HIDE DEF Bad
  <2> QED
    BY <1>1, SmallestSet
<1>3. PICK x \in T : TRUE
  BY <1>2
<1>4. T \ {x} # {}
  BY <1>2, <1>3
<1>5. PICK l \in T \ {x} : \A m \in (T \ {x}) \ {l} : RankedFirst(lots, m, l)
  <2>1. T \ {x} \notin Bad /\ T \ {x} \in SUBSET DOMAIN lots
    BY <1>2, <1>3
  <2>2. Last(T \ {x})
    BY <1>4, <2>1
  <2> QED
    BY <2>2
<1>6. CASE RankedFirst(lots, x, l)
  <2>1. \A m \in T \ {l} : RankedFirst(lots, m, l)
    BY <1>5, <1>6
  <2> QED
    BY <1>2, <1>5, <2>1
<1>7. CASE RankedFirst(lots, l, x)
  <2>1. \A m \in T \ {x} : RankedFirst(lots, m, x)
    BY <1>2, <1>3, <1>5, <1>7, RankIsTotal
  <2> QED
    BY <1>2, <1>3, <2>1
<1> QED
  BY <1>2, <1>3, <1>5, <1>6, <1>7, RankIsTotal

\* The lots the loop has passed when it comes to lot l.
Ahead(lots, l) == {m \in DOMAIN lots : RankedFirst(lots, m, l)}

SharesOf(lots) == [i \in DOMAIN lots |-> lots[i].shares]

\* The shares of some lots are a sum.
LEMMA SharesIsSum ==
  ASSUME NEW lots, NEW S \in SUBSET DOMAIN lots
  PROVE  Shares(lots, S) = SumOver(SharesOf(lots), S)
<1>1. Shares(lots, S) = SumOver([i \in S |-> lots[i].shares], S)
  BY ZenonT(40) DEF Shares, SumOver, MapThenSumSet, MapThenFoldSet
<1>2. \A i \in S : [j \in S |-> lots[j].shares][i] = SharesOf(lots)[i]
  BY DEF SharesOf
<1> QED
  BY <1>1, <1>2, SumSame

\* What a lot gives: nothing once the sale is covered, else all it has or the
\* rest of the sale.
LEMMA LotGives ==
  ASSUME NEW lots, IsLots(lots), NEW wanted \in Nat, NEW l \in DOMAIN lots
  PROVE  LET had == lots[l].shares
             left == wanted - SumOver(SharesOf(lots), Ahead(lots, l))
         IN  /\ had \in Nat /\ left \in Int
             /\ Used(lots, wanted)[l] = IF left <= 0 THEN 0 ELSE IF had <= left THEN had ELSE left
<1> DEFINE had == lots[l].shares
           left == wanted - SumOver(SharesOf(lots), Ahead(lots, l))
<1>1. had \in Nat
  BY TaxLotAssumption DEF IsLots, TaxLot
<1>2. IsFiniteSet(Ahead(lots, l)) /\ Ahead(lots, l) \subseteq DOMAIN lots
  BY FS_Interval, FS_Subset DEF IsLots, Ahead
<1>3. \A i \in DOMAIN lots : SharesOf(lots)[i] \in Int
  BY TaxLotAssumption DEF IsLots, TaxLot, SharesOf
<1>4. left \in Int
  BY <1>2, <1>3, SumType
<1>5. Remaining(lots, wanted, l) = left
  BY <1>2, SharesIsSum DEF Remaining, Ahead
<1>6. Used(lots, wanted)[l] = Max({0, Min({had, left})})
  BY <1>5 DEF Used
<1> HIDE DEF had, left
<1>7. Min({had, left}) = IF had <= left THEN had ELSE left
  BY <1>1, <1>4, MinOfTwo
<1>8. Used(lots, wanted)[l] = IF 0 >= Min({had, left}) THEN 0 ELSE Min({had, left})
  BY <1>1, <1>4, <1>6, <1>7, MaxOfTwo
<1>9. Used(lots, wanted)[l] = IF left <= 0 THEN 0 ELSE IF had <= left THEN had ELSE left
  BY <1>1, <1>4, <1>7, <1>8
<1> QED
  BY <1>1, <1>4, <1>9 DEF had, left

\* A set of lots that come first of all.
Downward(lots, S) == \A i \in S, j \in DOMAIN lots : RankedFirst(lots, j, i) => j \in S

\* The lots that come first give what they can of the sale together.
LEMMA FirstLotsGive ==
  ASSUME NEW lots, IsLots(lots), NEW wanted \in Nat
  PROVE  \A S \in SUBSET DOMAIN lots : Downward(lots, S) =>
             LET had == SumOver(SharesOf(lots), S)
             IN  SumOver(Used(lots, wanted), S) = IF had <= wanted THEN had ELSE wanted
<1> DEFINE had(S) == SumOver(SharesOf(lots), S)
           Gives(S) == SumOver(Used(lots, wanted), S) = IF had(S) <= wanted THEN had(S) ELSE wanted
           Bad == {S \in SUBSET DOMAIN lots : Downward(lots, S) /\ ~Gives(S)}
<1> SUFFICES ASSUME Bad # {} PROVE FALSE
  OBVIOUS
<1>0. IsFiniteSet(DOMAIN lots)
  BY FS_Interval DEF IsLots
<1>1. Bad \subseteq FiniteSubsetsOf(DOMAIN lots)
  BY <1>0, FS_Subset DEF FiniteSubsetsOf
<1>2. PICK S \in Bad : \A U \in Bad : U \subseteq S => U = S
  <2> HIDE DEF Bad
  <2> QED
    BY <1>1, SmallestSet
<1>3. S # {}
  <2>1. Gives({})
    BY SumOfNone
  <2> QED
    BY <1>2, <2>1
<1>4. PICK l \in S : \A m \in S \ {l} : RankedFirst(lots, m, l)
  BY <1>2, <1>3, SomeLotIsLast
<1> DEFINE U == S \ {l}
<1>5. U = Ahead(lots, l)
  BY <1>2, <1>4, RankIsTotal DEF Ahead, Downward
<1>6. Downward(lots, U)
  <2>1. ASSUME NEW i \in U, NEW j \in DOMAIN lots, RankedFirst(lots, j, i) PROVE j \in U
    BY <1>2, <1>4, <2>1, RankIsTotal DEF Downward
  <2> QED
    BY <2>1 DEF Downward
<1>7. Gives(U)
  BY <1>2, <1>4, <1>6
<1>8. /\ \A i \in DOMAIN lots : SharesOf(lots)[i] \in Nat /\ Used(lots, wanted)[i] \in Int
      /\ SharesOf(lots)[l] = lots[l].shares
  BY LotGives, <1>2, SMTT(30) DEF SharesOf
<1>9. had(U) \in Nat
  <2>1. IsFiniteSet(U) /\ \A i \in U : SharesOf(lots)[i] \in Nat
    BY <1>0, <1>2, <1>8, FS_Subset
  <2> QED
    BY <2>1, SumNat
<1>10. /\ had(S) = SharesOf(lots)[l] + had(U)
       /\ SumOver(Used(lots, wanted), S) = Used(lots, wanted)[l] + SumOver(Used(lots, wanted), U)
  <2>1. /\ IsFiniteSet(S) /\ \A i \in S : SharesOf(lots)[i] \in Int /\ Used(lots, wanted)[i] \in Int
    BY <1>0, <1>2, <1>8, FS_Subset
  <2> QED
    BY <1>4, <2>1, SumTakesOne
<1>11. LET left == wanted - had(U)
       IN  Used(lots, wanted)[l] = IF left <= 0 THEN 0 ELSE IF lots[l].shares <= left THEN lots[l].shares ELSE left
  BY <1>2, <1>5, LotGives
<1>12. Gives(S)
  <2> DEFINE h == had(U)
             u == SumOver(Used(lots, wanted), U)
             s == lots[l].shares
  <2>1. h \in Nat /\ s \in Nat /\ u = IF h <= wanted THEN h ELSE wanted
    BY <1>2, <1>7, <1>8, <1>9
  <2>2. /\ had(S) = s + h
        /\ SumOver(Used(lots, wanted), S) = Used(lots, wanted)[l] + u
        /\ Used(lots, wanted)[l] = IF wanted - h <= 0 THEN 0 ELSE IF s <= wanted - h THEN s ELSE wanted - h
    BY <1>8, <1>10, <1>11
  <2> HIDE DEF h, u, s, had
  <2>3. SumOver(Used(lots, wanted), S) = IF had(S) <= wanted THEN had(S) ELSE wanted
    BY <2>1, <2>2
  <2> QED
    BY <2>3 DEF had
<1> QED
  BY <1>2, <1>12

\* While a lot that comes earlier has some left, a later one gives nothing.
LEMMA LaterLotsWait ==
  ASSUME NEW lots, IsLots(lots), NEW wanted \in Nat, NEW i \in DOMAIN lots, NEW j \in DOMAIN lots,
         RankedFirst(lots, j, i), Used(lots, wanted)[i] > 0
  PROVE  Used(lots, wanted)[j] = lots[j].shares
<1>0. /\ IsFiniteSet(DOMAIN lots)
      /\ \A k \in DOMAIN lots : SharesOf(lots)[k] \in Nat /\ SharesOf(lots)[k] = lots[k].shares
  <2>1. IsFiniteSet(DOMAIN lots)
    BY FS_Interval DEF IsLots
  <2>2. ASSUME NEW k \in DOMAIN lots PROVE SharesOf(lots)[k] \in Nat /\ SharesOf(lots)[k] = lots[k].shares
    BY LotGives DEF SharesOf
  <2> QED
    BY <2>1, <2>2
<1> DEFINE A == Ahead(lots, j)
           B == Ahead(lots, i)
           sum(S) == SumOver(SharesOf(lots), S)
<1>1. A \cup {j} \subseteq B /\ j \notin A /\ B \subseteq DOMAIN lots
  BY RankIsTotal DEF Ahead
<1>2. IsFiniteSet(A) /\ IsFiniteSet(B)
  BY <1>0, <1>1, FS_Subset
<1>3. sum(A \cup {j}) = sum(A) + lots[j].shares
  <2>1. \A k \in A \cup {j} : SharesOf(lots)[k] \in Int
    BY <1>0, <1>1
  <2> HIDE DEF A
  <2>2. SumOver(SharesOf(lots), A \cup {j}) = SumOver(SharesOf(lots), A) + SharesOf(lots)[j]
    BY <1>1, <1>2, <2>1, SumAdds
  <2> QED
    BY <1>0, <2>2
<1>4. sum(A \cup {j}) <= sum(B)
  BY <1>0, <1>1, <1>2, SumGrows
<1>5. sum(A) \in Nat /\ sum(B) \in Nat
  BY <1>0, <1>1, <1>2, SumNat
<1>6. wanted - sum(B) > 0
  BY <1>5, LotGives
<1>7. lots[j].shares <= wanted - sum(A) /\ lots[j].shares \in Nat
  <2> HIDE DEF sum, A, B
  <2> QED
    BY <1>0, <1>3, <1>4, <1>5, <1>6
<1> QED
  BY <1>5, <1>7, LotGives

\* What SaleIsCovered says, with its sum named.
Covered(lots, wanted, used) ==
    LET gain(i) == lots[i].gain >= 0
        spare(i) == used[i] < lots[i].shares
    IN  /\ SumOver(used, DOMAIN used) = wanted
        /\ \A i \in DOMAIN used : used[i] \in 0 .. lots[i].shares
        /\ \A i, j \in DOMAIN used :
               used[i] > 0 /\ gain(i) /\ spare(j) => gain(j) /\ (lots[j].longTerm => lots[i].longTerm)

\* account_for_sale covers a sale of no more than the lots hold.
LEMMA UsedCovers ==
  ASSUME NEW lots, IsLots(lots), NEW wanted \in Nat, wanted <= Shares(lots, DOMAIN lots)
  PROVE  Covered(lots, wanted, Used(lots, wanted))
<1> DEFINE used == Used(lots, wanted)
<1>0. DOMAIN used = DOMAIN lots
  BY DEF Used
<1>1. SumOver(used, DOMAIN lots) = wanted
  <2>1. Downward(lots, DOMAIN lots)
    BY DEF Downward
  <2>2. wanted <= SumOver(SharesOf(lots), DOMAIN lots)
    BY SharesIsSum
  <2>3. SumOver(SharesOf(lots), DOMAIN lots) \in Nat
    <3>1. ASSUME NEW k \in DOMAIN lots PROVE SharesOf(lots)[k] \in Nat
      BY LotGives DEF SharesOf
    <3>2. IsFiniteSet(DOMAIN lots)
      BY FS_Interval DEF IsLots
    <3> QED
      BY <3>1, <3>2, SumNat
  <2>4. LET had == SumOver(SharesOf(lots), DOMAIN lots)
        IN  SumOver(used, DOMAIN lots) = IF had <= wanted THEN had ELSE wanted
    BY <2>1, FirstLotsGive
  <2> HIDE DEF used
  <2> QED
    BY <2>2, <2>3, <2>4
<1>2. ASSUME NEW i \in DOMAIN lots PROVE used[i] \in 0 .. lots[i].shares
  BY LotGives
<1>3. ASSUME NEW i \in DOMAIN lots, NEW j \in DOMAIN lots, used[i] > 0, lots[i].gain >= 0, used[j] < lots[j].shares
      PROVE  lots[j].gain >= 0 /\ (lots[j].longTerm => lots[i].longTerm)
  <2>1. used[j] # lots[j].shares
    BY <1>2, <1>3
  <2>2. ~RankedFirst(lots, j, i)
    BY <1>3, <2>1, LaterLotsWait
  <2>3. lots[i] \in TaxLot /\ lots[j] \in TaxLot
    BY DEF IsLots
  <2>4. ~Before(lots[j], lots[i])
    BY <2>2 DEF RankedFirst
  <2>5. /\ lots[i].gain \in Int /\ lots[j].gain \in Int
        /\ lots[i].longTerm \in BOOLEAN /\ lots[j].longTerm \in BOOLEAN
    BY <2>3, TaxLotAssumption DEF TaxLot
  <2>6. lots[j].gain >= 0
    BY <1>3, <2>4, <2>5 DEF Before
  <2>7. lots[j].longTerm => lots[i].longTerm
    BY <1>3, <2>4, <2>5, <2>6 DEF Before
  <2> QED
    BY <2>6, <2>7
<1> HIDE DEF used
<1>4. Covered(lots, wanted, used)
  BY <1>0, <1>1, <1>2, <1>3 DEF Covered
<1> QED
  BY <1>4 DEF used

SaleInv == Covered(sale.lots, sale.wanted, sale.used)

\* The property with its sum named.
LEMMA SaleIsCoveredSum == SaleInv <=> SaleIsCovered
<1>1. MapThenSumSet(LAMBDA i : sale.used[i], DOMAIN sale.used) = SumOver(sale.used, DOMAIN sale.used)
  BY DEF SumOver
<1> QED
  BY <1>1, Zenon DEF SaleInv, Covered, SaleIsCovered

\* A sale is charged in full to lots that have the shares, losses before gains
\* and long-term gains before short-term ones, for any number of lots and
\* shares.
THEOREM SalesAreCovered == TaxSpec => []SaleIsCovered
<1>1. TaxInit => SaleInv
  BY SumOfNone DEF TaxInit, SaleInv, Covered, NoSale
<1>2. SaleInv /\ [TaxNext]_sale => SaleInv'
  <2> SUFFICES ASSUME SaleInv, [TaxNext]_sale PROVE SaleInv'
    OBVIOUS
  <2>1. CASE UNCHANGED sale
    BY <2>1 DEF SaleInv
  <2>2. ASSUME NEW n \in 1 .. MaxLots, NEW lots \in [1 .. n -> TaxLot], NEW wanted \in 1 .. MaxLots * MaxShares,
               AccountForSale(lots, wanted)
        PROVE  SaleInv'
    <3>1. IsLots(lots) /\ wanted \in Nat
      BY TaxLotAssumption DEF IsLots
    <3>2. sale'.lots = lots /\ sale'.wanted = wanted /\ sale'.used = Used(lots, wanted)
      BY <2>2 DEF AccountForSale
    <3>3. Covered(lots, wanted, Used(lots, wanted))
      BY <2>2, <3>1, UsedCovers DEF AccountForSale
    <3> QED
      BY <3>2, <3>3 DEF SaleInv
  <2> QED
    BY <2>1, <2>2 DEF TaxNext
<1>3. SaleInv => SaleIsCovered
  BY SaleIsCoveredSum
<1> QED
  BY <1>1, <1>2, <1>3, PTL DEF TaxSpec
-----------------------------------------------------------------------------
(* The records of a trade side by side.                                      *)

\* What TLC explores of the records of a trade (MCTradeLifecycle) is what its
\* five modules allow, so their theorems speak of it: the lifecycle row, the
\* fills, the checkpoints and the research ledger and the lots of a sale
\* (account_for_sale) are modelled apart, each over state of its own.
THEOREM RecordsAreTheirParts ==
  MCSpec => Spec /\ FillSpec /\ LearningSpec /\ ResearchSpec /\ TaxSpec
<1>1. MCInit => Init /\ FillInit /\ LearningInit /\ ResearchInit /\ TaxInit
  BY DEF MCInit
<1>3. [MCNext]_allVars => /\ [Next]_vars /\ [FillNext]_fillVars /\ [LearningNext]_learningVars
                         /\ [ResearchNext]_researchVars /\ [TaxNext]_sale
  <2>1. CASE UNCHANGED allVars
    BY <2>1 DEF allVars
  <2> QED
    BY <2>1 DEF MCNext, ResearchNext
<1> QED
  BY <1>1, <1>3, PTL DEF MCSpec, Spec, FillSpec, LearningSpec, ResearchSpec, TaxSpec

\* Nothing that is recorded of a trade leaves its type, for any number of
\* workers, pollers, sessions and runs.
THEOREM RecordTypesHold == MCSpec => []MCTypeOK
<1>1. LearningInv => LearningTypeOK
  BY DEF LearningInv
<1>2. TypeOK /\ FillTypeOK /\ LearningTypeOK /\ ResearchTypeOK => MCTypeOK
  BY DEF MCTypeOK
<1>3. MCSpec => Spec /\ FillSpec /\ LearningSpec /\ ResearchSpec /\ TaxSpec
  BY RecordsAreTheirParts
<1> QED
  BY <1>1, <1>2, <1>3, LearningHolds, LifecycleTypeCorrect, FillTypeCorrect, ResearchTypesHold, PTL
=============================================================================
