-------------------------- MODULE MCTradeLifecycle --------------------------
(***************************************************************************)
(* The records of a trade on small instances. TradeLifecycle: three workers *)
(* and four session runs over one symbol (rows, leases and orders of        *)
(* different symbols never touch), entries of two lots so that a sale may   *)
(* be partial; "shared" adds the other flows and the drift check to two of  *)
(* the workers and three of the runs. FillLedger: two pollers of one order  *)
(* while a foreign order fills the page. LearningLoop: two sessions over    *)
(* the checkpoints of a trade and of a shadow idea. ResearchLedger and      *)
(* TaxLots over small data.                                                 *)
(*                                                                          *)
(* The components share no state, so a behaviour follows one of them and    *)
(* the states of the run add up: side says which.                           *)
(***************************************************************************)
EXTENDS TradeLifecycle, FillLedger, LearningLoop, ResearchLedger, TaxLots

MCGain == {-1, 0, 1}

\* The drift check and the trades of other flows are explored with one worker
\* and one session run fewer.
Spare == CHOOSE w \in Worker : TRUE

SpareApproval == CHOOSE a \in Approval : TRUE

VARIABLE side

allVars == <<vars, fillVars, learningVars, researchVars, sale, side>>

MCTypeOK == TypeOK /\ FillTypeOK /\ LearningTypeOK /\ ResearchTypeOK

MCInit ==
    /\ side \in {"lifecycle", "shared", "fills", "learning", "research", "decisions", "lots"}
    /\ Init /\ FillInit /\ LearningInit /\ TaxInit
    /\ ResearchInit
    /\ side # "research" =>
           about = [need |-> [e \in Experiment |-> 0], of |-> [r \in Run |-> CHOOSE e \in Experiment : TRUE],
                    count |-> [r \in Run |-> 0]]

MCNext ==
    /\ \/ /\ Next
          /\ \/ side = "lifecycle" /\ UNCHANGED apart
             \/ side = "shared" /\ pc'[Spare] = "idle" /\ order'[SpareApproval].state = "unused"
          /\ UNCHANGED <<fillVars, learningVars, researchVars, sale>>
       \/ side = "fills" /\ FillNext /\ UNCHANGED <<vars, learningVars, researchVars, sale>>
       \/ side = "learning" /\ LearningNext /\ UNCHANGED <<vars, fillVars, researchVars, sale>>
       \/ side = "research" /\ GovernNext /\ UNCHANGED <<vars, fillVars, learningVars, sale>>
       \/ side = "decisions" /\ decision = NoDecision /\ DecideNext /\ UNCHANGED <<vars, fillVars, learningVars, sale>>
       \/ side = "lots" /\ sale = NoSale /\ TaxNext /\ UNCHANGED <<vars, fillVars, learningVars, researchVars>>
    /\ UNCHANGED side

MCSpec == MCInit /\ [][MCNext]_allVars
=============================================================================
