----------------------------- MODULE MCDailyRun -----------------------------
(***************************************************************************)
(* DailyRun, Watchdogs and DeskShares on small instances: two processes of *)
(* the review, so that one may resume what the other left, and two symbols, *)
(* so that two screens can disagree; two watchers and two crashes, so that *)
(* one may die with the claim of the alert; two shares, so that the guard  *)
(* can fail at the first of them, beside one of the other sellers.         *)
(*                                                                         *)
(* The components share no state (the watchdog's own review stands for the *)
(* row it reads), so a behaviour follows one of them and the states of the *)
(* run add up: side says which.                                            *)
(***************************************************************************)
EXTENDS DailyRun, Watchdogs, DeskShares

CONSTANTS first, second

VARIABLE side

others == <<vars, watchVars, deskVars>>
allVars == <<others, side>>

MCListing == <<first, second>>

MCTypeOK == TypeOK /\ WatchTypeOK /\ DeskTypeOK

\* Prices move on the guard's own side; a position costs four ticks; the
\* pilot begins flat.
MCInit ==
    /\ Init /\ WatchInit /\ DeskInit
    /\ side \in {"review", "alert", "notice", "guard", "webhook", "pilot", "session"}
    /\ \A s \in Share : held[s].cost \in {0, 4}
    /\ side # "guard" => mark = [s \in Share |-> 3]
    /\ side \in {"review", "alert", "notice", "pilot"} => \A s \in Share : held[s].lots = 0

Review == side = "review" /\ UNCHANGED <<watchVars, deskVars, side>>
Alert == side = "alert" /\ UNCHANGED <<vars, deskVars, side>>
Notice == side = "notice" /\ UNCHANGED <<vars, deskVars, side>>
Desk == side \in {"guard", "webhook", "pilot", "session"} /\ UNCHANGED <<vars, watchVars, side>>

DeskSide ==
    \/ GuardNext \/ BrokerNext \/ NextPhase
    \/ side = "guard" /\ \E s \in Share : MarkMoves(s) \/ CoolDown(s) \/ CooldownEnds(s)
    \/ side = "webhook" /\ \E t \in Thread : PostAlert(t) \/ PlaceAlert(t)
    \/ side = "pilot" /\ (PilotNext \/ Kill)
    \/ side = "session" /\ SessionNext

MCNext ==
    \/ Review /\ Next
    \/ Alert /\ AlertNext
    \/ Notice /\ NoticeNext
    \/ Desk /\ DeskSide

MCSpec ==
    /\ MCInit /\ [][MCNext]_allVars
    /\ \A o \in Owner : WF_allVars(Review /\ OwnerStep(o))
    /\ \A w \in Watcher : WF_allVars(Alert /\ WatchStep(w)) /\ SF_allVars(Alert /\ AlertArrives(w))
    /\ WF_allVars(Desk /\ GuardNext)
    /\ WF_allVars(Desk /\ side = "pilot" /\ PilotNext)
    /\ SF_allVars(Desk /\ NextPhase)
    /\ \A s \in Share : WF_allVars(Desk /\ side = "guard" /\ CooldownEnds(s))
=============================================================================
