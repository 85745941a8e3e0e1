------------------------------ MODULE Watchdogs ------------------------------
(***************************************************************************)
(* The processes that tell a person what the others did or failed to do:    *)
(* the watchdog command of the CLI (table health_alerts), the standalone    *)
(* watchdog that reads only the host's memory file, and notify.py, which    *)
(* compares the account with what it saw the last time. Every message goes  *)
(* to Slack, may be lost, and its answer may be lost too.                   *)
(***************************************************************************)
EXTENDS Naturals, FiniteSets

CONSTANTS
    Watcher,    \* processes of the CLI watchdog, started by a timer
    MaxCrashes, \* bound: processes that die between two of their steps
    MaxChanges  \* bound: changes of the account

ASSUME WatchAssumption == MaxCrashes \in Nat /\ MaxChanges \in Nat

VARIABLES
    review,  \* the row of the day in daily_runs
    late,    \* the grace period after the scheduled time is over
    alert,   \* the row of the day in health_alerts
    watch,   \* the step a watcher is about to take
    memory,  \* the memory file names a completion of the day
    alone,   \* the standalone watchdog: its step and its state file
    reported,\* a message about the missed review reached Slack
    account, \* changes of positions, orders and guard signals so far
    notice,  \* notify.py: its step, the changes in its state file, those it saw before and now
    told,    \* ghost: the messages that told a change
    crashes  \* processes that died

watchVars == <<review, late, alert, watch, memory, alone, reported, account, notice, told, crashes>>

Change == 1 .. MaxChanges

WatchTypeOK ==
    /\ review \in {"missing", "running", "completed", "failed"}
    /\ late \in BOOLEAN /\ memory \in BOOLEAN
    /\ alert \in {"none", "pending", "sent", "failed"}
    /\ watch \in [Watcher -> {"idle", "claim", "send", "sent", "failed"}]
    /\ alone \in [pc : {"idle", "send", "store"}, alerted : BOOLEAN]
    /\ reported \in BOOLEAN /\ account \in 0 .. MaxChanges
    /\ notice \in [pc : {"idle", "send"}, stored : BOOLEAN, saved : 0 .. MaxChanges, from : 0 .. MaxChanges]
    /\ told \in [Change -> Nat]
    /\ crashes \in 0 .. MaxCrashes

WatchInit ==
    /\ review = "missing" /\ late = FALSE /\ memory = FALSE
    /\ alert = "none"
    /\ watch = [w \in Watcher |-> "idle"]
    /\ alone = [pc |-> "idle", alerted |-> FALSE]
    /\ reported = FALSE /\ account = 0
    /\ notice = [pc |-> "idle", stored |-> FALSE, saved |-> 0, from |-> 0]
    /\ told = [c \in Change |-> 0]
    /\ crashes = 0

-----------------------------------------------------------------------------
\* The day: the review runs (DailyRun), the host notes its completion in the
\* memory file, the grace period ends.

ReviewMoves ==
    /\ \/ review = "missing" /\ review' = "running"
       \/ review = "running" /\ review' \in {"completed", "failed"}
    /\ UNCHANGED <<late, alert, watch, memory, alone, reported, account, notice, told, crashes>>

NoteCompletion ==
    /\ review = "completed" /\ ~memory
    /\ memory' = TRUE
    /\ UNCHANGED <<review, late, alert, watch, alone, reported, account, notice, told, crashes>>

GraceEnds ==
    /\ ~late
    /\ late' = TRUE
    /\ UNCHANGED <<review, alert, watch, memory, alone, reported, account, notice, told, crashes>>

-----------------------------------------------------------------------------
\* The watchdog command.

\* check_daily_run_watchdog: not due, healthy or missed.
CheckRun(w) ==
    /\ watch[w] = "idle"
    /\ late /\ review # "completed"
    /\ watch' = [watch EXCEPT ![w] = "claim"]
    /\ UNCHANGED <<review, late, alert, memory, alone, reported, account, notice, told, crashes>>

\* bug: a claim that another process holds is refused too
ClaimFreeAlert(w) ==
    /\ watch[w] = "claim"
    /\ IF alert \in {"pending", "sent"} THEN watch' = [watch EXCEPT ![w] = "idle"] /\ UNCHANGED alert
       ELSE watch' = [watch EXCEPT ![w] = "send"] /\ alert' = "pending"
    /\ UNCHANGED <<review, late, memory, alone, reported, account, notice, told, crashes>>

\* claim_health_alert: only an alert that was sent is refused.
ClaimAlert(w) ==
    /\ watch[w] = "claim"
    /\ IF alert = "sent" THEN watch' = [watch EXCEPT ![w] = "idle"] /\ UNCHANGED alert
       ELSE watch' = [watch EXCEPT ![w] = "send"] /\ alert' = "pending"
    /\ UNCHANGED <<review, late, memory, alone, reported, account, notice, told, crashes>>

\* send_health_alert: the message arrives, or not; the answer arrives, or not.
AlertArrives(w) ==
    /\ watch[w] = "send"
    /\ reported' = TRUE
    /\ watch' \in {[watch EXCEPT ![w] = "sent"], [watch EXCEPT ![w] = "failed"]}
    /\ UNCHANGED <<review, late, alert, memory, alone, account, notice, told, crashes>>

AlertIsLost(w) ==
    /\ watch[w] = "send"
    /\ watch' = [watch EXCEPT ![w] = "failed"]
    /\ UNCHANGED <<review, late, alert, memory, alone, reported, account, notice, told, crashes>>

\* complete_health_alert.
CompleteAlert(w) ==
    /\ watch[w] \in {"sent", "failed"}
    /\ alert' = watch[w]
    /\ watch' = [watch EXCEPT ![w] = "idle"]
    /\ UNCHANGED <<review, late, memory, alone, reported, account, notice, told, crashes>>

-----------------------------------------------------------------------------
\* The standalone watchdog.

CheckMemory ==
    /\ alone.pc = "idle" /\ late /\ ~memory /\ ~alone.alerted
    /\ alone' = [alone EXCEPT !.pc = "send"]
    /\ UNCHANGED <<review, late, alert, watch, memory, reported, account, notice, told, crashes>>

SendAlone ==
    /\ alone.pc = "send"
    /\ \/ reported' = TRUE /\ alone' = [alone EXCEPT !.pc = "store"]
       \/ reported' = reported /\ alone' = [alone EXCEPT !.pc = "idle"]
    /\ UNCHANGED <<review, late, alert, watch, memory, account, notice, told, crashes>>

StoreAlone ==
    /\ alone.pc = "store"
    /\ alone' = [pc |-> "idle", alerted |-> TRUE]
    /\ UNCHANGED <<review, late, alert, watch, memory, reported, account, notice, told, crashes>>

-----------------------------------------------------------------------------
\* notify.py --watch.

AccountChanges ==
    /\ account < MaxChanges
    /\ account' = account + 1
    /\ UNCHANGED <<review, late, alert, watch, memory, alone, reported, notice, told, crashes>>

\* The state file is read and written before anything is sent; the first run
\* only records a baseline.
WatchAccount ==
    /\ notice.pc = "idle"
    /\ notice' = [pc |-> IF notice.stored /\ notice.saved # account THEN "send" ELSE "idle",
                  stored |-> TRUE, saved |-> account, from |-> notice.saved]
    /\ UNCHANGED <<review, late, alert, watch, memory, alone, reported, account, told, crashes>>

\* bug: a failure puts the old snapshot back, so that the next run repeats it
SendNoticeOrRestore ==
    /\ notice.pc = "send"
    /\ \/ told' = [c \in Change |-> IF c > notice.from /\ c <= notice.saved THEN told[c] + 1 ELSE told[c]]
       \/ UNCHANGED told
    /\ \/ notice' = [notice EXCEPT !.pc = "idle"]
       \/ notice' = [notice EXCEPT !.pc = "idle", !.saved = notice.from]
    /\ UNCHANGED <<review, late, alert, watch, memory, alone, reported, account, crashes>>

\* The message tells all changes between the two snapshots. A failure of the
\* transport ends the script.
SendNotice ==
    /\ notice.pc = "send"
    /\ \/ told' = [c \in Change |-> IF c > notice.from /\ c <= notice.saved THEN told[c] + 1 ELSE told[c]]
       \/ UNCHANGED told
    /\ notice' = [notice EXCEPT !.pc = "idle"]
    /\ UNCHANGED <<review, late, alert, watch, memory, alone, reported, account, crashes>>

-----------------------------------------------------------------------------
WatcherDies(w) ==
    /\ crashes < MaxCrashes
    /\ watch[w] # "idle"
    /\ watch' = [watch EXCEPT ![w] = "idle"]
    /\ crashes' = crashes + 1
    /\ UNCHANGED <<review, late, alert, memory, alone, reported, account, notice, told>>

StandaloneDies ==
    /\ crashes < MaxCrashes
    /\ alone.pc # "idle"
    /\ alone' = [alone EXCEPT !.pc = "idle"]
    /\ crashes' = crashes + 1
    /\ UNCHANGED <<review, late, alert, watch, memory, reported, account, notice, told>>

WatchStep(w) == CheckRun(w) \/ ClaimAlert(w) \/ AlertArrives(w) \/ AlertIsLost(w) \/ CompleteAlert(w)

AlertNext ==
    \/ ReviewMoves \/ NoteCompletion \/ GraceEnds
    \/ \E w \in Watcher : WatchStep(w) \/ WatcherDies(w)
    \/ CheckMemory \/ SendAlone \/ StoreAlone \/ StandaloneDies

NoticeNext == AccountChanges \/ WatchAccount \/ SendNotice

WatchNext == AlertNext \/ NoticeNext

WatchSafetySpec == WatchInit /\ [][WatchNext]_watchVars

\* The timer starts the watchdog again and again, and Slack takes a message
\* that is sent often enough.
WatchSpec ==
    /\ WatchSafetySpec
    /\ \A w \in Watcher : WF_watchVars(WatchStep(w)) /\ SF_watchVars(AlertArrives(w))

-----------------------------------------------------------------------------
(* A review that is not completed when its grace period ends is reported, or *)
(* completes after all: neither a watcher that died with its claim nor a     *)
(* lost message keeps the others quiet (claim_health_alert refuses only what *)
(* was sent).                                                                *)
MissedRunIsReported ==
    late /\ review # "completed" ~> reported \/ review = "completed"

(* An alert counts as sent only when it reached Slack, and no message about  *)
(* the account is repeated: notify.py tells a change at most once, whatever  *)
(* fails.                                                                    *)
MessagesAreHonest ==
    /\ alert = "sent" => reported
    /\ \A c \in Change : told[c] <= 1
=============================================================================
