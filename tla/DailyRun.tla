------------------------------ MODULE DailyRun ------------------------------
(***************************************************************************)
(* The daily review of one account on one date (DailyOrchestrator.run_daily *)
(* over the tables daily_runs, daily_run_checkpoints,                       *)
(* shadow_equity_recommendations, learning_checkpoints, trade_lifecycles    *)
(* and daily_review_states).  Every process that starts the review claims   *)
(* the same run key; each database call is a transaction of its own, and    *)
(* between two of them another process may run, or this one may die.        *)
(***************************************************************************)
EXTENDS Naturals

CONSTANTS
    Owner,     \* processes that may run the review
    Symbol,    \* tickers
    NoSymbol,  \* no qualifying idea
    None,      \* a row that has not been written
    Prompt,    \* TRUE: no live review needs the thirty minutes of stale_after
    DueDates   \* TRUE: the host passes learning_due_dates; the CLI passes none

ASSUME SymbolAssumption == NoSymbol \notin Symbol /\ None \notin Symbol /\ None # NoSymbol

ASSUME PromptAssumption == Prompt \in BOOLEAN /\ DueDates \in BOOLEAN

VARIABLES
    run,        \* status of the daily_runs row
    stale,      \* the row has been running for thirty minutes
    preflight,  \* status of the preflight checkpoint
    saved,      \* payload of the screen checkpoint
    shadow,     \* symbol of the shadow recommendation
    noted,      \* symbol in the shadow checkpoint
    scheduled,  \* the shadow recommendation has learning checkpoints
    tasks,      \* symbols that have a lifecycle task
    today,      \* the newest daily_review_states row is this date's
    decision,   \* payload of the decision checkpoint
    pc,         \* the step an owner is about to take
    idea,       \* the screen it works with
    compared,   \* the state it compares with is this date's own
    summaries,  \* history: results returned to the host
    echoed,     \* history: a returned result compares the date with itself
    died        \* history: a process died inside the review

rows == <<run, stale, preflight, saved, shadow, noted, scheduled, tasks, today, decision>>
local == <<pc, idea, compared>>
history == <<summaries, echoed, died>>
vars == <<rows, local, history>>

\* What the decision reads from a screen: the best qualified idea, which only
\* becomes the shadow, and the best one that is also eligible for execution.
Screen == {s \in [shadow : Symbol \cup {NoSymbol}, pick : Symbol \cup {NoSymbol}] :
              s.pick # NoSymbol => s.shadow # NoSymbol}

ASSUME ScreenAssumption == None \notin Screen

RunStatus == {"absent", "running", "completed", "failed"}

PC == {"idle", "open", "verify", "load", "screen", "store", "shadow", "learn", "note",
       "lookup", "begin", "compare", "save", "decide", "complete", "failing"}

TypeOK ==
    /\ run \in RunStatus
    /\ stale \in BOOLEAN
    /\ preflight \in {"none", "running", "completed"}
    /\ saved \in Screen \cup {None}
    /\ shadow \in Symbol \cup {NoSymbol, None}
    /\ noted \in Symbol \cup {NoSymbol, None}
    /\ scheduled \in BOOLEAN
    /\ tasks \subseteq Symbol
    /\ today \in BOOLEAN
    /\ decision \in Screen \cup {None}
    /\ pc \in [Owner -> PC]
    /\ idea \in [Owner -> Screen \cup {None}]
    /\ compared \in [Owner -> BOOLEAN]
    /\ summaries \in Nat
    /\ echoed \in BOOLEAN
    /\ died \in BOOLEAN

Init ==
    /\ run = "absent"
    /\ stale = FALSE
    /\ preflight = "none"
    /\ saved = None
    /\ shadow = None
    /\ noted = None
    /\ scheduled = FALSE
    /\ tasks = {}
    /\ today = FALSE
    /\ decision = None
    /\ pc = [o \in Owner |-> "idle"]
    /\ idea = [o \in Owner |-> None]
    /\ compared = [o \in Owner |-> FALSE]
    /\ summaries = 0
    /\ echoed = FALSE
    /\ died = FALSE

Active(o) == pc[o] # "idle"

At(o, step) == pc[o] = step

\* Owner o goes on to its next step; nothing it remembers changes.
Goto(o, step) ==
    /\ pc' = [pc EXCEPT ![o] = step]
    /\ UNCHANGED <<idea, compared>>

\* The call returns, raises or dies.
Return(o) ==
    /\ pc' = [pc EXCEPT ![o] = "idle"]
    /\ idea' = [idea EXCEPT ![o] = None]
    /\ compared' = [compared EXCEPT ![o] = FALSE]

-----------------------------------------------------------------------------
\* bug: a running row is re-claimed without looking at its age
ClaimableAtOnce == run \in {"absent", "running"}

\* Completed and failed rows are never claimed again; a running one is when it
\* is thirty minutes old, whether or not its owner is still at work.
Claimable == run = "absent" \/ (run = "running" /\ stale)

Claim(o) ==
    /\ At(o, "idle")
    /\ Claimable
    /\ run' = "running"
    /\ stale' = FALSE
    /\ Goto(o, "open")
    /\ UNCHANGED <<preflight, saved, shadow, noted, scheduled, tasks, today, decision, history>>

OpenPreflight(o) ==
    /\ At(o, "open")
    /\ preflight' = "running"
    /\ Goto(o, "verify")
    /\ UNCHANGED <<run, stale, saved, shadow, noted, scheduled, tasks, today, decision, history>>

\* The manifest is fresh and the broker's state shows no drift.
PassPreflight(o) ==
    /\ At(o, "verify")
    /\ preflight' = "completed"
    /\ Goto(o, "load")
    /\ UNCHANGED <<run, stale, saved, shadow, noted, scheduled, tasks, today, decision, history>>

\* Stale data, drift, or an error of the host's screen ends the review.
Raise(o) ==
    /\ pc[o] \in {"verify", "screen"}
    /\ Goto(o, "failing")
    /\ UNCHANGED <<rows, history>>

\* bug: a review that finds a screen takes the shadow for recorded, too
LoadPastShadow(o) ==
    /\ At(o, "load")
    /\ IF saved = None THEN Goto(o, "screen")
       ELSE /\ pc' = [pc EXCEPT ![o] = "note"]
            /\ idea' = [idea EXCEPT ![o] = saved]
            /\ UNCHANGED compared
    /\ UNCHANGED <<rows, history>>

\* A completed screen is reused, otherwise the screen runs.
LoadScreen(o) ==
    /\ At(o, "load")
    /\ IF saved = None THEN Goto(o, "screen")
       ELSE /\ pc' = [pc EXCEPT ![o] = "shadow"]
            /\ idea' = [idea EXCEPT ![o] = saved]
            /\ UNCHANGED compared
    /\ UNCHANGED <<rows, history>>

\* The host screens the market; the same question asked twice may have two
\* answers.
RunScreen(o) ==
    /\ At(o, "screen")
    /\ \E s \in Screen : idea' = [idea EXCEPT ![o] = s]
    /\ pc' = [pc EXCEPT ![o] = "store"]
    /\ UNCHANGED <<compared, rows, history>>

StoreScreen(o) ==
    /\ At(o, "store")
    /\ saved' = idea[o]
    /\ Goto(o, "shadow")
    /\ UNCHANGED <<run, stale, preflight, shadow, noted, scheduled, tasks, today, decision, history>>

\* INSERT OR IGNORE: the first recommendation of the date stays.
RecordShadow(o) ==
    /\ At(o, "shadow")
    /\ shadow' = IF shadow = None THEN idea[o].shadow ELSE shadow
    /\ Goto(o, IF idea[o].shadow # NoSymbol /\ DueDates THEN "learn" ELSE "note")
    /\ UNCHANGED <<run, stale, preflight, saved, noted, scheduled, tasks, today, decision, history>>

\* The host gives the due dates of the follow-ups.
ScheduleLearning(o) ==
    /\ At(o, "learn")
    /\ scheduled' = TRUE
    /\ Goto(o, "note")
    /\ UNCHANGED <<run, stale, preflight, saved, shadow, noted, tasks, today, decision, history>>

\* The checkpoint names the owner's own shadow, not the recorded one.
NoteShadow(o) ==
    /\ At(o, "note")
    /\ noted' = idea[o].shadow
    /\ Goto(o, IF idea[o].pick = NoSymbol THEN "compare" ELSE "lookup")
    /\ UNCHANGED <<run, stale, preflight, saved, shadow, scheduled, tasks, today, decision, history>>

LookupTask(o) ==
    /\ At(o, "lookup")
    /\ Goto(o, IF idea[o].pick \in tasks THEN "compare" ELSE "begin")
    /\ UNCHANGED <<rows, history>>

\* The lookup found no task.  Somebody else may have begun one since; the
\* insert then raises, which fails the review.
BeginTask(o) ==
    /\ At(o, "begin")
    /\ tasks' = tasks \cup {idea[o].pick}
    /\ Goto(o, IF idea[o].pick \in tasks THEN "failing" ELSE "compare")
    /\ UNCHANGED <<run, stale, preflight, saved, shadow, noted, scheduled, today, decision, history>>

\* bug: today's state is written before the previous one is read
CompareAfterSave(o) ==
    /\ At(o, "compare")
    /\ today' = TRUE
    /\ compared' = [compared EXCEPT ![o] = TRUE]
    /\ pc' = [pc EXCEPT ![o] = "decide"]
    /\ UNCHANGED <<idea, run, stale, preflight, saved, shadow, noted, scheduled, tasks, decision,
                   history>>

\* The newest state of the account is read, whatever its date.
CompareStates(o) ==
    /\ At(o, "compare")
    /\ compared' = [compared EXCEPT ![o] = today]
    /\ pc' = [pc EXCEPT ![o] = "save"]
    /\ UNCHANGED <<idea, rows, history>>

SaveReviewState(o) ==
    /\ At(o, "save")
    /\ today' = TRUE
    /\ Goto(o, "decide")
    /\ UNCHANGED <<run, stale, preflight, saved, shadow, noted, scheduled, tasks, decision, history>>

Decide(o) ==
    /\ At(o, "decide")
    /\ decision' = idea[o]
    /\ Goto(o, "complete")
    /\ UNCHANGED <<run, stale, preflight, saved, shadow, noted, scheduled, tasks, today, history>>

\* bug: the row is closed under a status no reader knows
CompleteUnknown(o) ==
    /\ At(o, "complete")
    /\ run' = "done"
    /\ Return(o)
    /\ UNCHANGED <<stale, preflight, saved, shadow, noted, scheduled, tasks, today, decision,
                   history>>

\* The update names the run key and nothing else: whoever claimed the row
\* last, and whatever it says.
Complete(o) ==
    /\ At(o, "complete")
    /\ run' = "completed"
    /\ summaries' = summaries + 1
    /\ echoed' = (echoed \/ compared[o])
    /\ Return(o)
    /\ UNCHANGED <<stale, preflight, saved, shadow, noted, scheduled, tasks, today, decision, died>>

\* bug: the exception leaves the row running
FailSilently(o) ==
    /\ At(o, "failing")
    /\ Return(o)
    /\ UNCHANGED <<rows, history>>

Fail(o) ==
    /\ At(o, "failing")
    /\ run' = "failed"
    /\ Return(o)
    /\ UNCHANGED <<stale, preflight, saved, shadow, noted, scheduled, tasks, today, decision, history>>

-----------------------------------------------------------------------------
\* The process dies between two database calls.
Crash(o) ==
    /\ Active(o)
    /\ died' = TRUE
    /\ Return(o)
    /\ UNCHANGED <<rows, summaries, echoed>>

\* Thirty minutes pass; while a review is at work only if it may be that slow.
RowAges ==
    /\ run = "running"
    /\ ~stale
    /\ Prompt => \A o \in Owner : ~Active(o)
    /\ stale' = TRUE
    /\ UNCHANGED <<run, preflight, saved, shadow, noted, scheduled, tasks, today, decision, local,
                   history>>

\* A purchase of another session begins the symbol's task.
OthersBegin(s) ==
    /\ s \notin tasks
    /\ tasks' = tasks \cup {s}
    /\ UNCHANGED <<run, stale, preflight, saved, shadow, noted, scheduled, today, decision, local,
                   history>>

OwnerStep(o) ==
    \/ OpenPreflight(o) \/ PassPreflight(o) \/ Raise(o)
    \/ LoadScreen(o) \/ RunScreen(o) \/ StoreScreen(o)
    \/ RecordShadow(o) \/ ScheduleLearning(o) \/ NoteShadow(o)
    \/ LookupTask(o) \/ BeginTask(o)
    \/ CompareStates(o) \/ SaveReviewState(o) \/ Decide(o)
    \/ Complete(o) \/ Fail(o)

Next ==
    \/ \E o \in Owner : Claim(o) \/ OwnerStep(o) \/ Crash(o)
    \/ RowAges
    \/ \E s \in Symbol : OthersBegin(s)

Spec == Init /\ [][Next]_vars

\* A live process goes on; nobody has to start the review or to restart it.
FairSpec == Spec /\ \A o \in Owner : WF_vars(OwnerStep(o))

-----------------------------------------------------------------------------
\* One account and date sends one morning summary (README.md:221), however
\* often the review is started, interrupted and resumed.
OneSummary == summaries <= 1

\* A completed review is whole, although several processes may have written
\* its parts: the preflight passed, the recommendation, its checkpoint and the
\* decision are those of the saved screen, a shadow idea will be followed up if
\* the host gives due dates, and an executable one has its lifecycle task.
CompletedRunIsWhole ==
    run = "completed" =>
        /\ preflight = "completed"
        /\ saved # None
        /\ shadow = saved.shadow
        /\ noted = saved.shadow
        /\ decision = saved
        /\ saved.shadow # NoSymbol /\ DueDates => scheduled
        /\ saved.pick # NoSymbol => saved.pick \in tasks

\* A summary reports the changes against an earlier date; it compares the date
\* with itself only when a process died after saving its state.
ChangesSpanADay == echoed => died

\* A screen that was saved is reused by whoever resumes (README.md:222): no
\* later step replaces it.
ScreenStands == [][saved # None => saved' = saved]_vars

\* What a review was closed with is final: a completed one does not turn
\* failed under a late exception of another process, nor the reverse.
VerdictStands == [][(run \in {"completed", "failed"}) => (run' = run)]_vars

\* A review whose process lives is closed, completed or failed; it does not
\* stay running until the watchdog reports it missed.
RunSettles == run = "running" ~> (run # "running" \/ died)
=============================================================================
