--------------------------- MODULE DailyRunProofs ---------------------------
(***************************************************************************)
(* What the processes of a day may not do, however many there are of them.  *)
(*                                                                          *)
(* The daily review, for any number of processes and symbols, provided that *)
(* no live review needs the thirty minutes after which another process may  *)
(* claim it (Prompt).  Processes may die at any step.  The inductive        *)
(* invariant says that at most one process is inside the review, that it is *)
(* inside only while the row is running and fresh, and how much of the      *)
(* record is written at each of its steps, whoever wrote it.                *)
(*                                                                          *)
(* The watchers' messages, for any number of watchers, deaths and changes   *)
(* of the account.  A watcher that is about to note a delivery has made     *)
(* one; and notify.py has told nobody of a change that is newer than its    *)
(* snapshot, or, while a message is on its way, newer than the snapshot it  *)
(* compared with.                                                           *)
(*                                                                          *)
(* The pilot's file of entries, for any shares, prices and number of other  *)
(* sellers.  A share that is owed has a position or a purchase that rests,  *)
(* nothing rests to be bought before the market has opened, and so the exit *)
(* session finds no position flat that it still owes: what it drops it has  *)
(* offered.                                                                 *)
(*                                                                          *)
(* The three side by side are what TLC explores of a day.                   *)
(***************************************************************************)
EXTENDS MCDailyRun, FiniteSetTheorems, TLAPS

\* One process at a time, and only while the row is running.
Exclusive ==
    /\ \A o \in Owner : Active(o) => run = "running" /\ ~stale
    /\ \A o, p \in Owner : Active(o) /\ Active(p) => o = p

\* A summary was returned exactly when the row says completed.
Counted == summaries = IF run = "completed" THEN 1 ELSE 0

\* The steps at which the owner has passed a part of the record.
Decided == {"complete"}
Tasked == {"compare", "save", "decide"} \cup Decided
Noted == {"lookup", "begin"} \cup Tasked
Learned == {"note"} \cup Noted
Shadowed == {"learn"} \cup Learned
Screened == {"shadow"} \cup Shadowed
Verified == {"load", "screen", "store"} \cup Screened

\* An owner that is past the screen works with one, and begins a task only for
\* an idea that may be executed.
HasIdea(o) ==
    /\ pc[o] \in {"store"} \cup Screened => idea[o] \in Screen
    /\ pc[o] \in {"lookup", "begin"} => idea[o].pick # NoSymbol

Typed == TypeOK /\ \A o \in Owner : HasIdea(o)

\* What is written once the owner has come this far.
Progress(o) ==
    /\ pc[o] \in {"screen", "store"} => saved = None
    /\ pc[o] \in Verified => preflight = "completed"
    /\ pc[o] \in Screened => saved # None /\ idea[o] = saved
    /\ pc[o] \in Shadowed => shadow = saved.shadow
    /\ pc[o] \in Learned => (saved.shadow # NoSymbol /\ DueDates => scheduled)
    /\ pc[o] \in Noted => noted = saved.shadow
    /\ pc[o] \in Tasked => (saved.pick # NoSymbol => saved.pick \in tasks)
    /\ pc[o] \in Decided => decision = saved
    /\ pc[o] \in {"decide", "complete"} => today

\* The recommendation of the date is that of the saved screen.
ShadowIsScreened == shadow # None => saved # None /\ shadow = saved.shadow

\* A state of this date is compared with itself only after a death.
Echo ==
    /\ \A o \in Owner : compared[o] => died
    /\ today => died \/ run = "completed" \/ \E o \in Owner : pc[o] \in {"decide", "complete"}
    /\ echoed => died

IInv ==
    /\ Typed
    /\ Exclusive
    /\ Counted
    /\ \A o \in Owner : Progress(o)
    /\ ShadowIsScreened
    /\ CompletedRunIsWhole
    /\ Echo

-----------------------------------------------------------------------------
\* Every variable keeps its type; this needs nothing of the rest.
LEMMA TypeStep == Typed /\ [Next]_vars => Typed'
<1> SUFFICES ASSUME Typed, [Next]_vars PROVE Typed'
  OBVIOUS
<1> USE DEF Typed, HasIdea, Screened, Shadowed, Learned, Noted, Tasked, Decided, TypeOK, PC, RunStatus, At, Goto, Return
<1>1. ASSUME NEW o \in Owner, Claim(o) PROVE Typed'
  <2>1. /\ run' = "running" /\ stale' = FALSE /\ pc' = [pc EXCEPT ![o] = "open"]
        /\ preflight' = preflight /\ saved' = saved /\ shadow' = shadow /\ noted' = noted /\ scheduled' = scheduled
        /\ tasks' = tasks /\ today' = today /\ decision' = decision /\ idea' = idea /\ compared' = compared
        /\ summaries' = summaries /\ echoed' = echoed /\ died' = died
    BY <1>1 DEF Claim, history
  <2>2. run' \in RunStatus /\ pc' \in [Owner -> PC]
    BY <2>1
  <2>3. TypeOK'
    <3> HIDE DEF Typed, HasIdea, Screened, PC, RunStatus
    <3>1. TypeOK /\ FALSE \in BOOLEAN
      BY DEF Typed
    <3> QED
      BY <2>1, <2>2, <3>1, ZenonT(40)
  <2>4. ASSUME NEW p \in Owner PROVE HasIdea(p)'
    BY <2>1
  <2> QED
    BY <2>3, <2>4
<1>2. ASSUME NEW o \in Owner, OpenPreflight(o) PROVE Typed'
  BY <1>2 DEF OpenPreflight, rows, history
<1>3. ASSUME NEW o \in Owner, PassPreflight(o) PROVE Typed'
  BY <1>3 DEF PassPreflight, rows, history
<1>4. ASSUME NEW o \in Owner, Raise(o) PROVE Typed'
  BY <1>4 DEF Raise, rows, history
<1>5. ASSUME NEW o \in Owner, LoadScreen(o) PROVE Typed'
  BY <1>5 DEF LoadScreen, rows, history
<1>6. ASSUME NEW o \in Owner, RunScreen(o) PROVE Typed'
  BY <1>6 DEF RunScreen, rows, history
<1>7. ASSUME NEW o \in Owner, StoreScreen(o) PROVE Typed'
  BY <1>7 DEF StoreScreen, rows, history
<1>8. ASSUME NEW o \in Owner, RecordShadow(o) PROVE Typed'
  BY <1>8 DEF RecordShadow, Screen, rows, history
<1>9. ASSUME NEW o \in Owner, ScheduleLearning(o) PROVE Typed'
  BY <1>9 DEF ScheduleLearning, rows, history
<1>10. ASSUME NEW o \in Owner, NoteShadow(o) PROVE Typed'
  BY <1>10 DEF NoteShadow, Screen, history
<1>11. ASSUME NEW o \in Owner, LookupTask(o) PROVE Typed'
  BY <1>11 DEF LookupTask, rows, history
<1>12. ASSUME NEW o \in Owner, BeginTask(o) PROVE Typed'
  BY <1>12 DEF BeginTask, Screen, history
<1>13. ASSUME NEW o \in Owner, CompareStates(o) PROVE Typed'
  BY <1>13 DEF CompareStates, rows, history
<1>14. ASSUME NEW o \in Owner, SaveReviewState(o) PROVE Typed'
  BY <1>14 DEF SaveReviewState, rows, history
<1>15. ASSUME NEW o \in Owner, Decide(o) PROVE Typed'
  BY <1>15 DEF Decide, rows, history
<1>16. ASSUME NEW o \in Owner, Complete(o) PROVE Typed'
  BY <1>16 DEF Complete, rows, history
<1>17. ASSUME NEW o \in Owner, Fail(o) PROVE Typed'
  BY <1>17 DEF Fail, rows, history
<1>18. ASSUME NEW o \in Owner, Crash(o) PROVE Typed'
  BY <1>18 DEF Crash, rows
<1>19. CASE RowAges
  BY <1>19 DEF RowAges, local, history
<1>20. ASSUME NEW s \in Symbol, OthersBegin(s) PROVE Typed'
  BY <1>20 DEF OthersBegin, local, history
<1>21. CASE UNCHANGED vars
  BY <1>21, SMTT(30) DEF vars, rows, local, history
<1> QED
  BY <1>1, <1>2, <1>3, <1>4, <1>5, <1>6, <1>7, <1>8, <1>9, <1>10, <1>11, <1>12, <1>13, <1>14, <1>15, <1>16, <1>17, <1>18, <1>19, <1>20, <1>21 DEF Next, OwnerStep

\* The inductive step: the owner that acts is the only one inside the review,
\* so what it has written is still there.
LEMMA IndStep == ASSUME Prompt PROVE IInv /\ [Next]_vars => IInv'
<1> SUFFICES ASSUME IInv, [Next]_vars PROVE IInv'
  OBVIOUS
<1>0. Typed'
  BY TypeStep DEF IInv
<1> USE <1>0 DEF IInv, Typed, HasIdea, TypeOK, PC, Exclusive, Counted, Progress, ShadowIsScreened,
      CompletedRunIsWhole, Echo, Active, At, Goto, Return,
      Verified, Screened, Shadowed, Learned, Noted, Tasked, Decided
<1>1. ASSUME NEW o \in Owner, Claim(o) PROVE IInv'
  BY <1>1 DEF Claim, Claimable, history
<1>2. ASSUME NEW o \in Owner, OpenPreflight(o) PROVE IInv'
  BY <1>2 DEF OpenPreflight, rows, history
<1>3. ASSUME NEW o \in Owner, PassPreflight(o) PROVE IInv'
  BY <1>3 DEF PassPreflight, rows, history
<1>4. ASSUME NEW o \in Owner, Raise(o) PROVE IInv'
  BY <1>4 DEF Raise, rows, history
<1>5. ASSUME NEW o \in Owner, LoadScreen(o) PROVE IInv'
  BY <1>5 DEF LoadScreen, rows, history
<1>6. ASSUME NEW o \in Owner, RunScreen(o) PROVE IInv'
  BY <1>6 DEF RunScreen, rows, history
<1>7. ASSUME NEW o \in Owner, StoreScreen(o) PROVE IInv'
  <2>1. /\ idea[o] \in Screen /\ idea[o] # None
        /\ saved = None /\ shadow = None /\ run = "running"
    BY <1>7, ScreenAssumption DEF StoreScreen
  <2>2. \A p \in Owner : p # o => pc[p] = "idle"
    BY <1>7 DEF StoreScreen
  <2> QED
    BY <1>7, <2>1, <2>2 DEF StoreScreen, history
<1>8. ASSUME NEW o \in Owner, RecordShadow(o) PROVE IInv'
  BY <1>8 DEF RecordShadow, rows, history
<1>9. ASSUME NEW o \in Owner, ScheduleLearning(o) PROVE IInv'
  BY <1>9 DEF ScheduleLearning, rows, history
<1>10. ASSUME NEW o \in Owner, NoteShadow(o) PROVE IInv'
  BY <1>10 DEF NoteShadow, rows, history
<1>11. ASSUME NEW o \in Owner, LookupTask(o) PROVE IInv'
  BY <1>11 DEF LookupTask, rows, history
<1>12. ASSUME NEW o \in Owner, BeginTask(o) PROVE IInv'
  BY <1>12 DEF BeginTask, rows, history
<1>13. ASSUME NEW o \in Owner, CompareStates(o) PROVE IInv'
  BY <1>13 DEF CompareStates, rows, history
<1>14. ASSUME NEW o \in Owner, SaveReviewState(o) PROVE IInv'
  BY <1>14 DEF SaveReviewState, rows, history
<1>15. ASSUME NEW o \in Owner, Decide(o) PROVE IInv'
  BY <1>15 DEF Decide, rows, history
<1>16. ASSUME NEW o \in Owner, Complete(o) PROVE IInv'
  BY <1>16 DEF Complete, rows, history
<1>17. ASSUME NEW o \in Owner, Fail(o) PROVE IInv'
  BY <1>17 DEF Fail, rows, history
<1>18. ASSUME NEW o \in Owner, Crash(o) PROVE IInv'
  BY <1>18 DEF Crash, rows
<1>19. CASE RowAges
  BY <1>19 DEF RowAges, local, history
<1>20. ASSUME NEW s \in Symbol, OthersBegin(s) PROVE IInv'
  BY <1>20 DEF OthersBegin, local, history
<1>21. CASE UNCHANGED vars
  BY <1>21 DEF vars, rows, local, history
<1> QED
  BY <1>1, <1>2, <1>3, <1>4, <1>5, <1>6, <1>7, <1>8, <1>9, <1>10, <1>11, <1>12, <1>13, <1>14, <1>15, <1>16, <1>17, <1>18, <1>19, <1>20, <1>21, Zenon DEF Next, OwnerStep

-----------------------------------------------------------------------------
LEMMA InitInv == Init => IInv
<1> SUFFICES ASSUME Init PROVE IInv
  OBVIOUS
<1> USE DEF Init, Verified, Screened, Shadowed, Learned, Noted, Tasked, Decided
<1>1. Typed
  BY DEF Typed, HasIdea, TypeOK, PC, RunStatus
<1>2. Exclusive /\ Counted /\ ShadowIsScreened /\ CompletedRunIsWhole /\ Echo
  BY DEF Exclusive, Active, Counted, ShadowIsScreened, CompletedRunIsWhole, Echo
<1>3. \A o \in Owner : Progress(o)
  BY Zenon DEF Progress
<1> QED
  BY <1>1, <1>2, <1>3 DEF IInv

LEMMA Invariance == ASSUME Prompt PROVE Spec => []IInv
<1>1. IInv /\ [Next]_vars => IInv'
  BY IndStep
<1> QED
  BY <1>1, InitInv, PTL DEF Spec

\* The rows and the owners keep their types, however slow a review is.
THEOREM TypeCorrect == Spec => []TypeOK
<1>1. Init => Typed
  BY InitInv DEF IInv
<1>2. Typed /\ [Next]_vars => Typed'
  BY TypeStep
<1>3. Typed => TypeOK
  BY DEF Typed
<1> QED
  BY <1>1, <1>2, <1>3, PTL DEF Spec

\* One account and date returns at most one morning summary, for any number of
\* processes that start, die and resume.
THEOREM SummaryOnce == ASSUME Prompt PROVE Spec => []OneSummary
<1>1. IInv => OneSummary
  BY DEF IInv, Counted, OneSummary
<1> QED
  BY <1>1, Invariance, PTL

\* A review that reads completed has every part of its record, and the parts
\* agree, whichever processes wrote them.
THEOREM CompletedIsWhole == ASSUME Prompt PROVE Spec => []CompletedRunIsWhole
<1>1. IInv => CompletedRunIsWhole
  BY DEF IInv
<1> QED
  BY <1>1, Invariance, PTL

\* Only a process that died after saving its state makes the resumed review
\* compare the date with itself.
THEOREM ChangesAreSinceYesterday == ASSUME Prompt PROVE Spec => []ChangesSpanADay
<1>1. IInv => ChangesSpanADay
  BY DEF IInv, Echo, ChangesSpanADay
<1> QED
  BY <1>1, Invariance, PTL

\* No step replaces a saved screen: the only writer found none when it looked,
\* and nobody else has been inside the review since.
THEOREM ScreenIsReused == ASSUME Prompt PROVE Spec => ScreenStands
<1> DEFINE Stands == saved # None => saved' = saved
<1>1. ASSUME IInv, [Next]_vars PROVE Stands
  <2>1. ASSUME NEW o \in Owner, StoreScreen(o) PROVE saved = None
    BY <1>1, <2>1 DEF IInv, Progress, StoreScreen, At
  <2>2. ASSUME NEW o \in Owner, OwnerStep(o), ~StoreScreen(o) PROVE saved' = saved
    BY <2>2 DEF OwnerStep, OpenPreflight, PassPreflight, Raise, LoadScreen, RunScreen, RecordShadow,
         ScheduleLearning, NoteShadow, LookupTask, BeginTask, CompareStates, SaveReviewState, Decide,
         Complete, Fail, rows
  <2>3. ASSUME NEW o \in Owner, Claim(o) \/ Crash(o) PROVE saved' = saved
    BY <2>3 DEF Claim, Crash, rows
  <2>4. CASE RowAges \/ \E s \in Symbol : OthersBegin(s)
    BY <2>4 DEF RowAges, OthersBegin
  <2>5. CASE UNCHANGED vars
    BY <2>5 DEF vars, rows
  <2> QED
    BY <1>1, <2>1, <2>2, <2>3, <2>4, <2>5 DEF Next
<1>2. IInv /\ [Next]_vars => [Stands]_vars
  BY <1>1
<1>3. Spec => []IInv
  BY Invariance
<1> QED
  BY <1>2, <1>3, PTL DEF Spec, ScreenStands

\* Completed and failed are final: whoever writes one of them was the only
\* process inside a running review.
THEOREM ClosedRunsStand == ASSUME Prompt PROVE Spec => VerdictStands
<1> DEFINE Stands == (run \in {"completed", "failed"}) => (run' = run)
<1>1. ASSUME IInv, [Next]_vars PROVE Stands
  <2>1. ASSUME NEW o \in Owner, Complete(o) \/ Fail(o) PROVE run = "running"
    BY <1>1, <2>1 DEF IInv, Exclusive, Active, Complete, Fail, At
  <2>2. ASSUME NEW o \in Owner, OwnerStep(o), ~(Complete(o) \/ Fail(o)) PROVE run' = run
    BY <2>2 DEF OwnerStep, OpenPreflight, PassPreflight, Raise, LoadScreen, RunScreen, StoreScreen,
         RecordShadow, ScheduleLearning, NoteShadow, LookupTask, BeginTask, CompareStates,
         SaveReviewState, Decide, rows
  <2>3. ASSUME NEW o \in Owner, Claim(o) PROVE run \notin {"completed", "failed"}
    BY <2>3 DEF Claim, Claimable
  <2>4. ASSUME NEW o \in Owner, Crash(o) PROVE run' = run
    BY <2>4 DEF Crash, rows
  <2>5. CASE RowAges \/ \E s \in Symbol : OthersBegin(s)
    BY <2>5 DEF RowAges, OthersBegin
  <2>6. CASE UNCHANGED vars
    BY <2>6 DEF vars, rows
  <2> QED
    BY <1>1, <2>1, <2>2, <2>3, <2>4, <2>5, <2>6 DEF Next
<1>2. IInv /\ [Next]_vars => [Stands]_vars
  BY <1>1
<1>3. Spec => []IInv
  BY Invariance
<1> QED
  BY <1>2, <1>3, PTL DEF Spec, VerdictStands

-----------------------------------------------------------------------------
(* The watchers.                                                             *)

\* An alert is marked sent only after Slack had it.
SentMeansReported ==
    /\ alert = "sent" => reported
    /\ \A w \in Watcher : watch[w] = "sent" => reported

\* The last change somebody may have been told of.
ToldUpTo == IF notice.pc = "send" THEN notice.from ELSE notice.saved

\* No change is told twice, and none before its time.
NothingToldAhead ==
    /\ \A c \in Change : told[c] <= 1 /\ (c > ToldUpTo => told[c] = 0)
    /\ notice.from <= notice.saved /\ notice.saved <= account

WatchInv == WatchTypeOK /\ SentMeansReported /\ NothingToldAhead

NoticeType == [pc : {"idle", "send"}, stored : BOOLEAN, saved : 0 .. MaxChanges, from : 0 .. MaxChanges]

aboutAlerts == <<review, late, alert, watch, memory, alone, reported>>
aboutNotices == <<account, notice, told>>

-----------------------------------------------------------------------------
\* The watchdogs leave the account's notices alone, and notify.py the alerts.
LEMMA AlertsKeepInv ==
  ASSUME WatchInv, AlertNext
  PROVE  WatchInv'
<1> USE WatchAssumption DEF WatchInv, WatchTypeOK
<1>1. NothingToldAhead'
  <2>1. UNCHANGED aboutNotices
    BY DEF AlertNext, ReviewMoves, NoteCompletion, GraceEnds, WatchStep, CheckRun, ClaimAlert, AlertArrives, AlertIsLost,
         CompleteAlert, WatcherDies, CheckMemory, SendAlone, StoreAlone, StandaloneDies, aboutNotices
  <2> QED
    BY <2>1 DEF aboutNotices, NothingToldAhead, ToldUpTo
<1>2. ASSUME ReviewMoves \/ NoteCompletion \/ GraceEnds PROVE WatchTypeOK' /\ SentMeansReported'
  BY <1>2, ZenonT(40) DEF ReviewMoves, NoteCompletion, GraceEnds, SentMeansReported
<1>3. ASSUME NEW w \in Watcher, CheckRun(w) \/ ClaimAlert(w) \/ AlertIsLost(w) \/ CompleteAlert(w) \/ WatcherDies(w)
      PROVE  WatchTypeOK' /\ SentMeansReported'
  BY <1>3 DEF CheckRun, ClaimAlert, AlertIsLost, CompleteAlert, WatcherDies, SentMeansReported
<1>4. ASSUME NEW w \in Watcher, AlertArrives(w) PROVE WatchTypeOK' /\ SentMeansReported'
  BY <1>4 DEF AlertArrives, SentMeansReported
<1>5. ASSUME CheckMemory \/ SendAlone \/ StoreAlone \/ StandaloneDies PROVE WatchTypeOK' /\ SentMeansReported'
  <2>1. alone' \in [pc : {"idle", "send", "store"}, alerted : BOOLEAN]
    <3>1. \/ \E step \in {"idle", "send", "store"} : alone' = [alone EXCEPT !.pc = step]
          \/ alone' = [pc |-> "idle", alerted |-> TRUE]
      BY <1>5, Zenon DEF CheckMemory, SendAlone, StoreAlone, StandaloneDies
    <3>2. alone \in [pc : {"idle", "send", "store"}, alerted : BOOLEAN]
      OBVIOUS
    <3> HIDE DEF WatchInv, WatchTypeOK
    <3>3. ASSUME NEW step \in {"idle", "send", "store"}, alone' = [alone EXCEPT !.pc = step]
          PROVE  alone' \in [pc : {"idle", "send", "store"}, alerted : BOOLEAN]
      BY <3>2, <3>3
    <3>4. ASSUME alone' = [pc |-> "idle", alerted |-> TRUE]
          PROVE  alone' \in [pc : {"idle", "send", "store"}, alerted : BOOLEAN]
      BY <3>4
    <3> QED
      BY <3>1, <3>3, <3>4
  <2>3. reported' = TRUE \/ reported' = reported
    BY <1>5 DEF CheckMemory, SendAlone, StoreAlone, StandaloneDies
  <2>2. /\ UNCHANGED <<review, late, alert, watch, memory, account, notice, told>>
        /\ crashes' \in 0 .. MaxCrashes
    BY <1>5 DEF CheckMemory, SendAlone, StoreAlone, StandaloneDies
  <2> QED
    BY <2>1, <2>2, <2>3, ZenonT(40) DEF SentMeansReported
<1> QED
  BY <1>1, <1>2, <1>3, <1>4, <1>5 DEF AlertNext, WatchStep

\* A notice tells the changes since the snapshot it compared with.
LEMMA NoticesKeepInv ==
  ASSUME WatchInv, NoticeNext
  PROVE  WatchInv'
<1> USE WatchAssumption DEF WatchInv, WatchTypeOK
<1>0. UNCHANGED <<review, late, alert, watch, memory, alone, reported, crashes>>
  BY DEF NoticeNext, AccountChanges, WatchAccount, SendNotice
<1>1. SentMeansReported'
  BY <1>0 DEF SentMeansReported
<1>2. CASE AccountChanges
  <2>1. account' \in 0 .. MaxChanges /\ account <= account' /\ UNCHANGED <<notice, told>>
    BY <1>2 DEF AccountChanges
  <2> QED
    BY <1>0, <1>1, <2>1 DEF NothingToldAhead, ToldUpTo
<1>3. CASE WatchAccount
  <2>1. /\ notice.pc = "idle" /\ UNCHANGED <<account, told>>
        /\ notice' \in NoticeType /\ notice'.saved = account /\ notice'.from = notice.saved
    BY <1>3 DEF WatchAccount, NoticeType
  <2> HIDE DEF WatchInv
  <2>2. NothingToldAhead'
    <3>1. notice.saved \in Nat /\ account \in Nat /\ \A c \in Change : c \in Nat
      BY DEF WatchInv, Change
    <3> QED
      BY <2>1, <3>1 DEF NothingToldAhead, ToldUpTo, WatchInv
  <2> QED
    BY <1>0, <1>1, <2>1, <2>2 DEF WatchInv, NoticeType
<1>4. CASE SendNotice
  <2>1. /\ notice.pc = "send" /\ account' = account
        /\ notice' \in NoticeType /\ notice'.saved = notice.saved /\ notice'.from = notice.from /\ notice'.pc = "idle"
    BY <1>4 DEF SendNotice, NoticeType
  <2>2. \A c \in Change : told'[c] = told[c] \/ (c > notice.from /\ c <= notice.saved /\ told'[c] = told[c] + 1)
    BY <1>4 DEF SendNotice
  <2>3. told' \in [Change -> Nat]
    BY <1>4 DEF SendNotice
  <2>4. NothingToldAhead'
    <3>1. notice.saved \in Nat /\ notice.from \in Nat /\ account \in Nat /\ \A c \in Change : c \in Nat /\ told[c] \in Nat
      BY DEF Change
    <3>2. ASSUME NEW c \in Change PROVE told'[c] <= 1 /\ (c > notice.saved => told'[c] = 0)
      BY <2>1, <2>2, <3>1 DEF NothingToldAhead, ToldUpTo
    <3> QED
      BY <2>1, <3>2 DEF NothingToldAhead, ToldUpTo
  <2> QED
    BY <1>0, <1>1, <2>1, <2>3, <2>4 DEF NoticeType
<1> QED
  BY <1>2, <1>3, <1>4 DEF NoticeNext

\* The watchers begin with nothing sent.
LEMMA WatchStart == WatchInit => WatchInv
<1> SUFFICES ASSUME WatchInit PROVE WatchInv
  OBVIOUS
<1> USE WatchAssumption DEF WatchInit
<1>1. /\ late \in BOOLEAN /\ memory \in BOOLEAN /\ reported \in BOOLEAN
      /\ alone \in [pc : {"idle", "send", "store"}, alerted : BOOLEAN]
  OBVIOUS
<1>2. account \in 0 .. MaxChanges /\ crashes \in 0 .. MaxCrashes /\ notice \in NoticeType
  BY DEF NoticeType
<1>3. WatchTypeOK
  BY <1>1, <1>2 DEF WatchTypeOK, NoticeType
<1>4. SentMeansReported
  BY DEF SentMeansReported
<1>5. NothingToldAhead
  BY DEF NothingToldAhead, ToldUpTo
<1> QED
  BY <1>3, <1>4, <1>5 DEF WatchInv

\* No step breaks the invariant, so it holds.
LEMMA WatchHolds == WatchSafetySpec => []WatchInv
<1>1. WatchInv /\ UNCHANGED watchVars => WatchInv'
  BY DEF WatchInv, WatchTypeOK, SentMeansReported, NothingToldAhead, ToldUpTo, watchVars
<1>2. WatchInv /\ [WatchNext]_watchVars => WatchInv'
  BY <1>1, AlertsKeepInv, NoticesKeepInv DEF WatchNext
<1> QED
  BY <1>2, WatchStart, PTL DEF WatchSafetySpec

\* An alert counts as sent only when it reached Slack, and no change of the
\* account is told twice, whatever dies or is lost.
THEOREM MessagesStayHonest == WatchSafetySpec => []MessagesAreHonest
<1>1. WatchInv => MessagesAreHonest
  BY DEF WatchInv, SentMeansReported, NothingToldAhead, MessagesAreHonest
<1> QED
  BY <1>1, WatchHolds, PTL

-----------------------------------------------------------------------------
(* The share desk.                                                           *)

\* The members of a list.
Rest(todo) == {todo[i] : i \in 1 .. Len(todo)}

\* A share is never ordered or set aside beyond what is held.
LotsFit(s) == held[s].lots + wanted[s] <= MaxLots /\ offered[s] <= held[s].lots /\ braced[s] <= wanted[s]

\* The broker's books; a share that is owed has a position or a purchase.
BooksKept ==
    /\ mark \in [Share -> Price]
    /\ held \in [Share -> [lots : Nat, cost : Nat]]
    /\ offered \in [Share -> Nat] /\ wanted \in [Share -> Nat] /\ braced \in [Share -> Nat]
    /\ faults \in 0 .. MaxFaults
    /\ owed \in SUBSET Share /\ lost \in SUBSET Share
    /\ \A s \in Share : LotsFit(s)
    /\ \A s \in owed : held[s].lots > 0 \/ wanted[s] > 0

\* The programs while they are at work.
PassType == [pc : {"pass"}, todo : SUBSET Position, peaks : [Share -> Nat], from : Phase]
PilotType == [pc : {"enter", "save", "exit"}, todo : Seq(Share), kept : SUBSET Share]
AlertType == [pc : {"place"}, side : {"buy", "sell"}, share : Share, lots : Nat]
SessionType == [pc : {"run"}, todo : Seq(Share), lots : [Share -> Nat], risk : BOOLEAN]

ControlTyped ==
    /\ phase \in Phase /\ swept \in BOOLEAN /\ killed \in BOOLEAN
    /\ cooling \in [shares : SUBSET Share, set : 0 .. MaxCooling]

ProgramsTyped ==
    /\ guard \in Resting \cup PassType
    /\ peaks \in [Share -> Nat]
    /\ posted \in [Thread -> Resting \cup AlertType]
    /\ session \in Resting \cup SessionType
    /\ alerts \in 0 .. MaxAlerts /\ runs \in 0 .. MaxRuns

\* Nothing rests to be bought before the market has opened.
NothingAwaited == phase \in {"shut", "morning"} => \A s \in Share : wanted[s] = 0

\* The pilot's copy of its file, and what its exit session has still to see.
PilotKnows ==
    /\ pilot \in Resting \cup PilotType /\ entries \in SUBSET Share
    /\ pilot.pc \in {"enter", "save"} => pilot.kept = entries
    /\ pilot.pc = "save" => pilot.todo # <<>>
    /\ pilot.pc = "exit" => phase = "morning" /\ \A s \in owed : s \in lost \cup pilot.kept \cup Rest(pilot.todo)
    /\ EntriesAreOnFile

DeskInv == ControlTyped /\ ProgramsTyped /\ BooksKept /\ NothingAwaited /\ PilotKnows

-----------------------------------------------------------------------------
\* The broker's list is finite, and prices are numbers.
LEMMA ShareIsFinite == IsFiniteSet(Share) /\ Listing \in Seq(Share) /\ Price \subseteq Nat
<1>1. Listing \in [1 .. Len(Listing) -> Share] /\ Len(Listing) \in Nat
  BY DeskAssumption
<1>2. Listing \in Surjection(1 .. Len(Listing), Share)
  BY <1>1 DEF Surjection, Share
<1>3. IsFiniteSet(1 .. Len(Listing))
  BY <1>1, FS_Interval
<1> QED
  BY <1>2, <1>3, FS_Surjection, DeskAssumption

\* A sale, however it goes.
LEMMA SaleOutcome ==
  ASSUME BooksKept, NEW s \in Share, NEW n \in Nat, NEW open \in BOOLEAN,
         Refused(s, open) \/ Sold(s, n, open) \/ SaleRaises(s, n, open)
  PROVE  BooksKept' /\ UNCHANGED <<held, wanted, lost>> /\ owed' \subseteq owed
<1> USE DEF BooksKept, LotsFit
<1>1. ASSUME Nothing, faults' \in 0 .. MaxFaults PROVE BooksKept' /\ UNCHANGED <<held, wanted, lost>> /\ owed' \subseteq owed
  BY <1>1 DEF Nothing, broker, ghosts
<1>2. ASSUME SellTaken(s, n), faults' \in 0 .. MaxFaults
      PROVE  BooksKept' /\ UNCHANGED <<held, wanted, lost>> /\ owed' \subseteq owed
  BY <1>2 DEF SellTaken, broker
<1>3. faults' \in 0 .. MaxFaults
  BY DeskAssumption, SMTT(30) DEF Refused, Sold, SaleRaises, Fault
<1> QED
  BY <1>1, <1>2, <1>3 DEF Refused, Sold, SaleRaises

\* A purchase that the broker took.
LEMMA PurchaseOutcome ==
  ASSUME BooksKept, NEW s \in Share, NEW exits \in {0, 1}, BuyTaken(s, exits), faults' \in 0 .. MaxFaults,
         owed' \in {owed, owed \cup {s}}, lost' \in SUBSET Share
  PROVE  BooksKept'
<1>2. /\ wanted' = [wanted EXCEPT ![s] = @ + 1] /\ braced' = [braced EXCEPT ![s] = @ + exits]
      /\ held[s].lots + wanted[s] < MaxLots /\ UNCHANGED <<mark, held, offered>>
  BY DEF BuyTaken
<1>3. MaxLots \in Nat /\ faults' \in 0 .. MaxFaults
  BY DeskAssumption
<1>4. wanted' \in [Share -> Nat] /\ braced' \in [Share -> Nat] /\ owed' \in SUBSET Share
  BY <1>2 DEF BooksKept
<1>5. ASSUME NEW t \in Share PROVE LotsFit(t)' /\ ((t = s /\ wanted'[t] > 0) \/ wanted'[t] = wanted[t])
  <2>1. /\ held[t].lots \in Nat /\ wanted[t] \in Nat /\ offered[t] \in Nat /\ braced[t] \in Nat /\ LotsFit(t)
        /\ held'[t].lots = held[t].lots /\ offered'[t] = offered[t]
    BY <1>2 DEF BooksKept
  <2>2. CASE t = s
    <3>1. wanted'[t] = wanted[t] + 1 /\ braced'[t] = braced[t] + exits
      BY <1>2, <2>2 DEF BooksKept
    <3> QED
      BY <1>2, <1>3, <2>1, <2>2, <3>1 DEF LotsFit
  <2>3. CASE t # s
    <3>1. wanted'[t] = wanted[t] /\ braced'[t] = braced[t]
      BY <1>2, <2>3 DEF BooksKept
    <3>2. LotsFit(t)'
      BY <2>1, <3>1 DEF LotsFit
    <3> QED
      BY <3>1, <3>2
  <2> QED
    BY <2>2, <2>3
<1>6. \A t \in owed' : held'[t].lots > 0 \/ wanted'[t] > 0
  BY <1>2, <1>4, <1>5 DEF BooksKept
<1> QED
  BY <1>2, <1>3, <1>4, <1>5, <1>6 DEF BooksKept

\* Steps that are not the pilot's and owe nothing new.
LEMMA PilotRests ==
  ASSUME PilotKnows, UNCHANGED <<pilot, entries>>, lost' = lost, owed' \subseteq owed,
         pilot.pc = "exit" => phase' = phase
  PROVE  PilotKnows'
BY DEF PilotKnows, EntriesAreOnFile, Rest

\* A pass that has seen a row is a pass still.
LEMMA PassGoesOn ==
  ASSUME NEW g \in PassType, NEW seen, NEW top \in [Share -> Nat]
  PROVE  [g EXCEPT !.todo = @ \ {seen}, !.peaks = top] \in PassType
BY DEF PassType

\* The position guard keeps the invariant.
LEMMA GuardStep == ASSUME DeskInv, GuardNext PROVE DeskInv'
<1> USE DEF DeskInv, ControlTyped, ProgramsTyped
<1>1. UNCHANGED <<phase, killed, cooling, pilot, entries, posted, session, alerts, runs, lost>>
  <2>1. ASSUME NEW s, NEW n, NEW open, Refused(s, open) \/ Sold(s, n, open) \/ SaleRaises(s, n, open) \/ Nothing PROVE lost' = lost
    BY <2>1 DEF Refused, Sold, SaleRaises, Nothing, SellTaken, ghosts
  <2> QED
    BY <2>1, Zenon DEF GuardNext, StartGuard, GuardTurn, EndGuard, ghosts
<1>2. CASE StartGuard
  <2>1. Positions \subseteq Position
    <3>1. ASSUME NEW s \in Share
          PROVE  [share |-> s, lots |-> held[s].lots, cost |-> held[s].cost, mark |-> mark[s]] \in Position
      BY ShareIsFinite DEF Position, BooksKept
    <3> QED
      BY <3>1 DEF Positions
  <2>2. guard' \in Resting \cup PassType /\ swept' \in BOOLEAN
    <3>1. [pc |-> "pass", todo |-> Positions, peaks |-> peaks, from |-> phase] \in PassType
      BY <2>1 DEF PassType
    <3>2. guard' = [pc |-> "pass", todo |-> Positions, peaks |-> peaks, from |-> phase] \/ guard' = guard
      BY <1>2 DEF StartGuard
    <3> QED
      BY <1>2, <3>1, <3>2 DEF StartGuard
  <2>3. BooksKept'
    BY <1>2, DeskAssumption, SMTT(30) DEF StartGuard, BooksKept, LotsFit, broker, ghosts, Fault
  <2> QED
    BY <1>1, <1>2, <2>2, <2>3, PilotRests DEF StartGuard, NothingAwaited, broker, ghosts
<1>3. CASE GuardTurn
  <2>1. PICK seen \in guard.todo :
          LET top == IF seen.mark > Peak(seen) THEN seen.mark ELSE Peak(seen)
              holds == Signal(seen.mark, seen.cost, top) = "HOLD"
              next == [guard EXCEPT !.todo = @ \ {seen}, !.peaks = Ratcheted(seen)]
          IN  /\ \/ /\ \/ holds /\ Nothing /\ UNCHANGED faults
                       \/ ~holds /\ (Refused(seen.share, SessionOpen) \/ Sold(seen.share, seen.lots, SessionOpen))
                    /\ guard' = next /\ UNCHANGED swept
                 \/ ~holds /\ SaleRaises(seen.share, seen.lots, SessionOpen) /\ PassEnds
    BY <1>3, Zenon DEF GuardTurn
  <2>2. guard \in PassType /\ seen \in Position
    BY <1>3 DEF GuardTurn, Resting, PassType
  <2>3. seen.share \in Share /\ seen.lots \in Nat /\ seen.mark \in Nat
    BY <2>2 DEF Position
  <2>4. Ratcheted(seen) \in [Share -> Nat]
    BY <2>2, <2>3 DEF Ratcheted, PassType
  <2>5. guard' \in Resting \cup PassType /\ swept' \in BOOLEAN
    <3>1. (guard' = [guard EXCEPT !.todo = @ \ {seen}, !.peaks = Ratcheted(seen)] /\ UNCHANGED swept) \/ PassEnds
      BY <2>1
    <3>2. [guard EXCEPT !.todo = @ \ {seen}, !.peaks = Ratcheted(seen)] \in PassType
      BY <2>2, <2>4, PassGoesOn, Zenon
    <3>3. Idle \in Resting /\ guard.from \in Phase
      BY <2>2 DEF Idle, Resting, PassType
    <3> QED
      BY <3>1, <3>2, <3>3 DEF PassEnds
  <2>6. BooksKept' /\ UNCHANGED wanted /\ owed' \subseteq owed
    <3>1. SessionOpen \in BOOLEAN
      BY DEF SessionOpen
    <3>2. CASE Nothing /\ UNCHANGED faults
      BY <3>2 DEF Nothing, broker, ghosts, BooksKept, LotsFit
    <3>3. CASE Refused(seen.share, SessionOpen) \/ Sold(seen.share, seen.lots, SessionOpen) \/ SaleRaises(seen.share, seen.lots, SessionOpen)
      BY <2>3, <3>1, <3>3, SaleOutcome
    <3> QED
      BY <2>1, <3>2, <3>3
  <2> QED
    BY <1>1, <1>3, <2>5, <2>6, PilotRests DEF GuardTurn, NothingAwaited
<1>4. CASE EndGuard
  <2>1. guard \in PassType
    BY <1>4 DEF EndGuard, Resting, PassType
  <2>2. BooksKept'
    BY <1>4 DEF EndGuard, BooksKept, LotsFit, broker, ghosts
  <2>3. guard' \in Resting /\ peaks' \in [Share -> Nat] /\ swept' \in BOOLEAN
    BY <1>4, <2>1 DEF EndGuard, PassEnds, PassType, Idle, Resting
  <2> QED
    BY <1>1, <1>4, <2>2, <2>3, PilotRests DEF EndGuard, NothingAwaited, broker, ghosts
<1> QED
  BY <1>2, <1>3, <1>4 DEF GuardNext

\* What is left of a list is its head and what its tail has left.
LEMMA HeadThenTail ==
  ASSUME NEW S, NEW q \in Seq(S), q # <<>>
  PROVE  /\ Head(q) \in S /\ Tail(q) \in Seq(S)
         /\ Rest(q) = {Head(q)} \cup Rest(Tail(q))
<1>1. Len(q) \in Nat /\ Len(q) > 0 /\ Len(Tail(q)) = Len(q) - 1 /\ Head(q) = q[1] /\ Tail(q) \in Seq(S) /\ q[1] \in S
  OBVIOUS
<1>2. \A i \in 1 .. Len(q) - 1 : Tail(q)[i] = q[i + 1]
  OBVIOUS
<1>3. ASSUME NEW i \in 1 .. Len(q) PROVE i = 1 \/ (i - 1 \in 1 .. Len(Tail(q)) /\ Tail(q)[i - 1] = q[i])
  BY <1>1, <1>2
<1>4. ASSUME NEW i \in 1 .. Len(Tail(q)) PROVE i + 1 \in 1 .. Len(q) /\ Tail(q)[i] = q[i + 1]
  BY <1>1, <1>2
<1>5. Rest(q) \subseteq {Head(q)} \cup Rest(Tail(q))
  <2> SUFFICES ASSUME NEW i \in 1 .. Len(q) PROVE q[i] \in {Head(q)} \cup Rest(Tail(q))
    BY DEF Rest
  <2> QED
    BY <1>1, <1>3 DEF Rest
<1>6. Head(q) \in Rest(q)
  BY <1>1 DEF Rest
<1>7. Rest(Tail(q)) \subseteq Rest(q)
  BY <1>4 DEF Rest
<1> QED
  BY <1>1, <1>5, <1>6, <1>7

\* The exit session goes through every entry of the file.
LEMMA EveryEntryComes ==
  ASSUME NEW E \in SUBSET Share, NEW todo \in [1 .. Cardinality(E) -> E],
         \A i, j \in DOMAIN todo : todo[i] = todo[j] => i = j
  PROVE  todo \in Seq(Share) /\ Rest(todo) = E
<1>1. IsFiniteSet(E) /\ Cardinality(E) \in Nat
  BY ShareIsFinite, FS_Subset, FS_CardinalityType
<1> DEFINE n == Cardinality(E)
<1>2. todo \in Injection(1 .. n, E)
  BY DEF Injection, IsInjective
<1>3. Cardinality(1 .. n) = n
  BY <1>1, FS_Interval
<1>4. todo \in Surjection(1 .. n, E)
  <2> HIDE DEF n
  <2> QED
    BY <1>1, <1>2, <1>3, FS_Injection DEF n
<1>5. todo \in Seq(Share) /\ Len(todo) = n
  BY <1>1
<1> QED
  BY <1>4, <1>5 DEF Surjection, Rest

\* The entry session.
PilotEnters(todo, kept) == [pc |-> "enter", todo |-> todo, kept |-> kept]

\* A session that goes on is a session still.
LEMMA PilotTypes ==
  ASSUME NEW p \in PilotType, NEW todo \in Seq(Share), NEW kept \in SUBSET Share
  PROVE  /\ [p EXCEPT !.todo = todo] \in PilotType
         /\ [p EXCEPT !.todo = todo, !.kept = kept] \in PilotType
         /\ [p EXCEPT !.pc = "save"] \in PilotType
         /\ PilotEnters(todo, kept) \in PilotType
BY DEF PilotType, PilotEnters

\* The overnight pilot keeps the invariant.
LEMMA PilotStep == ASSUME DeskInv, PilotNext PROVE DeskInv'
<1> USE DEF DeskInv, ControlTyped
<1>0. /\ ControlTyped' /\ UNCHANGED phase
      /\ ProgramsTyped'
  <2>1. /\ UNCHANGED <<control, guard, peaks, posted, session, alerts>>
        /\ runs' = runs \/ (runs < MaxRuns /\ runs' = runs + 1)
    BY DEF PilotNext, StartEntry, SkipEntry, Enter, SaveEntry, StartExit, Exit, EndPilot
  <2>2. MaxRuns \in Nat
    BY DeskAssumption
  <2> QED
    BY <2>1, <2>2 DEF control, ProgramsTyped
<1>b. ASSUME UNCHANGED <<broker, offered, owed, faults>>, lost' = lost PROVE BooksKept' /\ NothingAwaited'
  BY <1>0, <1>b DEF BooksKept, NothingAwaited, broker, LotsFit
<1>1. CASE StartEntry
  <2>1. pilot' = PilotEnters(Listing, entries) /\ UNCHANGED <<entries, broker, offered, owed, faults, lost>>
    BY <1>1 DEF StartEntry, ghosts, PilotEnters
  <2>2. pilot \in Resting
    BY <1>1 DEF StartEntry, Idle, Resting
  <2>3. PilotKnows'
    BY <2>1, <2>2, ShareIsFinite DEF PilotKnows, PilotType, PilotEnters, EntriesAreOnFile, Resting
  <2> QED
    BY <1>0, <1>b, <2>1, <2>3
<1>2. CASE SkipEntry
  <2>1. /\ pilot' = [pilot EXCEPT !.todo = Tail(@)] /\ pilot.pc = "enter" /\ pilot.todo # <<>>
        /\ UNCHANGED <<entries, broker, offered, owed, faults, lost>>
    BY <1>2 DEF SkipEntry, ghosts
  <2>2. pilot \in PilotType /\ Tail(pilot.todo) \in Seq(Share)
    BY <2>1, HeadThenTail DEF PilotKnows, PilotType, Resting
  <2>3. pilot' \in PilotType /\ pilot'.pc = "enter" /\ pilot'.kept = pilot.kept
    BY <2>1, <2>2, PilotTypes, Zenon DEF PilotType
  <2>4. PilotKnows'
    BY <2>1, <2>3 DEF PilotKnows, EntriesAreOnFile
  <2> QED
    BY <1>0, <1>b, <2>1, <2>4
<1>3. CASE Enter
  <2> DEFINE s == Head(pilot.todo)
  <2>1. /\ pilot.pc = "enter" /\ pilot.todo # <<>>
        /\ BuyTaken(s, 0) /\ owed' = owed \cup {s} /\ entries' = entries
        /\ \/ pilot' = [pilot EXCEPT !.pc = "save"] /\ UNCHANGED <<faults, lost>>
           \/ Fault /\ pilot' = Idle /\ lost' = lost \cup {s}
        /\ phase = "late"
    BY <1>3 DEF Enter, Gate, EnterOpen
  <2>2. pilot \in PilotType /\ s \in Share
    BY <2>1, HeadThenTail DEF PilotKnows, PilotType, Resting
  <2>3. faults' \in 0 .. MaxFaults /\ lost' \in SUBSET Share
    <3>1. UNCHANGED <<faults, lost>> \/ (Fault /\ lost' = lost \cup {s})
      BY <2>1
    <3>2. Fault => faults' \in 0 .. MaxFaults
      BY DeskAssumption DEF Fault, BooksKept
    <3> HIDE DEF s
    <3> QED
      BY <2>2, <3>1, <3>2 DEF BooksKept
  <2>4. BooksKept' /\ NothingAwaited'
    BY <1>0, <2>1, <2>2, <2>3, PurchaseOutcome DEF NothingAwaited
  <2>5. CASE pilot' = [pilot EXCEPT !.pc = "save"] /\ UNCHANGED lost
    <3>1. pilot' \in PilotType /\ pilot'.pc = "save" /\ pilot'.kept = pilot.kept /\ pilot'.todo = pilot.todo
      <4>1. [pilot EXCEPT !.pc = "save"] \in PilotType
        BY <2>2, PilotTypes, Zenon DEF PilotType
      <4> QED
        BY <2>2, <2>5, <4>1 DEF PilotType
    <3> QED
      BY <1>0, <2>1, <2>2, <2>4, <2>5, <3>1 DEF PilotKnows, EntriesAreOnFile
  <2>6. CASE pilot' = Idle /\ lost' = lost \cup {s}
    BY <1>0, <2>1, <2>2, <2>4, <2>6 DEF PilotKnows, EntriesAreOnFile, Idle, Resting
  <2> QED
    BY <2>1, <2>5, <2>6
<1>4. CASE SaveEntry
  <2> DEFINE s == Head(pilot.todo)
  <2>1. /\ pilot.pc = "save"
        /\ UNCHANGED <<broker, offered, owed>>
        /\ \/ /\ entries' = pilot.kept \cup {s} /\ pilot' = PilotEnters(Tail(pilot.todo), entries')
              /\ UNCHANGED <<faults, lost>>
           \/ /\ Fault /\ lost' = lost \cup {s} /\ UNCHANGED entries
              /\ pilot' \in {Idle, PilotEnters(Tail(pilot.todo), entries)}
    <3>1. pilot.pc = "save" /\ pilot \in PilotType /\ pilot.kept = entries
      BY <1>4 DEF SaveEntry, PilotKnows, PilotType, Resting
    <3>2. [pc |-> "enter", todo |-> Tail(pilot.todo), kept |-> pilot.kept] = PilotEnters(Tail(pilot.todo), entries)
      BY <3>1 DEF PilotEnters
    <3> QED
      BY <1>4, <3>2 DEF SaveEntry, PilotEnters
  <2>2. pilot \in PilotType /\ s \in Share /\ pilot.kept = entries /\ Tail(pilot.todo) \in Seq(Share)
    BY <2>1, HeadThenTail DEF PilotKnows, PilotType, Resting
  <2>3. BooksKept' /\ NothingAwaited'
    <3>1. faults' \in 0 .. MaxFaults /\ lost' \in SUBSET Share
      <4>1. UNCHANGED <<faults, lost>> \/ (Fault /\ lost' = lost \cup {s})
        BY <2>1
      <4>2. Fault => faults' \in 0 .. MaxFaults
        BY DeskAssumption DEF Fault, BooksKept
      <4> HIDE DEF s
      <4> QED
        BY <2>2, <4>1, <4>2 DEF BooksKept
    <3> QED
      BY <1>0, <2>1, <3>1 DEF BooksKept, NothingAwaited, broker, LotsFit
  <2>4. CASE pilot' = Idle /\ lost' = lost \cup {s} /\ UNCHANGED entries
    BY <1>0, <2>1, <2>2, <2>3, <2>4 DEF PilotKnows, EntriesAreOnFile, Idle, Resting
  <2>6. CASE pilot' = PilotEnters(Tail(pilot.todo), entries) /\ lost' = lost \cup {s} /\ UNCHANGED entries
    <3>1. pilot' \in PilotType /\ pilot'.pc = "enter" /\ pilot'.kept = entries'
      BY <1>0, <2>2, <2>6, PilotTypes, Zenon DEF PilotEnters, PilotKnows
    <3> QED
      BY <1>0, <2>1, <2>2, <2>3, <2>6, <3>1 DEF PilotKnows, EntriesAreOnFile
  <2>5. CASE entries' = pilot.kept \cup {s} /\ pilot' = PilotEnters(Tail(pilot.todo), entries') /\ UNCHANGED lost
    <3>1. entries' \in SUBSET Share /\ entries' = entries \cup {s}
      BY <2>2, <2>5 DEF PilotKnows
    <3>2. pilot' \in PilotType /\ pilot'.pc = "enter" /\ pilot'.kept = entries'
      BY <2>2, <2>5, <3>1, PilotTypes, Zenon DEF PilotEnters
    <3> QED
      BY <1>0, <2>1, <2>2, <2>3, <2>5, <3>1, <3>2 DEF PilotKnows, EntriesAreOnFile
  <2> QED
    BY <2>1, <2>4, <2>5, <2>6
<1>5. CASE StartExit
  <2>1. PICK todo \in [1 .. Cardinality(entries) -> entries] :
          /\ \A i, j \in DOMAIN todo : todo[i] = todo[j] => i = j
          /\ pilot' = [pc |-> "exit", todo |-> todo, kept |-> {}]
    BY <1>5 DEF StartExit
  <2>2. pilot = Idle /\ phase = "morning" /\ UNCHANGED <<entries, broker, offered, owed, faults, lost>>
    BY <1>5 DEF StartExit, ExitOpen, ghosts
  <2>3. todo \in Seq(Share) /\ Rest(todo) = entries
    BY <2>1, EveryEntryComes DEF PilotKnows
  <2>4. pilot' \in PilotType /\ pilot'.pc = "exit" /\ pilot'.todo = todo
    BY <2>1, <2>3 DEF PilotType
  <2>5. PilotKnows'
    BY <1>0, <2>2, <2>3, <2>4 DEF PilotKnows, EntriesAreOnFile, Idle
  <2> QED
    BY <1>0, <1>b, <2>2, <2>5
<1>6. CASE Exit
  <2> DEFINE s == Head(pilot.todo)
             n == held[s].lots
             goOn(kept) == pilot' = [pilot EXCEPT !.todo = Tail(@), !.kept = kept]
  <2>1. /\ pilot.pc = "exit" /\ pilot.todo # <<>> /\ UNCHANGED entries
        /\ \/ n = 0 /\ goOn(pilot.kept) /\ Nothing /\ UNCHANGED faults
           \/ n > 0 /\ Refused(s, ExitOpen) /\ goOn(pilot.kept \cup {s})
           \/ n > 0 /\ Sold(s, n, ExitOpen) /\ goOn(pilot.kept)
           \/ n > 0 /\ SaleRaises(s, n, ExitOpen) /\ pilot' = Idle
    BY <1>6 DEF Exit, KeepRefused
  <2>2. pilot \in PilotType /\ s \in Share /\ Tail(pilot.todo) \in Seq(Share) /\ Rest(pilot.todo) = {s} \cup Rest(Tail(pilot.todo))
    BY <2>1, HeadThenTail DEF PilotKnows, PilotType, Resting
  <2>3. n \in Nat /\ wanted[s] = 0
    BY <2>1, <2>2 DEF BooksKept, NothingAwaited, PilotKnows
  <2>4. BooksKept' /\ UNCHANGED <<held, wanted, lost>> /\ owed' \subseteq owed
    <3>1. ExitOpen \in BOOLEAN
      BY DEF ExitOpen
    <3>2. CASE Nothing /\ UNCHANGED faults
      BY <3>2 DEF Nothing, broker, ghosts, BooksKept, LotsFit
    <3>3. CASE Refused(s, ExitOpen) \/ Sold(s, n, ExitOpen) \/ SaleRaises(s, n, ExitOpen)
      <4> HIDE DEF n, s
      <4> QED
        BY <2>2, <2>3, <3>1, <3>3, SaleOutcome
    <3> QED
      BY <2>1, <3>2, <3>3
  <2>5. NothingAwaited'
    BY <1>0, <2>4 DEF NothingAwaited
  <2>6. CASE pilot' = Idle
    BY <1>0, <2>1, <2>4, <2>5, <2>6 DEF PilotKnows, EntriesAreOnFile, Idle, Resting
  <2>7. ASSUME NEW kept \in SUBSET Share, goOn(kept), pilot.kept \subseteq kept, s \in owed' => s \in kept PROVE DeskInv'
    <3>1. pilot' \in PilotType /\ pilot'.pc = "exit" /\ pilot'.kept = kept /\ pilot'.todo = Tail(pilot.todo)
      <4>1. [pilot EXCEPT !.todo = Tail(pilot.todo), !.kept = kept] \in PilotType
        BY <2>2, PilotTypes, Zenon
      <4> QED
        BY <2>1, <2>2, <2>7, <4>1 DEF PilotType
    <3>2. \A t \in owed' : t \in lost' \cup pilot'.kept \cup Rest(pilot'.todo)
      BY <2>1, <2>2, <2>4, <2>7, <3>1 DEF PilotKnows
    <3>3. PilotKnows'
      BY <1>0, <2>1, <2>4, <3>1, <3>2 DEF PilotKnows, EntriesAreOnFile
    <3> QED
      BY <1>0, <2>4, <2>5, <3>3
  <2>8. pilot.kept \in SUBSET Share /\ pilot.kept \cup {s} \in SUBSET Share
    BY <2>2 DEF PilotType
  <2>9. n = 0 => s \notin owed'
    <3>1. s \in owed => n > 0
      BY <2>3 DEF BooksKept
    <3> QED
      BY <2>4, <3>1
  <2>10. Sold(s, n, ExitOpen) => s \notin owed'
    BY DEF Sold, SellTaken
  <2> HIDE DEF s, n
  <2> QED
    BY <2>1, <2>6, <2>7, <2>8, <2>9, <2>10, Zenon
<1>7. CASE EndPilot
  <2>1. /\ pilot.pc \in {"enter", "exit"} /\ pilot.todo = <<>>
        /\ entries' = (IF pilot.pc = "exit" THEN pilot.kept ELSE entries)
        /\ pilot' = Idle /\ UNCHANGED <<broker, offered, owed, faults, lost>>
    BY <1>7 DEF EndPilot, ghosts
  <2>2. pilot \in PilotType /\ Rest(pilot.todo) = {}
    BY <2>1 DEF PilotKnows, PilotType, Resting, Rest
  <2>3. PilotKnows'
    BY <1>0, <2>1, <2>2 DEF PilotKnows, PilotType, EntriesAreOnFile, Idle, Resting
  <2> QED
    BY <1>0, <1>b, <2>1, <2>3
<1> QED
  BY <1>1, <1>2, <1>3, <1>4, <1>5, <1>6, <1>7 DEF PilotNext

\* The webhook's threads keep the invariant.
LEMMA AlertStep == ASSUME DeskInv, NEW t \in Thread, PostAlert(t) \/ PlaceAlert(t) PROVE DeskInv'
<1> USE DEF DeskInv
<1>1. ControlTyped' /\ UNCHANGED <<phase, pilot, entries, lost>>
  <2>1. UNCHANGED <<phase, swept, killed, cooling, pilot, entries>>
    BY DEF PostAlert, PlaceAlert, control
  <2>2. lost' = lost
    BY DEF PostAlert, PlaceAlert, ghosts, Refused, Sold, SaleRaises, Nothing, SellTaken
  <2> QED
    BY <2>1, <2>2 DEF ControlTyped
<1>2. CASE PostAlert(t)
  <2>1. PICK s \in Share, way \in {"buy", "sell"}, n \in 1 .. MaxLots :
          posted' = [posted EXCEPT ![t] = [pc |-> "place", side |-> way, share |-> s, lots |-> n]]
    BY <1>2 DEF PostAlert
  <2>2. [pc |-> "place", side |-> way, share |-> s, lots |-> n] \in AlertType
    BY DEF AlertType
  <2>3. alerts' \in 0 .. MaxAlerts /\ UNCHANGED <<guard, peaks, session, runs, broker, offered, faults, owed>>
    BY <1>2, DeskAssumption, SMTT(30) DEF PostAlert, ProgramsTyped, ghosts
  <2>4. ProgramsTyped'
    BY <2>1, <2>2, <2>3 DEF ProgramsTyped
  <2>5. BooksKept' /\ NothingAwaited'
    BY <1>1, <2>3 DEF BooksKept, LotsFit, NothingAwaited, broker
  <2> QED
    BY <1>1, <2>3, <2>4, <2>5, PilotRests
<1>3. CASE PlaceAlert(t)
  <2> DEFINE a == posted[t]
  <2>1. /\ a.pc = "place"
        /\ \/ Refused(a.share, SessionOpen)
           \/ Sold(a.share, a.lots, SessionOpen) \/ SaleRaises(a.share, a.lots, SessionOpen)
           \/ Nothing /\ UNCHANGED faults
           \/ Gate(a.share, SessionOpen) /\ BuyTaken(a.share, 0) /\ UNCHANGED <<faults, ghosts>>
        /\ posted' = [posted EXCEPT ![t] = Idle]
        /\ UNCHANGED <<guard, peaks, session, alerts, runs>>
    BY <1>3 DEF PlaceAlert
  <2>2. ProgramsTyped'
    BY <2>1 DEF ProgramsTyped, Idle, Resting
  <2>3. a.share \in Share /\ a.lots \in Nat
    BY <2>1 DEF ProgramsTyped, Resting, AlertType
  <2>4. BooksKept' /\ owed' \subseteq owed /\ NothingAwaited'
    <3>1. SessionOpen \in BOOLEAN
      BY DEF SessionOpen
    <3>2. CASE Nothing /\ UNCHANGED faults
      BY <1>1, <3>2 DEF Nothing, broker, ghosts, BooksKept, LotsFit, NothingAwaited
    <3>3. CASE Refused(a.share, SessionOpen) \/ Sold(a.share, a.lots, SessionOpen) \/ SaleRaises(a.share, a.lots, SessionOpen)
      <4>1. BooksKept' /\ UNCHANGED wanted /\ owed' \subseteq owed
        BY <2>3, <3>1, <3>3, SaleOutcome
      <4> QED
        BY <1>1, <4>1 DEF NothingAwaited
    <3>4. CASE Gate(a.share, SessionOpen) /\ BuyTaken(a.share, 0) /\ UNCHANGED <<faults, ghosts>>
      <4>1. faults' \in 0 .. MaxFaults /\ owed' = owed /\ lost' \in SUBSET Share /\ phase \notin {"shut", "morning"}
        BY <3>4 DEF BooksKept, ghosts, Gate, SessionOpen
      <4>2. BooksKept'
        <5> HIDE DEF a
        <5> QED
          BY <2>3, <3>4, <4>1, PurchaseOutcome
      <4> QED
        BY <1>1, <4>1, <4>2 DEF NothingAwaited
    <3> HIDE DEF a
    <3> QED
      BY <2>1, <3>2, <3>3, <3>4
  <2> QED
    BY <1>1, <2>2, <2>4, PilotRests
<1> QED
  BY <1>2, <1>3

\* The TradingAgents session keeps the invariant.
LEMMA SessionStep == ASSUME DeskInv, SessionNext PROVE DeskInv'
<1> USE DEF DeskInv
<1>1. ControlTyped' /\ UNCHANGED <<phase, pilot, entries, lost>>
  <2>1. UNCHANGED <<phase, swept, killed, cooling, pilot, entries>>
    BY DEF SessionNext, StartSession, Ticker, EndSession, control
  <2>2. lost' = lost
    BY DEF SessionNext, StartSession, Ticker, EndSession, ghosts, Refused, Sold, SaleRaises, Nothing, SellTaken
  <2> QED
    BY <2>1, <2>2 DEF ControlTyped
<1>b. ASSUME UNCHANGED <<broker, offered, faults, owed>> PROVE BooksKept' /\ NothingAwaited'
  BY <1>1, <1>b DEF BooksKept, LotsFit, NothingAwaited, broker
<1>2. CASE StartSession
  <2>1. PICK risk \in BOOLEAN :
          session' = [pc |-> "run", todo |-> Listing, lots |-> [s \in Share |-> held[s].lots], risk |-> risk]
    BY <1>2 DEF StartSession
  <2>2. session' \in SessionType
    <3>1. [s \in Share |-> held[s].lots] \in [Share -> Nat]
      BY DEF BooksKept
    <3> QED
      BY <2>1, <3>1, ShareIsFinite DEF SessionType
  <2>3. runs' \in 0 .. MaxRuns /\ UNCHANGED <<guard, peaks, posted, alerts, broker, offered, faults, owed>>
    BY <1>2, DeskAssumption DEF StartSession, ProgramsTyped, ghosts
  <2>4. ProgramsTyped'
    BY <2>2, <2>3 DEF ProgramsTyped
  <2> QED
    BY <1>1, <1>b, <2>3, <2>4, PilotRests
<1>3. CASE Ticker
  <2> DEFINE s == Head(session.todo)
             n == session.lots[s]
  <2>1. /\ session.pc = "run" /\ session.todo # <<>>
        /\ \/ Nothing /\ UNCHANGED faults
           \/ Gate(s, SessionOpen) /\ BuyTaken(s, 1) /\ UNCHANGED <<faults, ghosts>>
           \/ Refused(s, SessionOpen) \/ Sold(s, n, SessionOpen) \/ SaleRaises(s, n, SessionOpen)
        /\ session' = [session EXCEPT !.todo = Tail(@)]
        /\ UNCHANGED <<guard, peaks, posted, alerts, runs>>
    BY <1>3 DEF Ticker
  <2>2. session \in SessionType
    BY <2>1 DEF ProgramsTyped, Resting
  <2>3. s \in Share /\ n \in Nat /\ Tail(session.todo) \in Seq(Share)
    BY <2>1, <2>2, HeadThenTail DEF SessionType
  <2>4. ProgramsTyped'
    <3>1. session' \in SessionType
      BY <2>1, <2>2, <2>3 DEF SessionType
    <3> QED
      BY <2>1, <3>1 DEF ProgramsTyped
  <2>5. BooksKept' /\ owed' \subseteq owed /\ NothingAwaited'
    <3> HIDE DEF s, n
    <3>1. SessionOpen \in BOOLEAN
      BY DEF SessionOpen
    <3>2. CASE Nothing /\ UNCHANGED faults
      BY <1>1, <3>2 DEF Nothing, broker, ghosts, BooksKept, LotsFit, NothingAwaited
    <3>3. CASE Refused(s, SessionOpen) \/ Sold(s, n, SessionOpen) \/ SaleRaises(s, n, SessionOpen)
      <4>1. BooksKept' /\ UNCHANGED wanted /\ owed' \subseteq owed
        BY <2>3, <3>1, <3>3, SaleOutcome
      <4> QED
        BY <1>1, <4>1 DEF NothingAwaited
    <3>4. CASE Gate(s, SessionOpen) /\ BuyTaken(s, 1) /\ UNCHANGED <<faults, ghosts>>
      <4>1. faults' \in 0 .. MaxFaults /\ owed' = owed /\ lost' \in SUBSET Share /\ phase \notin {"shut", "morning"}
        BY <3>4 DEF BooksKept, ghosts, Gate, SessionOpen
      <4>2. BooksKept'
        BY <2>3, <3>4, <4>1, PurchaseOutcome
      <4> QED
        BY <1>1, <4>1, <4>2 DEF NothingAwaited
    <3> QED
      BY <2>1, <3>2, <3>3, <3>4
  <2> QED
    BY <1>1, <2>4, <2>5, PilotRests
<1>4. CASE EndSession
  <2>1. session' = Idle /\ UNCHANGED <<guard, peaks, posted, alerts, runs, broker, offered, faults, owed>>
    BY <1>4 DEF EndSession, ghosts
  <2>2. ProgramsTyped'
    BY <2>1 DEF ProgramsTyped, Idle, Resting
  <2> QED
    BY <1>1, <1>b, <2>1, <2>2, PilotRests
<1> QED
  BY <1>2, <1>3, <1>4 DEF SessionNext

\* The average of two prices, rounded down.
LEMMA AverageCost ==
  ASSUME NEW had \in Nat, NEW cost \in Nat, NEW bought \in Nat, NEW price \in Nat, bought > 0
  PROVE  (had * cost + bought * price) \div (had + bought) \in Nat
<1>1. had * cost + bought * price \in Nat /\ had + bought \in Nat /\ had + bought > 0
  OBVIOUS
<1> QED
  BY <1>1

\* A fill keeps the invariant.
LEMMA FillStep == ASSUME DeskInv, NEW s \in Share, FillSale(s) \/ FillPurchase(s) PROVE DeskInv'
<1> USE DEF DeskInv
<1>1. ControlTyped' /\ ProgramsTyped' /\ UNCHANGED <<phase, pilot, entries, lost>>
  BY DEF FillSale, FillPurchase, control, ghosts, ControlTyped, ProgramsTyped
<1>n. /\ \A t \in Share : /\ held[t].lots \in Nat /\ held[t].cost \in Nat /\ wanted[t] \in Nat
                          /\ offered[t] \in Nat /\ braced[t] \in Nat /\ LotsFit(t)
      /\ MaxLots \in Nat
  BY DeskAssumption DEF BooksKept
<1>2. CASE FillSale(s)
  <2>1. /\ offered' = [offered EXCEPT ![s] = 0]
        /\ held' = [held EXCEPT ![s].lots = @ - offered[s]]
        /\ owed' = IF held'[s].lots = 0 /\ wanted[s] = 0 THEN owed \ {s} ELSE owed
        /\ UNCHANGED <<mark, wanted, braced, faults>>
    BY <1>2 DEF FillSale
  <2>2. held[s].lots - offered[s] \in Nat
    BY <1>n DEF LotsFit
  <2>3. /\ held' \in [Share -> [lots : Nat, cost : Nat]]
        /\ held'[s].lots = held[s].lots - offered[s]
        /\ \A t \in Share \ {s} : held'[t] = held[t]
    BY <2>1, <2>2 DEF BooksKept
  <2>4. ASSUME NEW t \in Share PROVE LotsFit(t)'
    <3>1. CASE t = s
      <4>1. offered'[s] = 0 /\ wanted'[s] = wanted[s] /\ braced'[s] = braced[s]
        BY <2>1 DEF BooksKept
      <4> QED
        BY <1>n, <2>2, <2>3, <3>1, <4>1 DEF LotsFit
    <3>2. CASE t # s
      <4>1. offered'[t] = offered[t] /\ wanted'[t] = wanted[t] /\ braced'[t] = braced[t] /\ held'[t] = held[t]
        BY <2>1, <2>3, <3>2 DEF BooksKept
      <4> QED
        BY <1>n, <4>1 DEF LotsFit
    <3> QED
      BY <3>1, <3>2
  <2>5. \A t \in owed' : held'[t].lots > 0 \/ wanted'[t] > 0
    <3>1. ASSUME NEW t \in owed', t # s PROVE held'[t].lots > 0 \/ wanted'[t] > 0
      BY <2>1, <2>3, <3>1 DEF BooksKept
    <3>2. s \in owed' => held'[s].lots > 0 \/ wanted'[s] > 0
      BY <1>n, <2>1, <2>2, <2>3
    <3> QED
      BY <3>1, <3>2
  <2>6. owed' \subseteq owed /\ offered' \in [Share -> Nat]
    BY <2>1 DEF BooksKept
  <2>7. BooksKept'
    BY <1>1, <2>1, <2>3, <2>4, <2>5, <2>6 DEF BooksKept
  <2> QED
    BY <1>1, <2>1, <2>6, <2>7, PilotRests DEF NothingAwaited
<1>3. CASE FillPurchase(s)
  <2> DEFINE cost == (held[s].lots * held[s].cost + wanted[s] * mark[s]) \div (held[s].lots + wanted[s])
  <2>1. /\ wanted[s] > 0
        /\ wanted' = [wanted EXCEPT ![s] = 0] /\ braced' = [braced EXCEPT ![s] = 0]
        /\ offered' = [offered EXCEPT ![s] = @ + braced[s]]
        /\ held' = [held EXCEPT ![s] = [lots |-> held[s].lots + wanted[s], cost |-> cost]]
        /\ UNCHANGED <<mark, owed, faults>>
    BY <1>3 DEF FillPurchase, ghosts
  <2>2. cost \in Nat
    <3>1. mark[s] \in Nat
      BY ShareIsFinite DEF BooksKept
    <3> QED
      BY <1>n, <2>1, <3>1, AverageCost
  <2> HIDE DEF cost
  <2>3. /\ held' \in [Share -> [lots : Nat, cost : Nat]]
        /\ held'[s].lots = held[s].lots + wanted[s]
        /\ \A t \in Share \ {s} : held'[t] = held[t]
    BY <1>n, <2>1, <2>2 DEF BooksKept
  <2>4. ASSUME NEW t \in Share PROVE LotsFit(t)'
    <3>1. CASE t = s
      <4>1. offered'[s] = offered[s] + braced[s] /\ wanted'[s] = 0 /\ braced'[s] = 0
        BY <2>1 DEF BooksKept
      <4> QED
        BY <1>n, <2>3, <3>1, <4>1 DEF LotsFit
    <3>2. CASE t # s
      <4>1. offered'[t] = offered[t] /\ wanted'[t] = wanted[t] /\ braced'[t] = braced[t] /\ held'[t] = held[t]
        BY <2>1, <2>3, <3>2 DEF BooksKept
      <4> QED
        BY <1>n, <4>1 DEF LotsFit
    <3> QED
      BY <3>1, <3>2
  <2>5. \A t \in owed' : held'[t].lots > 0 \/ wanted'[t] > 0
    <3>1. ASSUME NEW t \in owed', t # s PROVE held'[t].lots > 0 \/ wanted'[t] > 0
      BY <2>1, <2>3, <3>1 DEF BooksKept
    <3>2. held'[s].lots > 0
      BY <1>n, <2>1, <2>3
    <3> QED
      BY <3>1, <3>2
  <2>6. offered' \in [Share -> Nat] /\ wanted' \in [Share -> Nat] /\ braced' \in [Share -> Nat]
    BY <1>n, <2>1 DEF BooksKept
  <2>7. BooksKept'
    BY <1>1, <2>1, <2>3, <2>4, <2>5, <2>6 DEF BooksKept
  <2>8. NothingAwaited'
    BY <1>1, <2>1 DEF NothingAwaited, BooksKept
  <2> QED
    BY <1>1, <2>1, <2>7, <2>8, PilotRests
<1> QED
  BY <1>2, <1>3

\* The end of a phase, the prices and the operator keep the invariant.
LEMMA DayStep ==
  ASSUME DeskInv, NextPhase \/ Kill \/ \E s \in Share : MarkMoves(s) \/ CoolDown(s) \/ CooldownEnds(s)
  PROVE  DeskInv'
<1> USE DEF DeskInv
<1>1. UNCHANGED <<held, pilot, entries, lost, faults>> /\ ProgramsTyped'
  BY DEF NextPhase, Kill, MarkMoves, CoolDown, CooldownEnds, broker, ghosts, control, ProgramsTyped
<1>2. CASE NextPhase
  <2>1. ControlTyped' /\ pilot = Idle /\ mark' = mark
    BY <1>2 DEF NextPhase, ControlTyped, Phase
  <2>2. CASE phase = "late"
    <3>1. /\ offered' = [s \in Share |-> 0] /\ wanted' = [s \in Share |-> 0] /\ braced' = [s \in Share |-> 0]
          /\ owed' = {s \in owed : held[s].lots > 0}
      BY <1>2, <2>2 DEF NextPhase
    <3>2. BooksKept'
      <4>1. ASSUME NEW t \in Share PROVE LotsFit(t)'
        <5>1. held[t].lots \in Nat /\ wanted[t] \in Nat /\ MaxLots \in Nat /\ held[t].lots + wanted[t] <= MaxLots
          BY DeskAssumption DEF BooksKept, LotsFit
        <5>2. held'[t] = held[t] /\ offered'[t] = 0 /\ wanted'[t] = 0 /\ braced'[t] = 0
          BY <1>1, <3>1
        <5> QED
          BY <5>1, <5>2 DEF LotsFit
      <4>2. \A t \in owed' : held'[t].lots > 0
        BY <1>1, <3>1
      <4>3. offered' \in [Share -> Nat] /\ wanted' \in [Share -> Nat] /\ braced' \in [Share -> Nat] /\ owed' \in SUBSET Share
        BY <3>1 DEF BooksKept
      <4> QED
        BY <1>1, <2>1, <4>1, <4>2, <4>3 DEF BooksKept
    <3>3. NothingAwaited' /\ owed' \subseteq owed
      BY <3>1 DEF NothingAwaited
    <3> QED
      BY <1>1, <2>1, <3>2, <3>3, PilotRests DEF Idle
  <2>3. CASE phase # "late"
    <3>1. UNCHANGED <<offered, wanted, braced, owed>>
      BY <1>2, <2>3 DEF NextPhase
    <3>2. BooksKept'
      BY <1>1, <2>1, <3>1 DEF BooksKept, LotsFit
    <3>3. NothingAwaited'
      BY <1>2, <2>3, <3>1 DEF NextPhase, NothingAwaited, ControlTyped, Phase
    <3> QED
      BY <1>1, <2>1, <3>1, <3>2, <3>3, PilotRests DEF Idle
  <2> QED
    BY <2>2, <2>3
<1>3. CASE Kill \/ \E s \in Share : MarkMoves(s) \/ CoolDown(s) \/ CooldownEnds(s)
  <2>1. UNCHANGED <<phase, swept, offered, wanted, braced, owed>>
    BY <1>3 DEF Kill, MarkMoves, CoolDown, CooldownEnds, broker, ghosts, control
  <2>2. mark' \in [Share -> Price]
    BY <1>3 DEF Kill, MarkMoves, CoolDown, CooldownEnds, broker, BooksKept
  <2>3. ControlTyped'
    <3>1. killed' \in BOOLEAN /\ cooling' \in [shares : SUBSET Share, set : 0 .. MaxCooling]
      <4>1. MaxCooling \in Nat
        BY DeskAssumption
      <4>2. CASE Kill \/ \E s \in Share : MarkMoves(s)
        BY <4>2 DEF Kill, MarkMoves, control, ControlTyped
      <4>3. ASSUME NEW s \in Share, CoolDown(s) PROVE killed' \in BOOLEAN /\ cooling' \in [shares : SUBSET Share, set : 0 .. MaxCooling]
        BY <4>1, <4>3 DEF CoolDown, ControlTyped
      <4>4. ASSUME NEW s \in Share, CooldownEnds(s) PROVE killed' \in BOOLEAN /\ cooling' \in [shares : SUBSET Share, set : 0 .. MaxCooling]
        BY <4>1, <4>4 DEF CooldownEnds, ControlTyped
      <4> QED
        BY <1>3, <4>2, <4>3, <4>4
    <3> QED
      BY <2>1, <3>1 DEF ControlTyped
  <2>4. BooksKept' /\ NothingAwaited'
    BY <1>1, <2>1, <2>2 DEF BooksKept, LotsFit, NothingAwaited
  <2> QED
    BY <1>1, <2>1, <2>3, <2>4, PilotRests
<1> QED
  BY <1>2, <1>3

\* The day begins with nothing resting and nothing owed.
LEMMA DeskStart == DeskInit => DeskInv
<1> SUFFICES ASSUME DeskInit PROVE DeskInv
  OBVIOUS
<1> USE DEF DeskInit
<1>1. ControlTyped
  <2>1. MaxCooling \in Nat
    BY DeskAssumption
  <2>2. [shares |-> {}, set |-> 0] \in [shares : SUBSET Share, set : 0 .. MaxCooling]
    BY <2>1
  <2>3. phase = "shut" /\ swept = FALSE /\ killed = FALSE /\ cooling = [shares |-> {}, set |-> 0]
    OBVIOUS
  <2> HIDE DEF DeskInit
  <2> QED
    BY <2>2, <2>3 DEF ControlTyped, Phase
<1>2. ProgramsTyped
  BY DeskAssumption DEF ProgramsTyped, Idle, Resting
<1>3. BooksKept
  <2>1. held \in [Share -> [lots : Nat, cost : Nat]] /\ \A s \in Share : held[s].lots \in 0 .. MaxLots
    <3>0. MaxLots \in Nat /\ Price \subseteq Nat
      BY ShareIsFinite, DeskAssumption
    <3>1. ASSUME NEW s \in Share PROVE held[s] \in [lots : 0 .. MaxLots, cost : Nat]
      <4>1. held[s] = [lots |-> 0, cost |-> 0] \/ held[s] \in [lots : {MaxLots}, cost : Price]
        OBVIOUS
      <4> HIDE DEF DeskInit
      <4>2. CASE held[s] = [lots |-> 0, cost |-> 0]
        BY <3>0, <4>2
      <4>3. CASE held[s] \in [lots : {MaxLots}, cost : Price]
        <5>1. held[s].lots = MaxLots /\ held[s].cost \in Nat /\ held[s] = [lots |-> held[s].lots, cost |-> held[s].cost]
          BY <3>0, <4>3
        <5> QED
          BY <3>0, <5>1
      <4> QED
        BY <4>1, <4>2, <4>3
    <3>2. held = [s \in Share |-> held[s]]
      OBVIOUS
    <3> HIDE DEF DeskInit
    <3> QED
      BY <3>0, <3>1, <3>2
  <2> QED
    BY <2>1, DeskAssumption DEF BooksKept, LotsFit
<1>4. NothingAwaited
  BY DEF NothingAwaited
<1>5. PilotKnows
  BY DEF PilotKnows, Idle, Resting, EntriesAreOnFile
<1> QED
  BY <1>1, <1>2, <1>3, <1>4, <1>5 DEF DeskInv

\* No step breaks the invariant.
LEMMA DeskStep == DeskInv /\ [DeskNext]_deskVars => DeskInv'
<1> SUFFICES ASSUME DeskInv, [DeskNext]_deskVars PROVE DeskInv'
  OBVIOUS
<1>1. CASE UNCHANGED deskVars
  BY <1>1 DEF deskVars, DeskInv, ControlTyped, ProgramsTyped, BooksKept, LotsFit, NothingAwaited, PilotKnows, EntriesAreOnFile, Rest
<1> QED
  BY <1>1, GuardStep, PilotStep, AlertStep, SessionStep, FillStep, DayStep DEF DeskNext, BrokerNext

\* The invariant holds the types.
LEMMA DeskTyped == DeskInv => DeskTypeOK
<1> SUFFICES ASSUME DeskInv PROVE DeskTypeOK
  OBVIOUS
<1>1. MaxLots \in Nat
  BY DeskAssumption
<1>2. ASSUME NEW s \in Share PROVE held[s] \in [lots : 0 .. MaxLots, cost : Nat] /\ offered[s] \in 0 .. MaxLots /\ wanted[s] \in 0 .. MaxLots /\ braced[s] \in 0 .. MaxLots
  BY <1>1 DEF DeskInv, BooksKept, LotsFit
<1>3. /\ held \in [Share -> [lots : 0 .. MaxLots, cost : Nat]]
      /\ offered \in [Share -> 0 .. MaxLots] /\ wanted \in [Share -> 0 .. MaxLots]
      /\ braced \in [Share -> 0 .. MaxLots]
  BY <1>2 DEF DeskInv, BooksKept
<1> QED
  BY <1>3 DEF DeskInv, ControlTyped, ProgramsTyped, BooksKept, PilotKnows, PassType, PilotType, AlertType, SessionType, DeskTypeOK

\* Positions, resting orders and the programs' notes keep their types: what is
\* offered of a share never exceeds what is held, nor what is held and wanted
\* the limit, whatever the four programs and the broker do.
THEOREM DeskTypesHold == DeskSpec => []DeskTypeOK
BY DeskTyped, DeskStart, DeskStep, PTL DEF DeskSpec

\* What the pilot bought and nobody has offered since is on its file, or lost
\* with the session that bought it, for any number of shares, threads, faults
\* and sessions.
THEOREM EntriesStayOnFile == DeskSpec => []EntriesAreOnFile
<1>1. DeskInv => EntriesAreOnFile
  BY DEF DeskInv, PilotKnows
<1> QED
  BY <1>1, DeskStart, DeskStep, PTL DEF DeskSpec
-----------------------------------------------------------------------------
(* The processes of a day side by side.                                      *)

\* What TLC explores of a day (MCDailyRun) is what its three modules allow, so
\* the theorems above speak of it: the review (run_daily), the watchdogs and
\* the programs that trade shares are modelled apart, each over state of its
\* own.
THEOREM DayIsItsParts ==
  MCSpec => Spec /\ WatchSafetySpec /\ DeskInit /\ [][DeskNext]_deskVars
<1>1. MCInit => Init /\ WatchInit /\ DeskInit
  BY DEF MCInit
<1>2. DeskSide => DeskNext
  BY DEF DeskSide, DeskNext
<1>3. [MCNext]_allVars => [Next]_vars /\ [WatchNext]_watchVars /\ [DeskNext]_deskVars
  <2>1. CASE Review /\ Next
    BY <2>1 DEF Review
  <2>2. CASE (Alert /\ AlertNext) \/ (Notice /\ NoticeNext)
    BY <2>2 DEF Alert, Notice, WatchNext
  <2>3. CASE Desk /\ DeskSide
    BY <1>2, <2>3 DEF Desk
  <2>4. CASE UNCHANGED allVars
    BY <2>4 DEF allVars, others
  <2> QED
    BY <2>1, <2>2, <2>3, <2>4 DEF MCNext
<1> QED
  BY <1>1, <1>3, PTL DEF MCSpec, Spec, WatchSafetySpec

\* Nothing that a process of the day writes, of its own record or of what the
\* broker and Slack keep, leaves its type, for any number of processes, shares
\* and watchers.
THEOREM DayTypesHold == MCSpec => []MCTypeOK
<1>1. WatchInv => WatchTypeOK
  BY DEF WatchInv
<1>2. TypeOK /\ WatchTypeOK /\ DeskTypeOK => MCTypeOK
  BY DEF MCTypeOK
<1> QED
  BY <1>1, <1>2, DayIsItsParts, TypeCorrect, WatchHolds, DeskTyped, DeskStart, DeskStep, PTL
=============================================================================
