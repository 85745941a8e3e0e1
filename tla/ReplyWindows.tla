---------------------------- MODULE ReplyWindows ----------------------------
(***************************************************************************)
(* Slack reply windows (operations.py, slack_replies.py and their tables   *)
(* in database.py).                                                        *)
(*                                                                         *)
(* Every approval sent to Slack gets a ten-minute window.  A monitor polls *)
(* the message's thread, claims each reply, rejects the approval on a NO,  *)
(* answers in the thread, and ends when a NO or a size came or the time is *)
(* up.  Several monitors may watch the same thread (the task that sent the *)
(* message and a restarted process that resumed the open windows), each of *)
(* their database calls is a transaction of its own, Slack calls fail, and *)
(* processes die.  Meanwhile the operator approves, rejects and places.    *)
(***************************************************************************)
EXTENDS ApprovalLedger, Naturals, SequencesExt

CONSTANTS
    Monitor,      \* processes that run monitors
    MaxReplies,   \* bound: how many replies are posted in all threads
    MaxAges       \* bound: how often the claim of one reply grows old

ASSUME BoundsAssumption == MaxReplies \in Nat /\ MaxAges \in Nat

ASSUME FiniteAssumption == IsFiniteSet(Approval) /\ IsFiniteSet(Monitor)

VARIABLES
    window,   \* the reply window of an approval, "gone" once deleted
    late,     \* the windows whose expires_at has passed
    chat,     \* the replies posted, oldest first
    claim,    \* the processed_slack_messages row of each reply
    pc,       \* the step a monitor is about to take
    queue,    \* the approvals whose windows it has to watch, the first one now
    at,       \* the reply it is handling
    fetched,  \* how many replies existed when it last fetched the thread
    seen,     \* the kinds of reply it has handled since then
    answers,  \* history: how often each reply was answered
    aged,     \* history: how often each reply stayed claimed, unmarked, for 30 s
    lost,     \* history: the approvals whose monitor died knowing an amount
    byHand    \* history: the replies the operator marked as acknowledged

slack == <<window, late, chat, claim>>
monitor == <<pc, queue, at, fetched, seen>>
history == <<answers, aged, lost, byHand>>
vars == <<ledger, slack, monitor, history>>

\* parse_safe_reply and transition_for_reply: a NO rejects, an amount asks for
\* a fresh review, everything else is only answered.
Kind == {"reject", "size", "other"}

Window == {"none", "open", "responded", "rejected", "executed", "gone"}

Reply == 1 .. MaxReplies

TypeOK ==
    /\ LedgerTypeOK
    /\ window \in [Approval -> Window]
    /\ late \subseteq Approval
    /\ chat \in Seq([thread : Approval, kind : Kind])
    /\ claim \in [Reply -> {"none", "fresh", "stale", "acknowledged"}]
    /\ pc \in [Monitor -> {"idle", "poll", "next", "reject", "resolve", "answer",
                           "mark", "decide", "down"}]
    /\ queue \in [Monitor -> Seq(Approval)]
    /\ at \in [Monitor -> 0 .. MaxReplies]
    /\ fetched \in [Monitor -> 0 .. MaxReplies]
    /\ seen \in [Monitor -> SUBSET Kind]
    /\ answers \in [Reply -> Nat]
    /\ aged \in [Reply -> 0 .. MaxAges]
    /\ lost \subseteq Approval
    /\ byHand \subseteq Reply

Init ==
    /\ LedgerInit
    /\ window = [a \in Approval |-> "none"]
    /\ late = {}
    /\ chat = <<>>
    /\ claim = [i \in Reply |-> "none"]
    /\ pc = [w \in Monitor |-> "down"]
    /\ queue = [w \in Monitor |-> <<>>]
    /\ at = [w \in Monitor |-> 0]
    /\ fetched = [w \in Monitor |-> 0]
    /\ seen = [w \in Monitor |-> {}]
    /\ answers = [i \in Reply |-> 0]
    /\ aged = [i \in Reply |-> 0]
    /\ lost = {}
    /\ byHand = {}

Goto(w, step) == pc' = [pc EXCEPT ![w] = step]

Watched(w) == Head(queue[w])

\* The monitors' processes whose loop is running.
Running(w) == pc[w] \notin {"idle", "down"}

-----------------------------------------------------------------------------
\* The windows table.

\* prepare_purchase, once the approval message is delivered: the window is
\* opened, and the same task goes on to watch it.
OpenWindow(w, a) ==
    /\ pc[w] = "idle"
    /\ status[a] # "absent"
    /\ window[a] = "none"
    /\ window' = [window EXCEPT ![a] = "open"]
    /\ queue' = [queue EXCEPT ![w] = <<a>>]
    /\ Goto(w, "poll")
    /\ UNCHANGED <<ledger, late, chat, claim, at, fetched, seen, history>>

WindowLapses(a) ==
    /\ window[a] \notin {"none", "gone"}
    /\ a \notin late
    /\ late' = late \cup {a}
    /\ UNCHANGED <<ledger, window, chat, claim, monitor, history>>

ResolvedAsCancelled(win, a, verdict) ==  \* bug: the declared, unused verdict
    IF win[a] = "open" THEN [win EXCEPT ![a] = "cancelled"] ELSE win

\* resolve_reply_window: only an open window takes a verdict.
Resolved(win, a, verdict) ==
    IF win[a] = "open" THEN [win EXCEPT ![a] = verdict] ELSE win

\* cleanup_terminal_reply_windows: of every approval, not only the caller's.
Cleaned(win) ==
    [a \in Approval |-> IF win[a] \in {"rejected", "executed"} THEN "gone" ELSE win[a]]

Expired == {a \in late : window[a] = "open"}

RejectedWindows == [a \in Approval |-> IF a \in Expired THEN "rejected" ELSE window[a]]

\* reject_expired_reply_windows, one transaction over both tables; win is what
\* its caller then leaves of the windows.
RejectWindowsOnly(win) ==               \* bug: the approvals are left to expire
    /\ window' = win
    /\ UNCHANGED ledger

RejectExpired(win) ==
    /\ window' = win
    /\ status' = [a \in Approval |-> IF a \in Expired /\ CanReject(a) THEN "rejected"
                                                                      ELSE status[a]]
    /\ UNCHANGED <<reviewed, lapsed>>

-----------------------------------------------------------------------------
\* A monitor: monitor_slack_reply_window around monitor_slack_replies_once.

Resumable == {a \in Approval : window[a] = "open" /\ a \notin late}

\* A process that starts resumes the open windows, one monitor after the other
\* (resume_open_slack_monitors), whoever else may be watching them.
Resume(w, order) ==
    /\ pc[w] = "down"
    /\ order # <<>>
    /\ queue' = [queue EXCEPT ![w] = order]
    /\ Goto(w, "poll")
    /\ UNCHANGED <<ledger, slack, at, fetched, seen, history>>

\* A process that starts and finds no window to resume is free for other work.
ResumeNothing(w) ==
    /\ pc[w] = "down"
    /\ Resumable = {}
    /\ Goto(w, "idle")
    /\ UNCHANGED <<ledger, slack, queue, at, fetched, seen, history>>

\* host.replies: the thread as it is now, handled from its first message on.
Poll(w) ==
    /\ pc[w] = "poll"
    /\ at' = [at EXCEPT ![w] = 0]
    /\ fetched' = [fetched EXCEPT ![w] = Len(chat)]
    /\ seen' = [seen EXCEPT ![w] = {}]
    /\ Goto(w, "next")
    /\ UNCHANGED <<ledger, slack, queue, history>>

\* The replies of the watched thread that are still to be handled.
Ahead(w) == {i \in at[w] + 1 .. fetched[w] : chat[i].thread = Watched(w)}

ClaimEver(i) == claim[i] # "acknowledged"     \* bug: no wait before a re-claim

\* claim_slack_message: a new reply, or one whose claim is thirty seconds old
\* and was never acknowledged.
Claimable(i) == claim[i] \in {"none", "stale"}

NextReply(w) == {i \in Ahead(w) : \A j \in Ahead(w) : i <= j}

Claim(w) ==
    /\ pc[w] = "next"
    /\ \E i \in NextReply(w) :
        /\ at' = [at EXCEPT ![w] = i]
        /\ IF Claimable(i)
           THEN /\ claim' = [claim EXCEPT ![i] = "fresh"]
                /\ Goto(w, IF chat[i].kind = "reject" THEN "reject" ELSE "answer")
           ELSE UNCHANGED <<claim, pc>>
    /\ UNCHANGED <<ledger, window, late, chat, queue, fetched, seen, history>>

\* The thread is done.
EndOfThread(w) ==
    /\ pc[w] = "next"
    /\ Ahead(w) = {}
    /\ Goto(w, "decide")
    /\ UNCHANGED <<ledger, slack, queue, at, fetched, seen, history>>

AnswerAnyway(w) ==                      \* bug: a NO that comes too late is only answered
    /\ pc[w] = "reject"
    /\ IF CanReject(Watched(w)) THEN Reject(Watched(w)) ELSE UNCHANGED ledger
    /\ Goto(w, "resolve")
    /\ UNCHANGED <<slack, queue, at, fetched, seen, history>>

RejectRow(w) ==
    /\ pc[w] = "reject"
    /\ Reject(Watched(w))
    /\ Goto(w, "resolve")
    /\ UNCHANGED <<slack, queue, at, fetched, seen, history>>

\* An exception leaves the loop, and with it every window still queued.
Dies(w) ==
    /\ lost' = IF "size" \in seen[w] THEN lost \cup {Watched(w)} ELSE lost
    /\ queue' = [queue EXCEPT ![w] = <<>>]
    /\ at' = [at EXCEPT ![w] = 0]
    /\ fetched' = [fetched EXCEPT ![w] = 0]
    /\ seen' = [seen EXCEPT ![w] = {}]
    /\ Goto(w, "down")
    /\ UNCHANGED <<ledger, slack, answers, aged, byHand>>

\* reject raises on a row that is neither pending nor approved.
RejectRaises(w) ==
    /\ pc[w] = "reject"
    /\ ~CanReject(Watched(w))
    /\ Dies(w)

ResolveRejected(w) ==
    /\ pc[w] = "resolve"
    /\ window' = Resolved(window, Watched(w), "rejected")
    /\ Goto(w, "answer")
    /\ UNCHANGED <<ledger, late, chat, claim, queue, at, fetched, seen, history>>

Answer(w) ==
    /\ pc[w] = "answer"
    /\ answers' = [answers EXCEPT ![at[w]] = @ + 1]
    /\ Goto(w, "mark")
    /\ UNCHANGED <<ledger, slack, queue, at, fetched, seen, aged, lost, byHand>>

AnswerRaises(w) == pc[w] = "answer" /\ Dies(w)

\* mark_slack_message_acknowledged, and the outcome is remembered.
MarkWithoutOutcome(w) ==                \* bug: the outcome is not appended
    /\ pc[w] = "mark"
    /\ claim' = [claim EXCEPT ![at[w]] = "acknowledged"]
    /\ Goto(w, "next")
    /\ UNCHANGED <<ledger, window, late, chat, queue, at, fetched, seen, history>>

Mark(w) ==
    /\ pc[w] = "mark"
    /\ claim' = [claim EXCEPT ![at[w]] = "acknowledged"]
    /\ seen' = [seen EXCEPT ![w] = @ \cup {chat[at[w]].kind}]
    /\ Goto(w, "next")
    /\ UNCHANGED <<ledger, window, late, chat, queue, at, fetched, history>>

\* The monitor of one window returns: on to the next one, if any.
EndMonitor(w) ==
    /\ queue' = [queue EXCEPT ![w] = Tail(@)]
    /\ at' = [at EXCEPT ![w] = 0]
    /\ fetched' = [fetched EXCEPT ![w] = 0]
    /\ seen' = [seen EXCEPT ![w] = {}]
    /\ Goto(w, IF Len(queue[w]) > 1 THEN "poll" ELSE "idle")

ReturnRejected(w) ==
    /\ pc[w] = "decide"
    /\ "reject" \in seen[w]
    /\ window' = Cleaned(window)
    /\ EndMonitor(w)
    /\ UNCHANGED <<ledger, late, chat, claim, history>>

ReturnResponded(w) ==
    /\ pc[w] = "decide"
    /\ "reject" \notin seen[w]
    /\ "size" \in seen[w]
    /\ window' = Resolved(window, Watched(w), "responded")
    /\ EndMonitor(w)
    /\ UNCHANGED <<ledger, late, chat, claim, history>>

Quiet(w) == seen[w] \cap {"reject", "size"} = {}

\* The monitor started when its window was open already and runs as long as
\* the window, so the window has lapsed when its time is up.
ReturnOnTimeOnly(w) ==                  \* bug: the window is left to somebody else
    /\ pc[w] = "decide"
    /\ Quiet(w)
    /\ Watched(w) \in late
    /\ EndMonitor(w)
    /\ UNCHANGED <<ledger, slack, history>>

ReturnTimedOut(w) ==
    /\ pc[w] = "decide"
    /\ Quiet(w)
    /\ Watched(w) \in late
    /\ RejectExpired(Cleaned(RejectedWindows))
    /\ EndMonitor(w)
    /\ UNCHANGED <<late, chat, claim, history>>

KeepPolling(w) ==
    /\ pc[w] = "decide"
    /\ Quiet(w)
    /\ Goto(w, "poll")
    /\ UNCHANGED <<ledger, slack, queue, at, fetched, seen, history>>

Crash(w) == Running(w) /\ Dies(w)

-----------------------------------------------------------------------------
\* Slack's users, the clock, the operator and the placement path.

Post(a, kind) ==
    /\ window[a] # "none"
    /\ Len(chat) < MaxReplies
    /\ chat' = Append(chat, [thread |-> a, kind |-> kind])
    /\ UNCHANGED <<ledger, window, late, claim, monitor, history>>

ClaimAges(i) ==
    /\ claim[i] = "fresh"
    /\ aged[i] < MaxAges
    /\ claim' = [claim EXCEPT ![i] = "stale"]
    /\ aged' = [aged EXCEPT ![i] = @ + 1]
    /\ UNCHANGED <<ledger, window, late, chat, monitor, answers, lost, byHand>>

\* The row moves on under the monitors' feet: prepared, approved or rejected
\* by the operator, reserved, settled.
RowMoves(a) ==
    /\ \/ \E o \in Order : Create(a, o)
       \/ Approve(a)
       \/ Reject(a)
       \/ Reserve(a, a, reviewed[a])
       \/ MarkExecuted(a)
       \/ status[a] = "executing" /\ MarkReconciliationRequired(a)
    /\ UNCHANGED <<slack, monitor, history>>

\* execute_approved after a placement: the window is closed and cleaned up.
CloseExecuted(a) ==
    /\ status[a] = "executed"
    /\ window' = Cleaned(Resolved(window, a, "executed"))
    /\ UNCHANGED <<ledger, late, chat, claim, monitor, history>>

\* cio expire-reply-windows, run by hand.
OperatorExpires ==
    /\ Expired # {}
    /\ RejectExpired(RejectedWindows)
    /\ UNCHANGED <<late, chat, claim, monitor, history>>

\* cio clean-reply-windows, run by hand.
OperatorCleans ==
    /\ window' = Cleaned(window)
    /\ UNCHANGED <<ledger, late, chat, claim, monitor, history>>

\* cio process-slack-reply, run by hand: it claims the reply and prints what it
\* says; the answer, and a rejection, are left to the operator.
OperatorClaims(i) ==
    /\ i <= Len(chat)
    /\ Claimable(i)
    /\ claim' = [claim EXCEPT ![i] = "fresh"]
    /\ UNCHANGED <<ledger, window, late, chat, monitor, history>>

\* cio mark-slack-reply-acknowledged, run by hand: whoever claimed the reply.
OperatorMarks(i) ==
    /\ claim[i] \in {"fresh", "stale"}
    /\ claim' = [claim EXCEPT ![i] = "acknowledged"]
    /\ byHand' = byHand \cup {i}
    /\ UNCHANGED <<ledger, window, late, chat, monitor, answers, aged, lost>>

MonitorStep(w) ==
    \/ Poll(w)
    \/ Claim(w)
    \/ EndOfThread(w)
    \/ RejectRow(w)
    \/ RejectRaises(w)
    \/ ResolveRejected(w)
    \/ Answer(w)
    \/ AnswerRaises(w)
    \/ Mark(w)
    \/ ReturnRejected(w)
    \/ ReturnResponded(w)
    \/ ReturnTimedOut(w)
    \/ KeepPolling(w)

Restart(w) == ResumeNothing(w) \/ \E order \in SetToSeqs(Resumable) : Resume(w, order)

Next ==
    \/ \E w \in Monitor : MonitorStep(w)
    \/ \E w \in Monitor : Crash(w)
    \/ \E w \in Monitor : Restart(w)
    \/ \E w \in Monitor, a \in Approval : OpenWindow(w, a)
    \/ \E a \in Approval : WindowLapses(a)
    \/ \E a \in Approval, kind \in Kind : Post(a, kind)
    \/ \E i \in Reply : ClaimAges(i)
    \/ \E a \in Approval : RowMoves(a)
    \/ \E a \in Approval : CloseExecuted(a)
    \/ OperatorExpires
    \/ OperatorCleans
    \/ \E i \in Reply : OperatorClaims(i)
    \/ \E i \in Reply : OperatorMarks(i)

Spec == Init /\ [][Next]_vars

\* A monitor keeps running until it returns, raises or dies, and its clock
\* (time.monotonic against timeout_seconds) always runs out in the end, however
\* often it polls; so do the ten minutes of a window.  Nothing is assumed of
\* Slack, the operator or the processes.
Fairness ==
    /\ \A w \in Monitor : WF_vars(MonitorStep(w)) /\ SF_vars(ReturnTimedOut(w))
    /\ \A a \in Approval : WF_vars(WindowLapses(a))

FairSpec == Spec /\ Fairness

\* Every process that is down is also started and resumes its work.
RestartedSpec == FairSpec /\ \A w \in Monitor : WF_vars(Restart(w))

-----------------------------------------------------------------------------
\* Properties.

\* A NO that was answered ("no order will be placed") stands: its approval is
\* rejected, whoever raced the monitor to approve, reserve or place.
AnsweredNoStands ==
    \A i \in 1 .. Len(chat) :
        answers[i] > 0 /\ chat[i].kind = "reject" => status[chat[i].thread] = "rejected"

\* The two tables agree: a window that is closed for good belongs to a row that
\* can no longer be approved or placed.
ClosedWindowsCarryNoAuthority ==
    \A a \in Approval :
        window[a] \in {"rejected", "executed", "gone"} => status[a] \notin {"pending", "approved"}

\* However many monitors watch a thread, a reply is answered once, and once more
\* only for every time its claim stayed unmarked for thirty seconds.
AnsweredOnce == \A i \in Reply : answers[i] <= 1 + aged[i]

\* An amount that was acknowledged is never polled away: while its window is
\* open, some monitor is about to report it, or died knowing it.  Only an amount
\* the operator marked by hand (cio mark-slack-reply-acknowledged) may be known to
\* no monitor; one the operator only claimed is answered by a monitor later on,
\* and then reported like any other.
AmountsAreReported ==
    \A i \in 1 .. Len(chat) :
        LET a == chat[i].thread
        IN  claim[i] = "acknowledged" /\ chat[i].kind = "size" /\ window[a] = "open"
            => \/ i \in byHand
               \/ a \in lost
               \/ \E w \in Monitor : Running(w) /\ Watched(w) = a /\ "size" \in seen[w]

\* A monitor that is not killed by an error closes the window it watches.
MonitorsCloseWindows ==
    \A w \in Monitor, a \in Approval :
        (Running(w) /\ Watched(w) = a /\ window[a] = "open") ~> (window[a] # "open" \/ pc[w] = "down")

-----------------------------------------------------------------------------
\* A statement of the documentation that the code does not keep.

\* README.md: "If no response arrives in 10 minutes, the linked pending approval
\* is rejected."  A process that restarts after the ten minutes resumes only
\* the windows that have not expired, and leaves the others open.
SilenceRejects ==
    \A a \in Approval :
        (window[a] = "open" /\ status[a] = "pending") ~> (window[a] # "open" \/ status[a] # "pending")
=============================================================================
