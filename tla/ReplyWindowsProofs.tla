------------------------- MODULE ReplyWindowsProofs -------------------------
(***************************************************************************)
(* Safety of the reply windows, for any number of approvals, monitors and   *)
(* replies, with failing Slack calls and deaths at every step.              *)
(*                                                                          *)
(* The inductive invariant says what a monitor knows of the reply in its    *)
(* hands and of the window it watches, and how many claims of a reply were  *)
(* ever handed out: an answer takes a claim, and a second claim takes a     *)
(* claim that grew old.                                                     *)
(***************************************************************************)
EXTENDS ReplyWindows, FiniteSetTheorems, SequenceTheorems, TLAPS

Busy == {"reject", "resolve", "answer", "mark"}

Hand(w) == chat[at[w]]

\* What a monitor knows of the windows it is to watch, of the reply in its hands,
\* of a NO it has acted on, and of what it has handled.
OnQueue(w) ==
    /\ \A k \in 1 .. Len(queue[w]) : window[queue[w][k]] # "none"
    /\ Running(w) => Len(queue[w]) >= 1
    /\ fetched[w] <= Len(chat)

InHand(w) ==
    /\ pc[w] \in Busy => at[w] \in 1 .. Len(chat) /\ Hand(w).thread = Watched(w)
    /\ pc[w] \in {"reject", "resolve"} => Hand(w).kind = "reject"

NoStands(w) ==
    /\ pc[w] = "resolve" => status[Watched(w)] = "rejected"
    /\ pc[w] \in {"answer", "mark"} /\ Hand(w).kind = "reject" =>
           status[Watched(w)] = "rejected" /\ window[Watched(w)] # "open"

Remembers(w) ==
    /\ Running(w) /\ "reject" \in seen[w] => window[Watched(w)] # "open"
    /\ pc[w] \in {"poll", "idle", "down"} => Quiet(w)

Knows(w) == OnQueue(w) /\ InHand(w) /\ NoStands(w) /\ Remembers(w)

Knowing == \A w \in Monitor : Knows(w)

\* Replies are claimed, and windows opened, only where there are any.
Threads ==
    /\ Len(chat) <= MaxReplies
    /\ \A i \in 1 .. Len(chat) : window[chat[i].thread] # "none"
    /\ \A i \in Reply : claim[i] # "none" \/ answers[i] > 0 => i <= Len(chat)
    /\ \A a \in Approval : window[a] # "none" => status[a] # "absent"

\* The claims of a reply handed out so far, and the monitors that still owe its answer.
Claims(i) == IF claim[i] = "none" THEN 0 ELSE IF claim[i] = "stale" THEN aged[i] ELSE 1 + aged[i]

Owing(i) == {w \in Monitor : at[w] = i /\ pc[w] \in {"reject", "resolve", "answer"}}

AnswersAreClaimed == \A i \in Reply : answers[i] + Cardinality(Owing(i)) <= Claims(i)

IInv == /\ TypeOK /\ Knowing /\ Threads
        /\ AnsweredNoStands /\ ClosedWindowsCarryNoAuthority /\ AmountsAreReported /\ AnswersAreClaimed

-----------------------------------------------------------------------------
\* Types.

PCs == {"idle", "poll", "next", "reject", "resolve", "answer", "mark", "decide", "down"}

\* The table's transactions keep its type and move a row forward only.
Later(a) ==
    /\ status[a] = "rejected" => status'[a] = "rejected"
    /\ status[a] # "absent" => status'[a] # "absent"
    /\ status[a] \notin {"absent", "pending", "approved"} => status'[a] \notin {"absent", "pending", "approved"}

LEMMA RowMoveType ==
  ASSUME LedgerTypeOK, NEW a \in Approval, RowMoves(a)
  PROVE  LedgerTypeOK' /\ \A b \in Approval : Later(b)
<1> USE DEF LedgerTypeOK, Status, Later
<1>1. ASSUME NEW o \in Order, Create(a, o) PROVE LedgerTypeOK' /\ \A b \in Approval : Later(b)
  BY <1>1 DEF Create
<1>2. CASE Approve(a) \/ Reject(a)
  BY <1>2 DEF Approve, Reject, CanApprove, CanReject
<1>3. CASE Reserve(a, a, reviewed[a])
  BY <1>3 DEF Reserve, CanReserve
<1>4. CASE MarkExecuted(a) \/ (status[a] = "executing" /\ MarkReconciliationRequired(a))
  BY <1>4 DEF MarkExecuted, MarkReconciliationRequired
<1> QED
  BY <1>1, <1>2, <1>3, <1>4 DEF RowMoves

LEMMA ExpireType ==
  ASSUME LedgerTypeOK, NEW win, RejectExpired(win)
  PROVE  LedgerTypeOK' /\ \A b \in Approval : Later(b)
BY DEF LedgerTypeOK, Status, Later, RejectExpired, CanReject

LEMMA RejectType ==
  ASSUME LedgerTypeOK, NEW a \in Approval, Reject(a)
  PROVE  LedgerTypeOK' /\ (\A b \in Approval : Later(b)) /\ status'[a] = "rejected"
BY DEF LedgerTypeOK, Status, Later, Reject, CanReject

LEMMA WindowsType ==
  ASSUME TypeOK
  PROVE  /\ \A a \in Approval, v \in {"rejected", "responded", "executed"} :
                Resolved(window, a, v) \in [Approval -> Window] /\ Cleaned(Resolved(window, a, v)) \in [Approval -> Window]
         /\ Cleaned(window) \in [Approval -> Window]
         /\ RejectedWindows \in [Approval -> Window] /\ Cleaned(RejectedWindows) \in [Approval -> Window]
<1> USE DEF TypeOK, Window
<1>1. \A a \in Approval, v \in {"rejected", "responded", "executed"} : Resolved(window, a, v) \in [Approval -> Window]
  BY DEF Resolved
<1>2. \A win \in [Approval -> Window] : Cleaned(win) \in [Approval -> Window]
  BY DEF Cleaned
<1>3. RejectedWindows \in [Approval -> Window]
  BY DEF RejectedWindows
<1> HIDE DEF TypeOK, Window
<1>4. window \in [Approval -> Window]
  BY DEF TypeOK
<1> QED
  BY <1>1, <1>2, <1>3, <1>4

\* The watched approval of a running monitor.
LEMMA WatchedType ==
  ASSUME TypeOK, NEW w \in Monitor, Knows(w), Running(w)
  PROVE  /\ Watched(w) \in Approval /\ Watched(w) = queue[w][1] /\ window[Watched(w)] # "none"
         /\ Tail(queue[w]) \in Seq(Approval)
         /\ Len(Tail(queue[w])) = Len(queue[w]) - 1
         /\ \A k \in 1 .. Len(Tail(queue[w])) : Tail(queue[w])[k] = queue[w][k + 1]
<1>1. queue[w] \in Seq(Approval) /\ Len(queue[w]) >= 1
  BY DEF TypeOK, Knows, OnQueue, InHand
<1>2. queue[w] # <<>> /\ 1 \in 1 .. Len(queue[w])
  BY <1>1
<1>3. Head(queue[w]) = queue[w][1]
  BY <1>1
<1>4. queue[w][1] \in Approval
  BY <1>1, <1>2, ElementOfSeq
<1> QED
  BY <1>1, <1>2, <1>3, <1>4, HeadTailProperties DEF Watched, Knows, OnQueue, InHand

\* Restarting takes some order of the open windows.
LEMMA OrderType ==
  ASSUME TypeOK, NEW order \in SetToSeqs(Resumable)
  PROVE  order \in Seq(Approval) /\ \A k \in 1 .. Len(order) : order[k] \in Approval /\ window[order[k]] = "open"
<1>1. Resumable \in SUBSET Approval
  BY DEF Resumable
<1>2. Cardinality(Resumable) \in Nat
  BY <1>1, FiniteAssumption, FS_Subset, FS_CardinalityType
<1>3. order \in [1 .. Cardinality(Resumable) -> Resumable]
  BY DEF SetToSeqs
<1>4. order \in Seq(Resumable) /\ Len(order) = Cardinality(Resumable)
  BY <1>2, <1>3
<1>5. order \in Seq(Approval)
  BY <1>1, <1>4, SeqMonotonic
<1>6. \A k \in 1 .. Len(order) : order[k] \in Resumable
  BY <1>3, <1>4
<1> QED
  BY <1>1, <1>5, <1>6 DEF Resumable

\* A monitor that dies or goes on to the next window.
LEMMA DiesType ==
  ASSUME TypeOK, NEW w \in Monitor, Dies(w), lost \cup {Watched(w)} \subseteq Approval \/ "size" \notin seen[w]
  PROVE  TypeOK'
<1>2. queue' \in [Monitor -> Seq(Approval)]
  BY EmptySeq DEF TypeOK, Dies
<1>3. /\ pc' \in [Monitor -> PCs] /\ lost' \subseteq Approval
      /\ at' \in [Monitor -> 0 .. MaxReplies] /\ fetched' \in [Monitor -> 0 .. MaxReplies]
      /\ seen' \in [Monitor -> SUBSET Kind]
  BY BoundsAssumption DEF TypeOK, Dies, Goto, PCs
<1> QED
  BY <1>2, <1>3 DEF TypeOK, Dies, ledger, slack, LedgerTypeOK, PCs

LEMMA EndType ==
  ASSUME TypeOK, NEW w \in Monitor, Knows(w), Running(w), EndMonitor(w)
  PROVE  /\ pc' \in [Monitor -> PCs] /\ queue' \in [Monitor -> Seq(Approval)]
         /\ at' \in [Monitor -> 0 .. MaxReplies] /\ fetched' \in [Monitor -> 0 .. MaxReplies]
         /\ seen' \in [Monitor -> SUBSET Kind]
<1>1. Tail(queue[w]) \in Seq(Approval)
  BY WatchedType
<1> QED
  BY <1>1, BoundsAssumption DEF TypeOK, EndMonitor, Goto, PCs

LEMMA TypeStep == IInv /\ [Next]_vars => TypeOK'
<1> SUFFICES ASSUME IInv, [Next]_vars PROVE TypeOK'
  OBVIOUS
<1>0. TypeOK /\ Threads /\ \A w \in Monitor : Knows(w)
  BY DEF IInv, Knowing
<1> USE BoundsAssumption DEF TypeOK, ledger, slack, monitor, history, Goto
<1>1. ASSUME NEW w \in Monitor, NEW a \in Approval, OpenWindow(w, a) PROVE TypeOK'
  <2>1. <<a>> \in Seq(Approval)
    OBVIOUS
  <2> QED
    BY <1>0, <1>1, <2>1 DEF OpenWindow, Window, LedgerTypeOK
<1>2. ASSUME NEW w \in Monitor, Restart(w) PROVE TypeOK'
  <2>1. CASE ResumeNothing(w)
    BY <1>0, <2>1 DEF ResumeNothing, LedgerTypeOK
  <2>2. ASSUME NEW order \in SetToSeqs(Resumable), Resume(w, order) PROVE TypeOK'
    <3>1. order \in Seq(Approval)
      BY <1>0, OrderType
    <3> QED
      BY <1>0, <2>2, <3>1 DEF Resume, LedgerTypeOK
  <2> QED
    BY <1>2, <2>1, <2>2 DEF Restart
<1>3. ASSUME NEW w \in Monitor, Poll(w) PROVE TypeOK'
  <2>1. Len(chat) \in 0 .. MaxReplies
    BY <1>0 DEF Threads
  <2> QED
    BY <1>0, <1>3, <2>1, SMTT(30) DEF Poll, LedgerTypeOK
<1>4. ASSUME NEW w \in Monitor, Claim(w) PROVE TypeOK'
  <2>1. PICK i \in NextReply(w) :
          /\ at' = [at EXCEPT ![w] = i]
          /\ IF Claimable(i)
             THEN /\ claim' = [claim EXCEPT ![i] = "fresh"]
                  /\ Goto(w, IF chat[i].kind = "reject" THEN "reject" ELSE "answer")
             ELSE UNCHANGED <<claim, pc>>
    BY <1>4 DEF Claim
  <2>2. i \in Reply /\ i \in 0 .. MaxReplies
    BY <1>0, <2>1 DEF NextReply, Ahead, Reply
  <2>3. /\ claim' \in [Reply -> {"none", "fresh", "stale", "acknowledged"}]
        /\ pc' \in [Monitor -> PCs] /\ at' \in [Monitor -> 0 .. MaxReplies]
    BY <1>0, <2>1, <2>2 DEF PCs
  <2> QED
    BY <1>0, <1>4, <2>3 DEF Claim, LedgerTypeOK, PCs
<1>5. ASSUME NEW w \in Monitor, RejectRow(w) PROVE TypeOK'
  <2>1. Watched(w) \in Approval
    BY <1>0, <1>5, WatchedType DEF RejectRow, Running
  <2>2. LedgerTypeOK'
    BY <1>0, <1>5, <2>1, RejectType DEF RejectRow
  <2> QED
    BY <1>0, <1>5, <2>2 DEF RejectRow
<1>6. ASSUME NEW w \in Monitor, RejectRaises(w) \/ AnswerRaises(w) \/ Crash(w) PROVE TypeOK'
  <2>1. Running(w) /\ Dies(w)
    BY <1>6 DEF RejectRaises, AnswerRaises, Crash, Running
  <2>2. Watched(w) \in Approval
    BY <1>0, <2>1, WatchedType
  <2> QED
    BY <1>0, <2>1, <2>2, DiesType
<1>7. ASSUME NEW w \in Monitor, ResolveRejected(w) PROVE TypeOK'
  <2>1. Watched(w) \in Approval
    BY <1>0, <1>7, WatchedType DEF ResolveRejected, Running
  <2>2. window' \in [Approval -> Window]
    BY <1>0, <1>7, <2>1, WindowsType DEF ResolveRejected
  <2> QED
    BY <1>0, <1>7, <2>2 DEF ResolveRejected, LedgerTypeOK
<1>8. ASSUME NEW w \in Monitor, Answer(w) \/ Mark(w) PROVE TypeOK'
  <2>1. at[w] \in 1 .. Len(chat) /\ at[w] \in Reply
    BY <1>0, <1>8 DEF Answer, Mark, Knows, OnQueue, InHand, Busy, Reply, Threads
  <2>2. Hand(w).kind \in Kind
    <3>1. chat[at[w]] \in [thread : Approval, kind : Kind]
      BY <1>0, <2>1, ElementOfSeq
    <3> QED
      BY <3>1 DEF Hand
  <2>3. CASE Answer(w)
    BY <1>0, <2>1, <2>3, SMTT(30) DEF Answer, LedgerTypeOK
  <2>4. CASE Mark(w)
    BY <1>0, <2>1, <2>2, <2>4 DEF Mark, Hand, LedgerTypeOK
  <2> QED
    BY <1>8, <2>3, <2>4
<1>9. ASSUME NEW w \in Monitor, EndOfThread(w) \/ KeepPolling(w) PROVE TypeOK'
  BY <1>0, <1>9 DEF EndOfThread, KeepPolling, LedgerTypeOK
<1>10. ASSUME NEW w \in Monitor, ReturnRejected(w) \/ ReturnResponded(w) \/ ReturnTimedOut(w) PROVE TypeOK'
  <2>1. Running(w) /\ EndMonitor(w)
    BY <1>10 DEF ReturnRejected, ReturnResponded, ReturnTimedOut, Running
  <2>2. Watched(w) \in Approval
    BY <1>0, <2>1, WatchedType
  <2>3. window' \in [Approval -> Window]
    BY <1>0, <1>10, <2>2, WindowsType DEF ReturnRejected, ReturnResponded, ReturnTimedOut, RejectExpired
  <2>4. LedgerTypeOK'
    BY <1>0, <1>10, ExpireType DEF ReturnRejected, ReturnResponded, ReturnTimedOut, LedgerTypeOK
  <2>5. /\ pc' \in [Monitor -> PCs] /\ queue' \in [Monitor -> Seq(Approval)]
        /\ at' \in [Monitor -> 0 .. MaxReplies] /\ fetched' \in [Monitor -> 0 .. MaxReplies]
        /\ seen' \in [Monitor -> SUBSET Kind]
    BY <1>0, <2>1, EndType
  <2> QED
    BY <1>0, <1>10, <2>3, <2>4, <2>5 DEF ReturnRejected, ReturnResponded, ReturnTimedOut, PCs
<1>11. ASSUME NEW a \in Approval, WindowLapses(a) \/ RowMoves(a) \/ CloseExecuted(a) \/ \E kind \in Kind : Post(a, kind)
       PROVE  TypeOK'
  <2>1. CASE WindowLapses(a)
    BY <1>0, <2>1 DEF WindowLapses, LedgerTypeOK
  <2>2. CASE RowMoves(a)
    BY <1>0, <2>2, RowMoveType DEF RowMoves
  <2>3. CASE CloseExecuted(a)
    BY <1>0, <2>3, WindowsType DEF CloseExecuted, LedgerTypeOK
  <2>4. ASSUME NEW kind \in Kind, Post(a, kind) PROVE TypeOK'
    <3>1. [thread |-> a, kind |-> kind] \in [thread : Approval, kind : Kind]
      OBVIOUS
    <3>2. chat' \in Seq([thread : Approval, kind : Kind])
      BY <1>0, <2>4, <3>1 DEF Post
    <3> QED
      BY <1>0, <2>4, <3>2 DEF Post, LedgerTypeOK
  <2> QED
    BY <1>11, <2>1, <2>2, <2>3, <2>4
<1>12. ASSUME NEW i \in Reply, ClaimAges(i) PROVE TypeOK'
  BY <1>0, <1>12, SMTT(30) DEF ClaimAges, LedgerTypeOK
<1>13. CASE OperatorExpires
  BY <1>0, <1>13, ExpireType, WindowsType DEF OperatorExpires, RejectExpired
<1>14. CASE OperatorCleans
  BY <1>0, <1>14, WindowsType DEF OperatorCleans, LedgerTypeOK
<1>15. CASE UNCHANGED vars
  BY <1>0, <1>15 DEF vars, LedgerTypeOK
<1>16. ASSUME NEW i \in Reply, OperatorClaims(i) \/ OperatorMarks(i) PROVE TypeOK'
  <2>1. /\ claim' \in [Reply -> {"none", "fresh", "stale", "acknowledged"}]
        /\ byHand' \subseteq Reply
    BY <1>0, <1>16 DEF OperatorClaims, OperatorMarks
  <2> QED
    BY <1>0, <1>16, <2>1, SMTT(30) DEF OperatorClaims, OperatorMarks, LedgerTypeOK
<1> HIDE DEF TypeOK, ledger, slack, monitor, history, Goto
<1> QED
  BY <1>1, <1>2, <1>3, <1>4, <1>5, <1>6, <1>7, <1>8, <1>9, <1>10, <1>11, <1>12, <1>13, <1>14, <1>15, <1>16 DEF Next, MonitorStep

-----------------------------------------------------------------------------
\* What every step leaves standing.

Onward == /\ \A a \in Approval : Later(a)
          /\ \A a \in Approval : window[a] # "none" => window'[a] # "none" /\ (window[a] # "open" => window'[a] # "open")
          /\ Len(chat) <= Len(chat') /\ \A i \in 1 .. Len(chat) : chat'[i] = chat[i]

\* No transaction opens a window again.
LEMMA WindowsOnward ==
  ASSUME TypeOK, NEW b \in Approval, NEW v \in {"rejected", "responded", "executed"}, NEW a \in Approval, window[a] # "none",
         window' \in {Resolved(window, b, v), Cleaned(Resolved(window, b, v)), Cleaned(window), RejectedWindows, Cleaned(RejectedWindows)}
  PROVE  window'[a] # "none" /\ (window[a] # "open" => window'[a] # "open")
<1> USE DEF TypeOK
<1>1. /\ Resolved(window, b, v)[a] # "none" /\ (window[a] # "open" => Resolved(window, b, v)[a] # "open")
      /\ RejectedWindows[a] # "none" /\ (window[a] # "open" => RejectedWindows[a] # "open")
  BY DEF Resolved, RejectedWindows
<1>2. \A win : /\ win[a] # "none" => Cleaned(win)[a] # "none"
               /\ win[a] # "open" => Cleaned(win)[a] # "open"
  BY DEF Cleaned
<1> HIDE DEF TypeOK
<1> QED
  BY <1>1, <1>2

LEMMA StepOnward == IInv /\ [Next]_vars => Onward
<1> SUFFICES ASSUME IInv, [Next]_vars PROVE Onward
  OBVIOUS
<1>0. TypeOK /\ LedgerTypeOK /\ (\A w \in Monitor : Knows(w)) /\ (status' = status => \A a \in Approval : Later(a))
  BY DEF IInv, Knowing, TypeOK, Later
<1>1. ASSUME chat' = chat, window' = window, \A a \in Approval : Later(a) PROVE Onward
  BY <1>1 DEF Onward
<1>2. ASSUME NEW a \in Approval, RowMoves(a) PROVE Onward
  BY <1>0, <1>1, <1>2, RowMoveType DEF RowMoves, slack
<1>3. ASSUME NEW w \in Monitor, RejectRow(w) PROVE Onward
  <2>1. Watched(w) \in Approval
    BY <1>0, <1>3, WatchedType DEF RejectRow, Running
  <2> QED
    BY <1>0, <1>1, <1>3, <2>1, RejectType DEF RejectRow, slack
<1>4. ASSUME NEW b \in Approval, NEW v \in {"rejected", "responded", "executed"}, chat' = chat,
             window' \in {Resolved(window, b, v), Cleaned(Resolved(window, b, v)), Cleaned(window), RejectedWindows, Cleaned(RejectedWindows)},
             \A a \in Approval : Later(a)
      PROVE  Onward
  BY <1>0, <1>4, WindowsOnward DEF Onward
<1>5. ASSUME NEW w \in Monitor, ResolveRejected(w) \/ ReturnRejected(w) \/ ReturnResponded(w) \/ ReturnTimedOut(w) PROVE Onward
  <2>1. Watched(w) \in Approval
    BY <1>0, <1>5, WatchedType DEF ResolveRejected, ReturnRejected, ReturnResponded, ReturnTimedOut, Running
  <2>2. \A a \in Approval : Later(a)
    BY <1>0, <1>5, ExpireType DEF ResolveRejected, ReturnRejected, ReturnResponded, ReturnTimedOut, ledger
  <2>3. /\ chat' = chat
        /\ window' \in {Resolved(window, Watched(w), "rejected"), Resolved(window, Watched(w), "responded"), Cleaned(window), Cleaned(RejectedWindows)}
    BY <1>5 DEF ResolveRejected, ReturnRejected, ReturnResponded, ReturnTimedOut, RejectExpired
  <2> QED
    BY <1>4, <2>1, <2>2, <2>3
<1>6. ASSUME NEW a \in Approval, CloseExecuted(a) PROVE Onward
  BY <1>0, <1>4, <1>6 DEF CloseExecuted, ledger
<1>7. ASSUME OperatorExpires PROVE Onward
  <2>1. PICK a \in Approval : a \in Expired
    BY <1>0, <1>7 DEF OperatorExpires, Expired, TypeOK
  <2>2. \A b \in Approval : Later(b)
    BY <1>0, <1>7, ExpireType DEF OperatorExpires
  <2> QED
    BY <1>4, <1>7, <2>1, <2>2 DEF OperatorExpires, RejectExpired
<1>8. ASSUME OperatorCleans PROVE Onward
  <2>1. \A a \in Approval : window[a] # "none" => window'[a] # "none" /\ (window[a] # "open" => window'[a] # "open")
    BY <1>0, <1>8, WindowsOnward DEF OperatorCleans
  <2> QED
    BY <1>0, <1>8, <2>1 DEF OperatorCleans, Onward, ledger
<1>9. ASSUME NEW w \in Monitor, NEW a \in Approval, OpenWindow(w, a) PROVE Onward
  BY <1>0, <1>9 DEF OpenWindow, Onward, ledger, TypeOK
<1>10. ASSUME NEW a \in Approval, NEW kind \in Kind, Post(a, kind) PROVE Onward
  <2>1. [thread |-> a, kind |-> kind] \in [thread : Approval, kind : Kind] /\ chat \in Seq([thread : Approval, kind : Kind])
    BY <1>0 DEF TypeOK
  <2>2. chat' = Append(chat, [thread |-> a, kind |-> kind])
    BY <1>10 DEF Post
  <2>3. Len(chat) <= Len(chat') /\ \A i \in 1 .. Len(chat) : chat'[i] = chat[i]
    BY <2>1, <2>2
  <2> QED
    BY <1>0, <1>10, <2>3 DEF Post, Onward, ledger
<1>11. ASSUME NEW w \in Monitor,
              \/ Poll(w) \/ Claim(w) \/ EndOfThread(w) \/ RejectRaises(w) \/ Answer(w) \/ AnswerRaises(w) \/ Mark(w)
              \/ KeepPolling(w) \/ Crash(w) \/ Restart(w)
       PROVE  Onward
  <2>1. UNCHANGED <<status, window, chat>>
    BY <1>11 DEF Poll, Claim, EndOfThread, RejectRaises, Answer, AnswerRaises, Mark, KeepPolling, Crash, Restart,
                 Resume, ResumeNothing, Dies, ledger, slack
  <2> QED
    BY <1>0, <1>1, <2>1
<1>13. ASSUME NEW i \in Reply, ClaimAges(i) \/ OperatorClaims(i) \/ OperatorMarks(i) PROVE Onward
  BY <1>0, <1>1, <1>13 DEF ClaimAges, OperatorClaims, OperatorMarks, ledger
<1>12. CASE (\E a \in Approval : WindowLapses(a)) \/ UNCHANGED vars
  <2>1. UNCHANGED <<status, window, chat>>
    BY <1>12 DEF WindowLapses, vars, ledger, slack
  <2> QED
    BY <1>0, <1>1, <2>1
<1> QED
  BY <1>2, <1>3, <1>5, <1>6, <1>7, <1>8, <1>9, <1>10, <1>11, <1>12, <1>13 DEF Next, MonitorStep

-----------------------------------------------------------------------------
\* What monitors know is kept, by the others and by the one that acts.

Still(w) == /\ pc'[w] = pc[w] /\ queue'[w] = queue[w] /\ at'[w] = at[w]
            /\ fetched'[w] = fetched[w] /\ seen'[w] = seen[w]

\* Windows of the queue stay what they are.
LEMMA QueueOnward ==
  ASSUME TypeOK, Onward, NEW w \in Monitor, Knows(w)
  PROVE  /\ \A k \in 1 .. Len(queue[w]) : window'[queue[w][k]] # "none"
         /\ fetched[w] <= Len(chat')
<1>1. queue[w] \in Seq(Approval) /\ chat \in Seq([thread : Approval, kind : Kind]) /\ fetched[w] \in 0 .. MaxReplies
  BY DEF TypeOK
<1>2. \A k \in 1 .. Len(queue[w]) : queue[w][k] \in Approval
  BY <1>1, ElementOfSeq
<1>3. Len(chat) \in Nat /\ fetched[w] \in Nat
  BY <1>1, LenProperties, BoundsAssumption
<1> QED
  BY <1>2, <1>3 DEF Knows, OnQueue, InHand, Onward

LEMMA StillKnows ==
  ASSUME TypeOK, TypeOK', Onward, NEW w \in Monitor, Knows(w), Still(w)
  PROVE  Knows(w)'
<1>1. \A k \in 1 .. Len(queue[w]) : window'[queue[w][k]] # "none"
  BY QueueOnward
<1>2. fetched[w] <= Len(chat')
  BY QueueOnward
<1>3. Running(w) => Watched(w) \in Approval /\ window[Watched(w)] # "none"
  BY WatchedType
<1>4. Len(chat) \in Nat /\ Len(chat') \in Nat
  BY LenProperties DEF TypeOK
<1>5. at[w] \in 1 .. Len(chat) => at[w] \in 1 .. Len(chat') /\ chat'[at[w]] = chat[at[w]]
  BY <1>4 DEF Onward
<1>6. Running(w) => /\ status[Watched(w)] = "rejected" => status'[Watched(w)] = "rejected"
                    /\ window[Watched(w)] # "open" => window'[Watched(w)] # "open"
  BY <1>3 DEF Onward, Later
<1>7. Watched(w)' = Watched(w) /\ (Running(w)' <=> Running(w)) /\ (Quiet(w)' <=> Quiet(w))
  BY DEF Still, Watched, Running, Quiet
<1>8. pc[w] \in Busy => Running(w) /\ (Hand(w)' = Hand(w))
  BY <1>5 DEF Busy, Running, Hand, Still, Knows, InHand
<1>10. OnQueue(w)'
  BY <1>1, <1>2, <1>7 DEF Still, Knows, OnQueue
<1>11. InHand(w)'
  BY <1>5, <1>7, <1>8 DEF Still, Knows, InHand, Busy
<1>12. NoStands(w)'
  BY <1>6, <1>7, <1>8 DEF Still, Knows, NoStands, Busy
<1>13. Remembers(w)'
  BY <1>6, <1>7 DEF Still, Knows, Remembers
<1> QED
  BY <1>10, <1>11, <1>12, <1>13 DEF Knows

\* Only one monitor acts at a time.
LEMMA OthersStill ==
  ASSUME TypeOK, NEW w \in Monitor, MonitorStep(w) \/ Crash(w) \/ Restart(w) \/ \E a \in Approval : OpenWindow(w, a)
  PROVE  \A v \in Monitor \ {w} : Still(v)
<1> USE DEF TypeOK, Still
<1>1. CASE RejectRaises(w) \/ AnswerRaises(w) \/ Crash(w)
  BY <1>1 DEF RejectRaises, AnswerRaises, Crash, Dies, Goto
<1>2. CASE ReturnRejected(w) \/ ReturnResponded(w) \/ ReturnTimedOut(w)
  BY <1>2 DEF ReturnRejected, ReturnResponded, ReturnTimedOut, EndMonitor, Goto
<1>3. CASE Restart(w)
  BY <1>3 DEF Restart, Resume, ResumeNothing, Goto
<1>4. CASE \E a \in Approval : OpenWindow(w, a)
  BY <1>4 DEF OpenWindow, Goto
<1>5. CASE Poll(w) \/ EndOfThread(w) \/ RejectRow(w) \/ ResolveRejected(w) \/ Answer(w) \/ Mark(w) \/ KeepPolling(w)
  BY <1>5 DEF Poll, EndOfThread, RejectRow, ResolveRejected, Answer, Mark, KeepPolling, Goto
<1>6. CASE Claim(w)
  BY <1>6 DEF Claim, Goto
<1> QED
  BY <1>1, <1>2, <1>3, <1>4, <1>5, <1>6 DEF MonitorStep

\* The monitor that acts.
LEMMA ActorKnows ==
  ASSUME IInv, TypeOK', Onward, NEW w \in Monitor,
         MonitorStep(w) \/ Crash(w) \/ Restart(w) \/ \E a \in Approval : OpenWindow(w, a)
  PROVE  Knows(w)'
<1>0. TypeOK /\ Knows(w)
  BY DEF IInv, Knowing
<1>q. /\ \A k \in 1 .. Len(queue[w]) : window'[queue[w][k]] # "none"
      /\ fetched[w] <= Len(chat')
  BY <1>0, QueueOnward
<1>n. Len(chat) \in Nat /\ Len(chat') \in Nat /\ Len(queue[w]) \in Nat /\ at[w] \in Nat /\ fetched[w] \in Nat
  BY <1>0, LenProperties, BoundsAssumption DEF TypeOK
<1>1. CASE RejectRaises(w) \/ AnswerRaises(w) \/ Crash(w)
  <2>1. pc'[w] = "down" /\ queue'[w] = <<>> /\ fetched'[w] = 0 /\ seen'[w] = {}
    BY <1>0, <1>1 DEF RejectRaises, AnswerRaises, Crash, Dies, Goto, TypeOK
  <2>2. Len(queue'[w]) = 0
    BY <2>1
  <2> QED
    BY <1>n, <2>1, <2>2 DEF Knows, OnQueue, InHand, NoStands, Remembers, Running, Busy, Quiet
<1>2. CASE ReturnRejected(w) \/ ReturnResponded(w) \/ ReturnTimedOut(w)
  <2>1. Running(w) /\ EndMonitor(w)
    BY <1>2 DEF ReturnRejected, ReturnResponded, ReturnTimedOut, Running
  <2>2. /\ queue'[w] = Tail(queue[w]) /\ fetched'[w] = 0 /\ seen'[w] = {}
        /\ pc'[w] = IF Len(queue[w]) > 1 THEN "poll" ELSE "idle"
    BY <1>0, <2>1 DEF EndMonitor, Goto, TypeOK
  <2>3. /\ Len(queue'[w]) = Len(queue[w]) - 1
        /\ \A k \in 1 .. Len(queue'[w]) : queue'[w][k] = queue[w][k + 1]
    BY <1>0, <2>1, <2>2, WatchedType
  <2>4. \A k \in 1 .. Len(queue'[w]) : window'[queue'[w][k]] # "none"
    BY <1>n, <1>q, <2>3, SMTT(30)
  <2>5. Running(w)' => Len(queue'[w]) >= 1
    BY <1>n, <2>2, <2>3 DEF Running
  <2> QED
    BY <1>n, <2>2, <2>4, <2>5 DEF Knows, OnQueue, InHand, NoStands, Remembers, Busy, Quiet
<1>3. ASSUME NEW a \in Approval, OpenWindow(w, a) PROVE Knows(w)'
  <2>1. pc'[w] = "poll" /\ queue'[w] = <<a>> /\ window'[a] = "open" /\ seen'[w] = seen[w] /\ fetched'[w] = fetched[w]
    BY <1>0, <1>3 DEF OpenWindow, Goto, TypeOK
  <2>2. Len(queue'[w]) = 1 /\ queue'[w][1] = a
    BY <2>1
  <2>3. Quiet(w)
    BY <1>0, <1>3 DEF OpenWindow, Knows, Remembers
  <2> QED
    BY <1>q, <2>1, <2>2, <2>3 DEF Knows, OnQueue, InHand, NoStands, Remembers, Busy, Quiet
<1>4. CASE ResumeNothing(w)
  <2>1. pc'[w] = "idle" /\ queue'[w] = queue[w] /\ seen'[w] = seen[w] /\ fetched'[w] = fetched[w] /\ Quiet(w)
    BY <1>0, <1>4 DEF ResumeNothing, Goto, TypeOK, Knows, Remembers
  <2> QED
    BY <1>q, <2>1 DEF Knows, OnQueue, InHand, NoStands, Remembers, Running, Busy, Quiet
<1>5. ASSUME NEW order \in SetToSeqs(Resumable), Resume(w, order) PROVE Knows(w)'
  <2>1. /\ pc'[w] = "poll" /\ queue'[w] = order /\ seen'[w] = seen[w] /\ fetched'[w] = fetched[w] /\ Quiet(w)
        /\ window' = window /\ order # <<>>
    BY <1>0, <1>5 DEF Resume, Goto, TypeOK, Knows, Remembers, slack
  <2>2. order \in Seq(Approval) /\ \A k \in 1 .. Len(order) : window[order[k]] # "none"
    BY <1>0, OrderType
  <2>3. Len(order) >= 1
    BY <2>1, <2>2, EmptySeq
  <2> QED
    BY <1>q, <2>1, <2>2, <2>3 DEF Knows, OnQueue, InHand, NoStands, Remembers, Busy, Quiet
<1> DEFINE Same == queue'[w] = queue[w] /\ fetched'[w] = fetched[w]
<1>6. ASSUME Same, Running(w), pc'[w] \notin Busy, \/ pc'[w] = "next" /\ "reject" \notin seen'[w]
                                                   \/ pc'[w] = "decide" /\ seen'[w] = seen[w]
                                                   \/ pc'[w] = "poll" /\ Quiet(w) /\ seen'[w] = seen[w]
      PROVE  Knows(w)'
  <2>1. Watched(w)' = Watched(w) /\ Watched(w) \in Approval /\ Len(queue[w]) >= 1
    BY <1>0, <1>6, WatchedType DEF Watched, Knows, OnQueue
  <2>2. window[Watched(w)] # "none" /\ (window[Watched(w)] # "open" => window'[Watched(w)] # "open")
    BY <1>0, <1>6, <2>1, WatchedType DEF Onward
  <2>3. Remembers(w)'
    BY <1>0, <1>6, <2>1, <2>2 DEF Knows, Remembers, Running, Quiet
  <2>4. OnQueue(w)' /\ InHand(w)' /\ NoStands(w)'
    BY <1>6, <1>q, <2>1 DEF OnQueue, InHand, NoStands, Busy
  <2> QED
    BY <2>3, <2>4 DEF Knows
<1>7. CASE Poll(w)
  <2>1. /\ pc'[w] = "next" /\ queue'[w] = queue[w] /\ fetched'[w] = Len(chat) /\ seen'[w] = {} /\ chat' = chat
        /\ Len(queue[w]) >= 1
    BY <1>0, <1>7 DEF Poll, Goto, TypeOK, slack, Knows, OnQueue, Running
  <2> QED
    BY <1>n, <1>q, <2>1 DEF Knows, OnQueue, InHand, NoStands, Remembers, Busy
<1>8. CASE EndOfThread(w) \/ KeepPolling(w)
  <2>1. /\ Running(w) /\ Same /\ seen'[w] = seen[w]
        /\ pc'[w] = "decide" \/ (pc'[w] = "poll" /\ Quiet(w))
    BY <1>0, <1>8 DEF EndOfThread, KeepPolling, Goto, TypeOK, Running
  <2> QED
    BY <1>6, <2>1 DEF Busy
\* The steps with a reply in hand.
<1>9. ASSUME Running(w), Same, seen'[w] = seen[w], pc'[w] \in Busy \cup {"next"},
             InHand(w)', NoStands(w)'
      PROVE  Knows(w)'
  <2>1. Watched(w)' = Watched(w) /\ Watched(w) \in Approval /\ Len(queue[w]) >= 1
    BY <1>0, <1>9, WatchedType DEF Watched, Knows, OnQueue
  <2>2. window[Watched(w)] # "none" /\ (window[Watched(w)] # "open" => window'[Watched(w)] # "open")
    BY <1>0, <1>9, <2>1, WatchedType DEF Onward
  <2>3. Remembers(w)'
    BY <1>0, <1>9, <2>1, <2>2 DEF Knows, Remembers, Busy
  <2>4. OnQueue(w)'
    BY <1>9, <1>q, <2>1 DEF OnQueue
  <2> QED
    BY <1>9, <2>3, <2>4 DEF Knows
<1>10. CASE Claim(w)
  <2>1. PICK i \in Ahead(w) :
          /\ at' = [at EXCEPT ![w] = i]
          /\ IF Claimable(i)
             THEN /\ claim' = [claim EXCEPT ![i] = "fresh"]
                  /\ Goto(w, IF chat[i].kind = "reject" THEN "reject" ELSE "answer")
             ELSE UNCHANGED <<claim, pc>>
    BY <1>10 DEF Claim, NextReply
  <2>2. i \in 1 .. Len(chat) /\ chat[i].thread = Watched(w)
    BY <1>0, <1>n, <2>1 DEF Ahead, Knows, OnQueue
  <2>3. /\ Running(w) /\ Same /\ seen'[w] = seen[w] /\ chat' = chat /\ Watched(w)' = Watched(w) /\ at'[w] = i
        /\ \/ pc'[w] = "reject" /\ chat[i].kind = "reject"
           \/ pc'[w] = "answer" /\ chat[i].kind # "reject"
           \/ pc'[w] = "next"
    BY <1>0, <1>10, <2>1 DEF Claim, Goto, TypeOK, Running, Watched
  <2>4. InHand(w)' /\ NoStands(w)'
    BY <2>2, <2>3 DEF InHand, NoStands, Hand, Busy
  <2> QED
    BY <1>9, <2>3, <2>4 DEF Busy
<1>11. CASE RejectRow(w) \/ ResolveRejected(w) \/ Answer(w)
  <2>1. /\ Running(w) /\ pc[w] \in Busy /\ Same /\ seen'[w] = seen[w] /\ chat' = chat /\ Watched(w)' = Watched(w)
        /\ at'[w] = at[w] /\ Hand(w)' = Hand(w)
        /\ \/ pc[w] = "reject" /\ pc'[w] = "resolve" /\ RejectRow(w)
           \/ pc[w] = "resolve" /\ pc'[w] = "answer" /\ ResolveRejected(w)
           \/ pc[w] = "answer" /\ pc'[w] = "mark" /\ Answer(w)
    BY <1>0, <1>11 DEF RejectRow, ResolveRejected, Answer, Goto, TypeOK, Running, Watched, Hand, Busy, slack
  <2>2. Watched(w) \in Approval
    BY <1>0, <2>1, WatchedType
  <2>3. CASE RejectRow(w)
    <3>1. status'[Watched(w)] = "rejected"
      BY <1>0, <2>2, <2>3, RejectType DEF RejectRow, TypeOK
    <3>2. InHand(w)' /\ NoStands(w)'
      BY <1>0, <2>1, <2>3, <3>1 DEF RejectRow, InHand, NoStands, Busy, Knows
    <3> QED
      BY <1>9, <2>1, <3>2 DEF Busy
  <2>4. CASE ResolveRejected(w)
    <3>1. window'[Watched(w)] # "open" /\ status' = status
      BY <1>0, <2>2, <2>4 DEF ResolveRejected, Resolved, TypeOK, ledger
    <3>2. InHand(w)' /\ NoStands(w)'
      BY <1>0, <2>1, <2>4, <3>1 DEF ResolveRejected, InHand, NoStands, Busy, Knows
    <3> QED
      BY <1>9, <2>1, <3>2 DEF Busy
  <2>5. CASE Answer(w)
    <3>1. window' = window /\ status' = status
      BY <2>5 DEF Answer, slack, ledger
    <3>2. InHand(w)' /\ NoStands(w)'
      BY <1>0, <2>1, <2>5, <3>1 DEF Answer, InHand, NoStands, Busy, Knows
    <3> QED
      BY <1>9, <2>1, <3>2 DEF Busy
  <2> QED
    BY <1>11, <2>3, <2>4, <2>5
<1>12. CASE Mark(w)
  <2>1. /\ Running(w) /\ pc'[w] = "next" /\ Same /\ window' = window /\ chat' = chat /\ Watched(w)' = Watched(w)
        /\ seen'[w] = seen[w] \cup {Hand(w).kind} /\ pc[w] = "mark"
    BY <1>0, <1>12 DEF Mark, Goto, TypeOK, Running, Watched, Hand
  <2>2. "reject" \in seen'[w] => window[Watched(w)] # "open"
    BY <1>0, <2>1 DEF Knows, NoStands, Remembers
  <2>3. Len(queue[w]) >= 1
    BY <1>0, <2>1 DEF Knows, OnQueue
  <2> QED
    BY <1>q, <2>1, <2>2, <2>3 DEF Knows, OnQueue, InHand, NoStands, Remembers, Busy
<1> HIDE DEF Same
<1> QED
  BY <1>1, <1>2, <1>3, <1>4, <1>5, <1>7, <1>8, <1>10, <1>11, <1>12 DEF MonitorStep, Restart

LEMMA EnvironmentStill ==
  ASSUME \/ \E a \in Approval : WindowLapses(a) \/ RowMoves(a) \/ CloseExecuted(a) \/ \E kind \in Kind : Post(a, kind)
         \/ \E i \in Reply : ClaimAges(i) \/ OperatorClaims(i) \/ OperatorMarks(i)
         \/ OperatorExpires \/ OperatorCleans \/ UNCHANGED vars
  PROVE  \A v \in Monitor : Still(v)
BY DEF WindowLapses, RowMoves, CloseExecuted, Post, ClaimAges, OperatorClaims, OperatorMarks, OperatorExpires, OperatorCleans,
       vars, monitor, Still

LEMMA KnowingStep == IInv /\ [Next]_vars => Knowing'
<1> SUFFICES ASSUME IInv, [Next]_vars, NEW v \in Monitor PROVE Knows(v)'
  BY DEF Knowing
<1>0. TypeOK /\ Knows(v) /\ TypeOK' /\ Onward
  BY TypeStep, StepOnward DEF IInv, Knowing
<1>1. ASSUME NEW w \in Monitor, MonitorStep(w) \/ Crash(w) \/ Restart(w) \/ \E a \in Approval : OpenWindow(w, a)
      PROVE  Knows(v)'
  <2>1. CASE v = w
    BY <1>0, <1>1, <2>1, ActorKnows
  <2>2. CASE v # w
    BY <1>0, <1>1, <2>2, OthersStill, StillKnows
  <2> QED
    BY <2>1, <2>2
<1>2. CASE \/ \E a \in Approval : WindowLapses(a) \/ RowMoves(a) \/ CloseExecuted(a) \/ \E kind \in Kind : Post(a, kind)
           \/ \E i \in Reply : ClaimAges(i) \/ OperatorClaims(i) \/ OperatorMarks(i)
           \/ OperatorExpires \/ OperatorCleans \/ UNCHANGED vars
  BY <1>0, <1>2, EnvironmentStill, StillKnows
<1> QED
  BY <1>1, <1>2 DEF Next

-----------------------------------------------------------------------------
\* Threads, windows and the answered NO.

\* A window appears only for a row that is in the table.
LEMMA WindowsAppear ==
  ASSUME IInv, [Next]_vars, NEW a \in Approval, window[a] = "none", window'[a] # "none"
  PROVE  status'[a] # "absent"
<1>0. TypeOK /\ (\A w \in Monitor : Knows(w)) /\ Onward
  BY StepOnward DEF IInv, Knowing
<1>1. ASSUME NEW b, NEW v PROVE Resolved(window, b, v)[a] = "none" /\ Cleaned(Resolved(window, b, v))[a] = "none"
  BY <1>0 DEF Resolved, Cleaned, TypeOK
<1>2. Cleaned(window)[a] = "none" /\ RejectedWindows[a] = "none" /\ Cleaned(RejectedWindows)[a] = "none"
  BY <1>0 DEF Cleaned, RejectedWindows, Expired, TypeOK
<1>3. ASSUME NEW w \in Monitor, NEW b \in Approval, OpenWindow(w, b) PROVE status'[a] # "absent"
  BY <1>0, <1>3 DEF OpenWindow, TypeOK, ledger
<1>4. ASSUME NEW w \in Monitor, MonitorStep(w) \/ Crash(w) \/ Restart(w) PROVE FALSE
  BY <1>1, <1>2, <1>4 DEF MonitorStep, Crash, Restart, Resume, ResumeNothing, Dies, Poll, Claim, EndOfThread, RejectRow,
       RejectRaises, ResolveRejected, Answer, AnswerRaises, Mark, ReturnRejected, ReturnResponded, ReturnTimedOut, RejectExpired,
       KeepPolling, slack
<1>5. ASSUME NEW b \in Approval, WindowLapses(b) \/ RowMoves(b) \/ CloseExecuted(b) \/ \E kind \in Kind : Post(b, kind) PROVE FALSE
  BY <1>1, <1>5 DEF WindowLapses, RowMoves, CloseExecuted, Post, slack
<1>6. CASE \/ \E i \in Reply : ClaimAges(i) \/ OperatorClaims(i) \/ OperatorMarks(i)
          \/ OperatorExpires \/ OperatorCleans \/ UNCHANGED vars
  BY <1>2, <1>6 DEF ClaimAges, OperatorClaims, OperatorMarks, OperatorExpires, RejectExpired, OperatorCleans, vars, slack
<1> QED
  BY <1>3, <1>4, <1>5, <1>6 DEF Next

LEMMA ThreadsStep == IInv /\ [Next]_vars => Threads'
<1> SUFFICES ASSUME IInv, [Next]_vars PROVE Threads'
  OBVIOUS
<1>0. TypeOK /\ TypeOK' /\ Threads /\ (\A w \in Monitor : Knows(w)) /\ Onward
  BY TypeStep, StepOnward DEF IInv, Knowing
<1>n. Len(chat) \in Nat /\ Len(chat') \in Nat
  BY <1>0, LenProperties DEF TypeOK
<1>1. \A a \in Approval : window'[a] # "none" => status'[a] # "absent"
  BY <1>0, WindowsAppear DEF Threads, Onward, Later
<1>t. \A i \in 1 .. Len(chat) : chat[i].thread \in Approval
  <2> SUFFICES ASSUME NEW i \in 1 .. Len(chat) PROVE chat[i].thread \in Approval
    OBVIOUS
  <2>1. chat[i] \in [thread : Approval, kind : Kind]
    BY <1>0, ElementOfSeq DEF TypeOK
  <2> QED
    BY <2>1
<1>2. ASSUME NEW a \in Approval, NEW kind \in Kind, Post(a, kind) PROVE Threads'
  <2>1. chat' = Append(chat, [thread |-> a, kind |-> kind]) /\ chat \in Seq([thread : Approval, kind : Kind])
        /\ window' = window /\ claim' = claim /\ answers' = answers /\ Len(chat) < MaxReplies /\ window[a] # "none"
    BY <1>0, <1>2 DEF Post, TypeOK, history
  <2>2. Len(chat') = Len(chat) + 1 /\ chat'[Len(chat) + 1].thread = a /\ \A i \in 1 .. Len(chat) : chat'[i] = chat[i]
    BY <2>1
  <2>3. \A i \in 1 .. Len(chat') : window'[chat'[i].thread] # "none"
    BY <1>n, <1>0, <2>1, <2>2 DEF Threads
  <2>4. \A i \in Reply : claim'[i] # "none" \/ answers'[i] > 0 => i <= Len(chat')
    BY <1>n, <1>0, <2>1, <2>2 DEF Threads, Reply
  <2> QED
    BY <1>n, <1>1, <2>1, <2>2, <2>3, <2>4, BoundsAssumption DEF Threads
<1>3. ASSUME chat' = chat, \A i \in Reply : claim'[i] # "none" \/ answers'[i] > 0 => i <= Len(chat) PROVE Threads'
  <2>1. \A i \in 1 .. Len(chat) : window'[chat[i].thread] # "none"
    BY <1>0, <1>t DEF Threads, Onward
  <2> QED
    BY <1>0, <1>1, <1>3, <2>1 DEF Threads
<1>4. ASSUME chat' = chat, claim' = claim, answers' = answers PROVE Threads'
  BY <1>0, <1>3, <1>4 DEF Threads
<1>5. ASSUME NEW w \in Monitor, Claim(w) PROVE Threads'
  <2>1. PICK i \in Ahead(w) : claim' = claim \/ claim' = [claim EXCEPT ![i] = "fresh"]
    BY <1>5 DEF Claim, NextReply
  <2>2. i <= Len(chat)
    BY <1>0, <1>n, <2>1, BoundsAssumption DEF Ahead, Knows, OnQueue, TypeOK
  <2> QED
    BY <1>0, <1>3, <1>5, <2>1, <2>2 DEF Threads, Claim, history, TypeOK
<1>6. ASSUME NEW w \in Monitor, Answer(w) \/ Mark(w) PROVE Threads'
  <2>1. at[w] \in 1 .. Len(chat)
    BY <1>0, <1>6 DEF Answer, Mark, Knows, InHand, Busy
  <2>2. at[w] <= Len(chat)
    BY <1>n, <2>1
  <2>3. /\ chat' = chat
        /\ \/ claim' = claim /\ answers' = [answers EXCEPT ![at[w]] = @ + 1]
           \/ answers' = answers /\ claim' = [claim EXCEPT ![at[w]] = "acknowledged"]
    BY <1>6 DEF Answer, Mark, history, slack
  <2> QED
    BY <1>0, <1>3, <2>2, <2>3 DEF Threads, TypeOK
<1>7. ASSUME NEW i \in Reply, ClaimAges(i) \/ OperatorClaims(i) \/ OperatorMarks(i) PROVE Threads'
  <2>1. chat' = chat /\ answers' = answers /\ i <= Len(chat) /\ \A j \in Reply \ {i} : claim'[j] = claim[j]
    BY <1>0, <1>7 DEF Threads, ClaimAges, OperatorClaims, OperatorMarks, TypeOK, history
  <2> QED
    BY <1>0, <1>3, <2>1 DEF Threads
<1>8. ASSUME NEW w \in Monitor, \/ MonitorStep(w) /\ ~Claim(w) /\ ~Answer(w) /\ ~Mark(w)
                               \/ Crash(w) \/ Restart(w) \/ \E a \in Approval : OpenWindow(w, a)
      PROVE  Threads'
  <2>1. chat' = chat /\ claim' = claim /\ answers' = answers
    BY <1>8 DEF MonitorStep, Crash, Restart, OpenWindow, Resume, ResumeNothing, Dies, Poll, EndOfThread, RejectRow,
       RejectRaises, ResolveRejected, AnswerRaises, ReturnRejected, ReturnResponded, ReturnTimedOut, KeepPolling, slack, history
  <2> QED
    BY <1>4, <2>1
<1>9. CASE (\E a \in Approval : WindowLapses(a) \/ RowMoves(a) \/ CloseExecuted(a)) \/ OperatorExpires \/ OperatorCleans \/ UNCHANGED vars
  <2>1. chat' = chat /\ claim' = claim /\ answers' = answers
    BY <1>9 DEF WindowLapses, RowMoves, CloseExecuted, OperatorExpires, OperatorCleans, vars, slack, history
  <2> QED
    BY <1>4, <2>1
<1> QED
  BY <1>2, <1>5, <1>6, <1>7, <1>8, <1>9 DEF Next

LEMMA ChatType ==
  ASSUME TypeOK, NEW i \in 1 .. Len(chat)
  PROVE  chat[i].thread \in Approval /\ chat[i].kind \in Kind
<1>1. chat[i] \in [thread : Approval, kind : Kind]
  BY ElementOfSeq DEF TypeOK
<1> QED
  BY <1>1

LEMMA NoStandsStep == IInv /\ [Next]_vars => AnsweredNoStands'
<1> SUFFICES ASSUME IInv, [Next]_vars,
                    NEW i \in 1 .. Len(chat'), answers'[i] > 0, chat'[i].kind = "reject"
             PROVE  status'[chat'[i].thread] = "rejected"
  BY DEF AnsweredNoStands
<1>0. TypeOK /\ TypeOK' /\ Threads /\ Threads' /\ (\A w \in Monitor : Knows(w)) /\ Onward /\ AnsweredNoStands
  BY TypeStep, ThreadsStep, StepOnward DEF IInv, Knowing
<1>n. Len(chat) \in Nat /\ Len(chat') \in Nat /\ i \in Reply
  BY <1>0, LenProperties, BoundsAssumption DEF TypeOK, Threads, Reply
<1>1. ASSUME answers[i] > 0 PROVE status'[chat'[i].thread] = "rejected"
  <2>1. i \in 1 .. Len(chat) /\ chat'[i] = chat[i]
    BY <1>0, <1>1, <1>n DEF Threads, Onward
  <2>2. chat[i].thread \in Approval /\ status[chat[i].thread] = "rejected"
    BY <1>0, <1>1, <2>1, ChatType DEF AnsweredNoStands
  <2> QED
    BY <1>0, <2>1, <2>2 DEF Onward, Later
<1>2. ASSUME NEW w \in Monitor, Answer(w) PROVE status'[chat'[i].thread] = "rejected"
  <2>1. /\ pc[w] = "answer" /\ answers' = [answers EXCEPT ![at[w]] = @ + 1] /\ chat' = chat /\ status' = status
    BY <1>2 DEF Answer, slack, ledger
  <2>2. Hand(w).kind = "reject" => status[Hand(w).thread] = "rejected"
    BY <1>0, <2>1 DEF Knows, InHand, NoStands, Busy
  <2>3. CASE at[w] = i
    BY <2>1, <2>2, <2>3 DEF Hand
  <2>4. CASE at[w] # i
    BY <1>0, <1>1, <2>1, <2>4, SMTT(30) DEF TypeOK
  <2> QED
    BY <2>3, <2>4
<1>3. ASSUME ~\E w \in Monitor : Answer(w) PROVE answers' = answers
  BY <1>3 DEF Next, MonitorStep, Crash, Restart, OpenWindow, Resume, ResumeNothing, Dies, Poll, Claim, EndOfThread, RejectRow,
     RejectRaises, ResolveRejected, AnswerRaises, Mark, ReturnRejected, ReturnResponded, ReturnTimedOut, KeepPolling, slack, history,
     WindowLapses, RowMoves, CloseExecuted, Post, ClaimAges, OperatorClaims, OperatorMarks, OperatorExpires, OperatorCleans, vars
<1> QED
  BY <1>0, <1>1, <1>2, <1>3

\* A transaction that closes a window for good finds its row spent, or spends it.
LEMMA ClosedStep == IInv /\ [Next]_vars => ClosedWindowsCarryNoAuthority'
<1> DEFINE Closed == {"rejected", "executed", "gone"}
           Spent == Status \ {"absent", "pending", "approved"}
<1> SUFFICES ASSUME IInv, [Next]_vars, NEW a \in Approval, window'[a] \in Closed
             PROVE  status'[a] \notin {"pending", "approved"}
  BY DEF ClosedWindowsCarryNoAuthority
<1>0. TypeOK /\ TypeOK' /\ Threads /\ (\A w \in Monitor : Knows(w)) /\ Onward /\ ClosedWindowsCarryNoAuthority
  BY TypeStep, StepOnward DEF IInv, Knowing
<1>1. ASSUME window[a] \in Closed PROVE status'[a] \notin {"pending", "approved"}
  BY <1>0, <1>1 DEF Threads, ClosedWindowsCarryNoAuthority, Onward, Later
<1>2. ASSUME NEW b \in Approval, NEW v, Resolved(window, b, v)[a] \in Closed, window[a] \notin Closed PROVE a = b /\ v \in Closed
  BY <1>0, <1>2 DEF Resolved, TypeOK
<1>3. ASSUME NEW win, Cleaned(win)[a] \in Closed PROVE win[a] \in Closed
  BY <1>3 DEF Cleaned
<1>4. ASSUME RejectedWindows[a] \in Closed, window[a] \notin Closed PROVE a \in Expired
  BY <1>4 DEF RejectedWindows
<1>5. ASSUME NEW w \in Monitor, ResolveRejected(w) PROVE status'[a] \notin {"pending", "approved"}
  <2>1. status[Watched(w)] = "rejected" /\ status' = status /\ Watched(w) \in Approval
    BY <1>0, <1>5, WatchedType DEF ResolveRejected, Knows, NoStands, Running, ledger
  <2> QED
    BY <1>1, <1>2, <1>5, <2>1 DEF ResolveRejected
<1>6. ASSUME NEW w \in Monitor, ReturnRejected(w) \/ ReturnResponded(w) PROVE status'[a] \notin {"pending", "approved"}
  <2>1. Watched(w) \in Approval
    BY <1>0, <1>6, WatchedType DEF ReturnRejected, ReturnResponded, Running
  <2> QED
    BY <1>1, <1>2, <1>3, <1>6, <2>1 DEF ReturnRejected, ReturnResponded
<1>7. ASSUME (\E w \in Monitor : ReturnTimedOut(w)) \/ OperatorExpires PROVE status'[a] \notin {"pending", "approved"}
  <2>1. a \in Expired \/ window[a] \in Closed
    BY <1>3, <1>4, <1>7 DEF ReturnTimedOut, OperatorExpires, RejectExpired
  <2>2. status' = [b \in Approval |-> IF b \in Expired /\ CanReject(b) THEN "rejected" ELSE status[b]]
    BY <1>7 DEF ReturnTimedOut, OperatorExpires, RejectExpired
  <2> QED
    BY <1>1, <2>1, <2>2 DEF CanReject
<1>8. ASSUME NEW b \in Approval, CloseExecuted(b) PROVE status'[a] \notin {"pending", "approved"}
  BY <1>1, <1>2, <1>3, <1>8 DEF CloseExecuted, ledger
<1>9. CASE OperatorCleans
  BY <1>1, <1>3, <1>9 DEF OperatorCleans
<1>10. ASSUME NEW w \in Monitor, NEW b \in Approval, OpenWindow(w, b) PROVE status'[a] \notin {"pending", "approved"}
  BY <1>0, <1>1, <1>10 DEF OpenWindow, TypeOK
<1>11. CASE window' = window
  BY <1>1, <1>11
<1>12. \/ window' = window
       \/ \E w \in Monitor : ResolveRejected(w) \/ ReturnRejected(w) \/ ReturnResponded(w) \/ ReturnTimedOut(w)
       \/ OperatorExpires \/ OperatorCleans
       \/ \E b \in Approval : CloseExecuted(b) \/ \E w \in Monitor : OpenWindow(w, b)
  BY DEF Next, MonitorStep, Crash, Restart, Resume, ResumeNothing, Dies, Poll, Claim, EndOfThread, RejectRow,
     RejectRaises, Answer, AnswerRaises, Mark, KeepPolling, slack, WindowLapses, RowMoves, Post, ClaimAges, OperatorClaims, OperatorMarks, vars
<1> QED
  BY <1>5, <1>6, <1>7, <1>8, <1>9, <1>10, <1>11, <1>12

-----------------------------------------------------------------------------
\* Amounts.

Reporting(w, a) == Running(w) /\ Watched(w) = a /\ "size" \in seen[w]

\* A monitor that knows an amount for an open window keeps it, or dies knowing it.
LEMMA ReporterKeeps ==
  ASSUME IInv, TypeOK', NEW w \in Monitor, NEW a \in Approval, Reporting(w, a), window'[a] = "open",
         MonitorStep(w) \/ Crash(w) \/ Restart(w) \/ \E b \in Approval : OpenWindow(w, b)
  PROVE  a \in lost' \/ Reporting(w, a)'
<1>0. TypeOK /\ Knows(w)
  BY DEF IInv, Knowing
<1> USE DEF Reporting
<1>1. CASE RejectRaises(w) \/ AnswerRaises(w) \/ Crash(w)
  BY <1>1 DEF RejectRaises, AnswerRaises, Crash, Dies
<1>2. CASE ReturnRejected(w)
  <2>1. window[a] # "open"
    BY <1>0, <1>2 DEF ReturnRejected, Knows, Remembers
  <2> QED
    BY <1>0, <1>2, <2>1 DEF ReturnRejected, Cleaned, TypeOK
<1>3. CASE ReturnResponded(w)
  BY <1>0, <1>3 DEF ReturnResponded, Resolved, TypeOK
<1>4. CASE ReturnTimedOut(w) \/ KeepPolling(w) \/ Poll(w)
  BY <1>0, <1>4 DEF ReturnTimedOut, KeepPolling, Poll, Quiet, Knows, Remembers
<1>5. CASE Restart(w) \/ \E b \in Approval : OpenWindow(w, b)
  BY <1>5 DEF Restart, Resume, ResumeNothing, OpenWindow, Running
<1>6. CASE EndOfThread(w) \/ RejectRow(w) \/ ResolveRejected(w) \/ Answer(w) \/ Mark(w)
  <2>1. queue' = queue /\ pc'[w] \in Busy \cup {"next", "decide"} /\ seen[w] \subseteq seen'[w]
    BY <1>0, <1>6 DEF EndOfThread, RejectRow, ResolveRejected, Answer, Mark, Goto, TypeOK, Busy
  <2> QED
    BY <2>1 DEF Running, Watched, Busy
<1>7. CASE Claim(w)
  <2>1. queue' = queue /\ seen' = seen /\ pc'[w] \in Busy \cup {"next"}
    BY <1>0, <1>7 DEF Claim, Goto, TypeOK, Busy
  <2> QED
    BY <2>1 DEF Running, Watched, Busy
<1> QED
  BY <1>1, <1>2, <1>3, <1>4, <1>5, <1>6, <1>7 DEF MonitorStep

LEMMA AmountsStep == IInv /\ [Next]_vars => AmountsAreReported'
<1> SUFFICES ASSUME IInv, [Next]_vars, NEW i \in 1 .. Len(chat'), claim'[i] = "acknowledged", chat'[i].kind = "size",
                    NEW a, a = chat'[i].thread, window'[a] = "open"
             PROVE  i \in byHand' \/ a \in lost' \/ \E w \in Monitor : Reporting(w, a)'
  BY DEF AmountsAreReported, Reporting
<1>0. TypeOK /\ TypeOK' /\ Threads /\ Threads' /\ (\A w \in Monitor : Knows(w)) /\ Onward /\ AmountsAreReported
  BY TypeStep, ThreadsStep, StepOnward DEF IInv, Knowing
<1>n. Len(chat) \in Nat /\ Len(chat') \in Nat /\ i \in Reply
  BY <1>0, LenProperties, BoundsAssumption DEF TypeOK, Threads, Reply
\* It was acknowledged before.
<1>1. ASSUME claim[i] = "acknowledged" PROVE i \in byHand' \/ a \in lost' \/ \E w \in Monitor : Reporting(w, a)'
  <2>1. i \in 1 .. Len(chat) /\ chat'[i] = chat[i]
    BY <1>0, <1>1, <1>n DEF Threads, Onward
  <2>2. a \in Approval /\ window[a] = "open"
    BY <1>0, <2>1, ChatType DEF Threads, Onward
  <2>3. lost \subseteq lost' /\ byHand \subseteq byHand'
    BY DEF Next, MonitorStep, Crash, Restart, OpenWindow, Resume, ResumeNothing, Dies, Poll, Claim, EndOfThread, RejectRow,
       RejectRaises, ResolveRejected, Answer, AnswerRaises, Mark, ReturnRejected, ReturnResponded, ReturnTimedOut, KeepPolling,
       slack, history, WindowLapses, RowMoves, CloseExecuted, Post, ClaimAges, OperatorClaims, OperatorMarks,
       OperatorExpires, OperatorCleans, vars
  <2>4. CASE i \in byHand \/ a \in lost
    BY <2>3, <2>4
  <2>5. ASSUME NEW w \in Monitor, Reporting(w, a) PROVE a \in lost' \/ \E v \in Monitor : Reporting(v, a)'
    <3>1. CASE Still(w)
      <4>1. Reporting(w, a)'
        BY <2>5, <3>1 DEF Still, Reporting, Running, Watched
      <4> QED
        BY <4>1
    <3>2. CASE MonitorStep(w) \/ Crash(w) \/ Restart(w) \/ \E b \in Approval : OpenWindow(w, b)
      BY <1>0, <2>2, <2>5, <3>2, ReporterKeeps
    <3>3. Still(w) \/ MonitorStep(w) \/ Crash(w) \/ Restart(w) \/ \E b \in Approval : OpenWindow(w, b)
      BY <1>0, OthersStill, EnvironmentStill DEF Next
    <3> QED
      BY <3>1, <3>2, <3>3
  <2>6. i \in byHand \/ a \in lost \/ \E w \in Monitor : Reporting(w, a)
    BY <1>0, <1>1, <2>1, <2>2 DEF AmountsAreReported, Reporting
  <2> QED
    BY <2>4, <2>5, <2>6
\* It is acknowledged by this step.
<1>2. ASSUME NEW w \in Monitor, Mark(w), claim[i] # "acknowledged" PROVE \E v \in Monitor : Reporting(v, a)'
  <2>1. /\ pc[w] = "mark" /\ claim' = [claim EXCEPT ![at[w]] = "acknowledged"] /\ chat' = chat /\ queue' = queue
        /\ seen'[w] = seen[w] \cup {Hand(w).kind} /\ pc'[w] = "next"
    BY <1>0, <1>2 DEF Mark, Goto, TypeOK, Hand
  <2>2. at[w] = i
    BY <1>0, <1>2, <1>n, <2>1 DEF TypeOK
  <2>3. Watched(w) = a /\ Hand(w).kind = "size"
    BY <1>0, <2>1, <2>2 DEF Knows, InHand, Hand, Busy
  <2>4. Reporting(w, a)'
    BY <2>1, <2>3 DEF Reporting, Running, Watched
  <2> QED
    BY <2>4
\* Or by the operator.
<1>4. ASSUME NEW j \in Reply, OperatorMarks(j), claim[i] # "acknowledged" PROVE i \in byHand'
  BY <1>0, <1>4, <1>n DEF OperatorMarks, TypeOK
<1>3. ASSUME claim[i] # "acknowledged" PROVE (\E w \in Monitor : Mark(w)) \/ (\E j \in Reply : OperatorMarks(j))
  <2>1. ASSUME NEW w \in Monitor, Claim(w) PROVE FALSE
    BY <1>0, <1>3, <1>n, <2>1 DEF Claim, TypeOK
  <2>2. ASSUME NEW j \in Reply, ClaimAges(j) \/ OperatorClaims(j) PROVE FALSE
    BY <1>0, <1>3, <1>n, <2>2 DEF ClaimAges, OperatorClaims, TypeOK
  <2>3. \/ claim' = claim
        \/ \E w \in Monitor : Claim(w) \/ Mark(w)
        \/ \E j \in Reply : ClaimAges(j) \/ OperatorClaims(j) \/ OperatorMarks(j)
    BY DEF Next, MonitorStep, Crash, Restart, OpenWindow, Resume, ResumeNothing, Dies, Poll, EndOfThread, RejectRow,
       RejectRaises, ResolveRejected, Answer, AnswerRaises, ReturnRejected, ReturnResponded, ReturnTimedOut, KeepPolling,
       slack, WindowLapses, RowMoves, CloseExecuted, Post, OperatorExpires, OperatorCleans, vars
  <2> QED
    BY <1>3, <2>1, <2>2, <2>3
<1> QED
  BY <1>1, <1>2, <1>3, <1>4

-----------------------------------------------------------------------------
\* Claims.

Answering == {"reject", "resolve", "answer"}

LEMMA OwingFinite ==
  ASSUME NEW i
  PROVE  IsFiniteSet(Owing(i)) /\ Cardinality(Owing(i)) \in Nat
BY FiniteAssumption, FS_Subset, FS_CardinalityType DEF Owing

LEMMA OwingFiniteNext ==
  ASSUME NEW i
  PROVE  IsFiniteSet(Owing(i)') /\ Cardinality(Owing(i)') \in Nat
BY FiniteAssumption, FS_Subset, FS_CardinalityType DEF Owing

LEMMA ClaimsType ==
  ASSUME TypeOK, NEW i \in Reply
  PROVE  Claims(i) \in Nat /\ aged[i] \in Nat /\ answers[i] \in Nat /\ claim[i] \in {"none", "fresh", "stale", "acknowledged"}
BY BoundsAssumption DEF TypeOK, Claims

\* Nobody takes the answer on, and no claim is taken back.
LEMMA OwingShrinks ==
  ASSUME TypeOK, TypeOK', NEW i \in Reply, answers[i] + Cardinality(Owing(i)) <= Claims(i),
         answers'[i] = answers[i], Owing(i)' \subseteq Owing(i), Claims(i) <= Claims(i)'
  PROVE  answers'[i] + Cardinality(Owing(i)') <= Claims(i)'
<1>1. Cardinality(Owing(i)') <= Cardinality(Owing(i)) /\ Cardinality(Owing(i)') \in Nat /\ Cardinality(Owing(i)) \in Nat
  BY OwingFinite, OwingFiniteNext, FS_Subset
<1>2. Claims(i) \in Nat /\ Claims(i)' \in Nat /\ answers[i] \in Nat
  BY ClaimsType, SMTT(30) DEF TypeOK, Claims
<1> QED
  BY <1>1, <1>2

\* Nobody else takes an answer on.
LEMMA OwingOthers ==
  ASSUME TypeOK, NEW w \in Monitor, NEW i, \A v \in Monitor \ {w} : Still(v)
  PROVE  Owing(i)' \subseteq Owing(i) \cup {w}
BY DEF Owing, Still

LEMMA ClaimsStep == IInv /\ [Next]_vars => AnswersAreClaimed'
<1> SUFFICES ASSUME IInv, [Next]_vars, NEW i \in Reply PROVE answers'[i] + Cardinality(Owing(i)') <= Claims(i)'
  BY DEF AnswersAreClaimed
<1>0. TypeOK /\ TypeOK' /\ Threads /\ (\A w \in Monitor : Knows(w)) /\ answers[i] + Cardinality(Owing(i)) <= Claims(i)
  BY TypeStep DEF IInv, Knowing, AnswersAreClaimed
<1>t. Claims(i) \in Nat /\ aged[i] \in Nat /\ answers[i] \in Nat /\ claim[i] \in {"none", "fresh", "stale", "acknowledged"}
  BY <1>0, ClaimsType
<1>f. /\ IsFiniteSet(Owing(i)) /\ Cardinality(Owing(i)) \in Nat
      /\ IsFiniteSet(Owing(i)') /\ Cardinality(Owing(i)') \in Nat
  BY OwingFinite, OwingFiniteNext
<1>1. ASSUME NEW w \in Monitor, Claim(w) PROVE answers'[i] + Cardinality(Owing(i)') <= Claims(i)'
  <2>1. PICK j \in Ahead(w) :
          /\ at' = [at EXCEPT ![w] = j]
          /\ IF Claimable(j)
             THEN /\ claim' = [claim EXCEPT ![j] = "fresh"]
                  /\ Goto(w, IF chat[j].kind = "reject" THEN "reject" ELSE "answer")
             ELSE UNCHANGED <<claim, pc>>
    BY <1>1 DEF Claim, NextReply
  <2>2. answers' = answers /\ aged' = aged /\ pc[w] = "next" /\ w \notin Owing(i)
    BY <1>1 DEF Claim, history, Owing
  <2>3. \A v \in Monitor \ {w} : Still(v)
    BY <1>0, <1>1, OthersStill DEF MonitorStep
  <2>4. Owing(i)' \subseteq Owing(i) \cup {w}
    BY <1>0, <2>3, OwingOthers
  <2>5. CASE j = i /\ Claimable(j)
    <3>1. claim'[i] = "fresh"
      BY <1>0, <2>1, <2>5 DEF TypeOK
    <3>2. Claims(i) + 1 <= Claims(i)' /\ Claims(i)' \in Nat
      BY <1>t, <2>2, <2>5, <3>1 DEF Claims, Claimable
    <3>3. IsFiniteSet(Owing(i) \cup {w}) /\ Cardinality(Owing(i) \cup {w}) = Cardinality(Owing(i)) + 1
      BY <1>f, <2>2, FS_AddElement
    <3>4. Cardinality(Owing(i)') <= Cardinality(Owing(i)) + 1
      BY <2>4, <3>3, FS_Subset
    <3> QED
      BY <1>0, <1>t, <1>f, <2>2, <3>2, <3>4
  <2>6. CASE ~(j = i /\ Claimable(j))
    <3>1. claim'[i] = claim[i]
      BY <1>0, <2>1, <2>6 DEF TypeOK
    <3>2. w \notin Owing(i)'
      BY <1>0, <2>1, <2>2, <2>6 DEF Owing, TypeOK
    <3>3. Owing(i)' \subseteq Owing(i) /\ Claims(i)' = Claims(i)
      BY <2>2, <2>4, <3>1, <3>2 DEF Claims
    <3> QED
      BY <1>0, <1>t, <2>2, <3>3, OwingShrinks
  <2> QED
    BY <2>5, <2>6
<1>2. ASSUME NEW w \in Monitor, Answer(w) PROVE answers'[i] + Cardinality(Owing(i)') <= Claims(i)'
  <2>1. pc[w] = "answer" /\ pc'[w] = "mark" /\ at' = at /\ claim' = claim /\ aged' = aged
        /\ answers' = [answers EXCEPT ![at[w]] = @ + 1]
    BY <1>0, <1>2 DEF Answer, Goto, TypeOK, slack
  <2>2. \A v \in Monitor \ {w} : Still(v)
    BY <1>0, <1>2, OthersStill DEF MonitorStep
  <2>3. Owing(i)' \subseteq Owing(i) \ {w} /\ Claims(i)' = Claims(i)
    BY <1>0, <2>1, <2>2, OwingOthers DEF Owing, Claims
  <2>4. CASE at[w] = i
    <3>1. w \in Owing(i)
      BY <2>1, <2>4 DEF Owing
    <3>2. IsFiniteSet(Owing(i) \ {w}) /\ Cardinality(Owing(i) \ {w}) = Cardinality(Owing(i)) - 1
      BY <1>f, <3>1, FS_RemoveElement
    <3>3. Cardinality(Owing(i)') <= Cardinality(Owing(i)) - 1
      BY <2>3, <3>2, FS_Subset
    <3>4. answers'[i] = answers[i] + 1
      BY <1>0, <2>1, <2>4 DEF TypeOK
    <3> QED
      BY <1>0, <1>t, <1>f, <2>3, <3>3, <3>4
  <2>5. CASE at[w] # i
    <3>1. answers'[i] = answers[i]
      BY <1>0, <2>1, <2>5 DEF TypeOK
    <3> QED
      BY <1>0, <1>t, <2>3, <3>1, OwingShrinks
  <2> QED
    BY <2>4, <2>5
<1>3. ASSUME answers' = answers, aged' = aged, claim' = claim, NEW w \in Monitor, \A v \in Monitor \ {w} : Still(v),
             w \in Owing(i)' => w \in Owing(i)
      PROVE  answers'[i] + Cardinality(Owing(i)') <= Claims(i)'
  <2>1. Owing(i)' \subseteq Owing(i) /\ Claims(i)' = Claims(i)
    BY <1>0, <1>3, OwingOthers DEF Claims
  <2> QED
    BY <1>0, <1>3, <1>t, <2>1, OwingShrinks
<1>4. ASSUME NEW w \in Monitor, RejectRow(w) \/ ResolveRejected(w)
      PROVE  answers'[i] + Cardinality(Owing(i)') <= Claims(i)'
  <2>1. answers' = answers /\ aged' = aged /\ claim' = claim /\ at' = at /\ pc[w] \in Answering
    BY <1>4 DEF RejectRow, ResolveRejected, history, slack, Answering
  <2>2. w \in Owing(i)' => w \in Owing(i)
    BY <2>1 DEF Owing, Answering
  <2>3. \A v \in Monitor \ {w} : Still(v)
    BY <1>0, <1>4, OthersStill DEF MonitorStep
  <2> QED
    BY <1>3, <2>1, <2>2, <2>3
<1>5. ASSUME NEW w \in Monitor, Mark(w) PROVE answers'[i] + Cardinality(Owing(i)') <= Claims(i)'
  <2>1. answers' = answers /\ aged' = aged /\ claim' = [claim EXCEPT ![at[w]] = "acknowledged"] /\ pc'[w] = "next"
    BY <1>0, <1>5 DEF Mark, Goto, TypeOK, history
  <2>2. \A v \in Monitor \ {w} : Still(v)
    BY <1>0, <1>5, OthersStill DEF MonitorStep
  <2>3. Owing(i)' \subseteq Owing(i)
    BY <1>0, <2>1, <2>2, OwingOthers DEF Owing
  <2>4. claim'[i] = claim[i] \/ claim'[i] = "acknowledged"
    BY <1>0, <2>1 DEF TypeOK
  <2>5. Claims(i) <= Claims(i)'
    BY <1>t, <2>1, <2>4 DEF Claims
  <2> QED
    BY <1>0, <2>1, <2>3, <2>5, OwingShrinks
<1>6. ASSUME NEW w \in Monitor,
             \/ MonitorStep(w) /\ ~Claim(w) /\ ~Answer(w) /\ ~Mark(w) /\ ~RejectRow(w) /\ ~ResolveRejected(w)
             \/ Crash(w) \/ Restart(w) \/ \E a \in Approval : OpenWindow(w, a)
      PROVE  answers'[i] + Cardinality(Owing(i)') <= Claims(i)'
  <2>1. answers' = answers /\ aged' = aged /\ claim' = claim
    BY <1>6 DEF MonitorStep, Crash, Restart, OpenWindow, Resume, ResumeNothing, Dies, Poll, EndOfThread, RejectRaises,
       AnswerRaises, ReturnRejected, ReturnResponded, ReturnTimedOut, KeepPolling, slack, history
  <2>2. pc'[w] \notin Answering
    <3>1. CASE RejectRaises(w) \/ AnswerRaises(w) \/ Crash(w)
      <4>1. Goto(w, "down")
        BY <3>1 DEF RejectRaises, AnswerRaises, Crash, Dies
      <4> QED
        BY <1>0, <4>1 DEF Goto, TypeOK, Answering
    <3>2. CASE ReturnRejected(w) \/ ReturnResponded(w) \/ ReturnTimedOut(w)
      <4>1. Goto(w, "poll") \/ Goto(w, "idle")
        BY <3>2 DEF ReturnRejected, ReturnResponded, ReturnTimedOut, EndMonitor
      <4> QED
        BY <1>0, <4>1 DEF Goto, TypeOK, Answering
    <3>3. CASE Poll(w) \/ EndOfThread(w) \/ KeepPolling(w)
      <4>1. Goto(w, "next") \/ Goto(w, "decide") \/ Goto(w, "poll")
        BY <3>3 DEF Poll, EndOfThread, KeepPolling
      <4> QED
        BY <1>0, <4>1 DEF Goto, TypeOK, Answering
    <3>4. CASE Restart(w) \/ \E a \in Approval : OpenWindow(w, a)
      <4>1. Goto(w, "poll") \/ Goto(w, "idle")
        BY <3>4 DEF Restart, Resume, ResumeNothing, OpenWindow
      <4> QED
        BY <1>0, <4>1 DEF Goto, TypeOK, Answering
    <3> QED
      BY <1>6, <3>1, <3>2, <3>3, <3>4 DEF MonitorStep
  <2>3. \A v \in Monitor \ {w} : Still(v)
    BY <1>0, <1>6, OthersStill
  <2>4. w \notin Owing(i)'
    BY <2>2 DEF Owing, Answering
  <2> QED
    BY <1>3, <2>1, <2>3, <2>4
<1>7. CASE \/ \E a \in Approval : WindowLapses(a) \/ RowMoves(a) \/ CloseExecuted(a) \/ \E kind \in Kind : Post(a, kind)
           \/ \E j \in Reply : ClaimAges(j) \/ OperatorClaims(j) \/ OperatorMarks(j)
           \/ OperatorExpires \/ OperatorCleans \/ UNCHANGED vars
  <2>1. Owing(i)' \subseteq Owing(i)
    BY <1>7, EnvironmentStill DEF Owing, Still
  <2>2. answers' = answers
    BY <1>7 DEF WindowLapses, RowMoves, CloseExecuted, Post, ClaimAges, OperatorClaims, OperatorMarks, OperatorExpires,
         OperatorCleans, vars, history
  <2>3. \/ claim' = claim /\ aged' = aged
        \/ \E j \in Reply : ClaimAges(j) \/ OperatorClaims(j) \/ OperatorMarks(j)
    BY <1>7 DEF WindowLapses, RowMoves, CloseExecuted, Post, OperatorExpires, OperatorCleans, vars, history, slack
  <2>4. ASSUME NEW j \in Reply, ClaimAges(j) PROVE Claims(i) <= Claims(i)'
    BY <1>0, <1>t, <2>4 DEF ClaimAges, Claims, TypeOK
  <2>6. ASSUME NEW j \in Reply, OperatorClaims(j) \/ OperatorMarks(j) PROVE Claims(i) <= Claims(i)'
    <3>1. aged' = aged /\ (claim'[i] = claim[i] \/ (claim[i] # "acknowledged" /\ claim'[i] \in {"fresh", "acknowledged"}))
      BY <1>0, <2>6 DEF OperatorClaims, OperatorMarks, Claimable, history, TypeOK
    <3> QED
      BY <1>t, <3>1 DEF Claims
  <2>5. Claims(i) <= Claims(i)'
    BY <1>t, <2>3, <2>4, <2>6 DEF Claims
  <2> QED
    BY <1>0, <2>1, <2>2, <2>5, OwingShrinks
<1> QED
  BY <1>1, <1>2, <1>4, <1>5, <1>6, <1>7 DEF Next

-----------------------------------------------------------------------------
\* The theorems.

LEMMA Start == Init => IInv
<1> SUFFICES ASSUME Init PROVE IInv
  OBVIOUS
<1> USE BoundsAssumption DEF Init
<1>1. TypeOK
  BY EmptySeq DEF TypeOK, Window, LedgerInit, LedgerTypeOK, Status
<1>2. Len(chat) = 0
  BY EmptySeq
<1>3. ASSUME NEW w \in Monitor PROVE Knows(w)
  <2>1. Len(queue[w]) = 0 /\ pc[w] = "down" /\ seen[w] = {} /\ fetched[w] = 0
    BY EmptySeq
  <2> QED
    BY <1>2, <2>1 DEF Knows, OnQueue, InHand, NoStands, Remembers, Running, Busy, Quiet
<1>4. Threads /\ AnsweredNoStands /\ ClosedWindowsCarryNoAuthority /\ AmountsAreReported
  BY <1>2 DEF Threads, AnsweredNoStands, ClosedWindowsCarryNoAuthority, AmountsAreReported, Reply, LedgerInit
<1>5. ASSUME NEW i \in Reply PROVE answers[i] + Cardinality(Owing(i)) <= Claims(i)
  <2>1. Owing(i) = {}
    BY DEF Owing
  <2>2. Cardinality(Owing(i)) = 0 /\ Claims(i) = 0 /\ answers[i] = 0
    BY <1>5, <2>1, FS_EmptySet DEF Claims
  <2> QED
    BY <2>2
<1> QED
  BY <1>1, <1>3, <1>4, <1>5 DEF IInv, Knowing, AnswersAreClaimed

LEMMA Safety == Spec => []IInv
<1>1. IInv /\ [Next]_vars => IInv'
  BY TypeStep, KnowingStep, ThreadsStep, NoStandsStep, ClosedStep, AmountsStep, ClaimsStep DEF IInv
<1> QED
  BY <1>1, Start, PTL DEF Spec

\* Types.
THEOREM RepliesTypeCorrect == Spec => []TypeOK
BY Safety, PTL DEF IInv

\* A NO that was answered stands, whoever raced the monitor.
THEOREM AnsweredNoIsKept == Spec => []AnsweredNoStands
BY Safety, PTL DEF IInv

\* A window closed for good belongs to a row without authority, in every
\* interleaving of the two tables' transactions.
THEOREM ClosedWindowsAreSpent == Spec => []ClosedWindowsCarryNoAuthority
BY Safety, PTL DEF IInv

\* An amount the operator did not mark by hand is, once acknowledged, reported by
\* its monitor or dies with it.
THEOREM AmountsStayReported == Spec => []AmountsAreReported
BY Safety, PTL DEF IInv

\* A reply is answered once, and once more for every claim of it that aged.
THEOREM AnsweredOnceEach == Spec => []AnsweredOnce
<1>1. IInv => AnsweredOnce
  <2> SUFFICES ASSUME IInv, NEW i \in Reply PROVE answers[i] <= 1 + aged[i]
    BY DEF AnsweredOnce
  <2>1. Claims(i) <= 1 + aged[i] /\ Claims(i) \in Nat /\ answers[i] \in Nat /\ aged[i] \in Nat
    BY ClaimsType DEF IInv, Claims
  <2>2. Cardinality(Owing(i)) \in Nat /\ answers[i] + Cardinality(Owing(i)) <= Claims(i)
    BY OwingFinite DEF IInv, AnswersAreClaimed
  <2> QED
    BY <2>1, <2>2
<1> QED
  BY <1>1, Safety, PTL
=============================================================================
