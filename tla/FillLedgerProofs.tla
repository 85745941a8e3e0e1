-------------------------- MODULE FillLedgerProofs --------------------------
(***************************************************************************)
(* Safety of the recording of fills, for any number of orders, lots,       *)
(* pollers and attempts, and for pages of any size.                        *)
(*                                                                         *)
(* The inductive invariant says what a poller knows at each of its steps:  *)
(* a terminal status was read of an order that is over, an order that is   *)
(* over has no more executions, and so the page and the ledger together    *)
(* hold all of them if the page did when it was read.                      *)
(***************************************************************************)
EXTENDS FillLedger, FiniteSetTheorems, SequenceTheorems, TLAPS

\* The broker executes nothing more.
Over(o) == native[o] \in {"filled", "canceled"}

\* The lots executed are the first n of the order, and some are left while it lives.
Prefix(o, n) ==
    /\ LotsOf(o) = {<<o, i>> : i \in 1 .. n}
    /\ ~Over(o) => n < TicketSize

Executed == \A o \in Ticket : \E n \in 0 .. TicketSize : Prefix(o, n)

\* Nothing is stored that the broker did not execute.
Sound == \A l \in fills : l \in LotsOf(l[1])

\* What a poller knows.
Known(p) ==
    LET o == poll[p].order
        over == poll[p].status \in Terminal
    IN  /\ poll[p].pc # "idle" => o \in Ticket /\ poll[p].left >= 1
        /\ poll[p].pc \in {"fills", "record"} /\ over => Over(o)
        /\ poll[p].pc = "record" => poll[p].page \subseteq LotsOf(o)
        /\ poll[p].pc = "record" /\ over /\ poll[p].fit => LotsOf(o) \subseteq poll[p].page \cup Stored(o)

Reported == \A o \in Ticket : outcome[o].known => Over(o) /\ (outcome[o].fit => outcome[o].lots = LotsOf(o))

Knowing == \A p \in Poller : Known(p)

FillInv == FillTypeOK /\ Executed /\ Sound /\ Knowing /\ Reported /\ EachFillNewOnce

-----------------------------------------------------------------------------
\* Lemmas about the broker's tape.

\* A status the package calls terminal is one that is final at the broker.
LEMMA TerminalIsOver == \A s \in Native : StatusOf(s) \in Terminal => s \in {"filled", "canceled"}
  BY DEF Native, StatusOf, Terminal

\* StatusOf has the range the pollers' type asks for.
LEMMA StatusType == \A s \in Native : StatusOf(s) \in Terminal \cup {"partially_filled", "confirmed", "queued"}
  BY DEF Native, StatusOf, Terminal

\* n lots are n.
LEMMA CountLots == ASSUME NEW o, NEW n \in Nat PROVE Cardinality({<<o, i>> : i \in 1 .. n}) = n
<1> DEFINE T == {<<o, i>> : i \in 1 .. n}
           f == [i \in 1 .. n |-> <<o, i>>]
<1>1. IsFiniteSet(1 .. n) /\ Cardinality(1 .. n) = n
  BY FS_Interval
<1>2. f \in Bijection(1 .. n, T)
  BY DEF Bijection, Injection, Surjection, IsInjective
<1>3. ExistsBijection(1 .. n, T)
  BY <1>2 DEF ExistsBijection
<1> QED
  BY <1>1, <1>3, FS_Bijection

\* The lots of an order depend on the tape alone.
LEMMA SameTape == tape' = tape => \A o \in Ticket : LotsOf(o)' = LotsOf(o) /\ Listed(o)' = Listed(o)
  BY DEF LotsOf, Listed

\* One execution more: the next lot of that order, and none of another.
LEMMA ExecuteLots ==
  ASSUME FillTypeOK, Executed, NEW o \in Ticket, Execute(o)
  PROVE  \E k \in 1 .. TicketSize :
            /\ tape' = Append(tape, <<o, k>>) /\ <<o, k>> \in Lot
            /\ native' = [native EXCEPT ![o] = IF k = TicketSize THEN "filled"
                                               ELSE IF @ = "accepted" THEN "partially_filled" ELSE @]
            /\ LotsOf(o) = {<<o, i>> : i \in 1 .. k - 1}
            /\ LotsOf(o)' = {<<o, i>> : i \in 1 .. k}
            /\ \A q \in Ticket \ {o} : LotsOf(q)' = LotsOf(q)
<1>1. PICK n \in 0 .. TicketSize : Prefix(o, n)
  BY DEF Executed
<1> DEFINE k == n + 1
<1>2. TicketSize \in Nat /\ n \in Nat
  BY FillAssumption, <1>1
<1>3. Cardinality(LotsOf(o)) = n
  BY <1>1, <1>2, CountLots DEF Prefix
<1>4. n < TicketSize
  BY <1>1 DEF Prefix, Over, Execute, FillTypeOK, Native
<1>5. k \in 1 .. TicketSize /\ <<o, k>> \in Lot
  BY <1>2, <1>4 DEF Lot
<1>6. tape' = Append(tape, <<o, k>>)
  BY <1>3 DEF Execute
<1>7. /\ Len(tape') = Len(tape) + 1 /\ Len(tape) \in Nat
      /\ \A i \in 1 .. Len(tape) : tape'[i] = tape[i]
      /\ tape'[Len(tape) + 1] = <<o, k>>
  BY <1>5, <1>6 DEF FillTypeOK
<1>8. \A l \in Lot : (\E i \in 1 .. Len(tape') : tape'[i] = l) <=> (\E i \in 1 .. Len(tape) : tape[i] = l) \/ l = <<o, k>>
  <2> TAKE l \in Lot
  <2>1. ASSUME NEW i \in 1 .. Len(tape'), tape'[i] = l PROVE (\E j \in 1 .. Len(tape) : tape[j] = l) \/ l = <<o, k>>
    <3>1. CASE i \in 1 .. Len(tape)
      BY <2>1, <3>1, <1>7
    <3>2. CASE i = Len(tape) + 1
      BY <2>1, <3>2, <1>7
    <3>3. i \in 1 .. Len(tape) \/ i = Len(tape) + 1
      BY <2>1, <1>7
    <3> QED
      BY <3>1, <3>2, <3>3
  <2>2. ASSUME NEW i \in 1 .. Len(tape), tape[i] = l PROVE \E j \in 1 .. Len(tape') : tape'[j] = l
    <3>1. i \in 1 .. Len(tape') /\ tape'[i] = l
      BY <2>2, <1>7
    <3> QED
      BY <3>1
  <2>3. ASSUME l = <<o, k>> PROVE \E j \in 1 .. Len(tape') : tape'[j] = l
    <3>1. Len(tape) + 1 \in 1 .. Len(tape') /\ tape'[Len(tape) + 1] = l
      BY <2>3, <1>7
    <3> QED
      BY <3>1
  <2> QED
    BY <2>1, <2>2, <2>3
<1>9. LotsOf(o)' = LotsOf(o) \cup {<<o, k>>}
  BY <1>5, <1>8 DEF LotsOf
<1>10. ASSUME NEW q \in Ticket \ {o} PROVE LotsOf(q)' = LotsOf(q)
  BY <1>8 DEF LotsOf
<1>11. LotsOf(o) = {<<o, i>> : i \in 1 .. k - 1}
  BY <1>1, <1>2 DEF Prefix
<1>12. 1 .. k = (1 .. n) \cup {k}
  BY <1>2
<1>13. LotsOf(o)' = {<<o, i>> : i \in 1 .. k}
  BY <1>9, <1>1, <1>12 DEF Prefix
<1>14. native' = [native EXCEPT ![o] = IF k = TicketSize THEN "filled"
                                       ELSE IF @ = "accepted" THEN "partially_filled" ELSE @]
  BY <1>3 DEF Execute
<1> QED
  BY <1>5, <1>6, <1>10, <1>11, <1>13, <1>14

-----------------------------------------------------------------------------
\* Types.

\* A poller's record keeps its type through each of its changes.
LEMMA NoPollType == NoPoll \in Polling
<1>1. 0 \in 0 .. Attempts
  BY FillAssumption
<1> QED
  BY <1>1 DEF NoPoll, Polling

LEMMA BegunType ==
  ASSUME NEW r \in Polling, NEW o \in Ticket
  PROVE  [r EXCEPT !.pc = "order", !.order = o, !.left = Attempts] \in Polling
<1>1. Attempts \in 0 .. Attempts
  BY FillAssumption
<1> QED
  BY <1>1 DEF Polling

LEMMA PagedType ==
  ASSUME NEW r \in Polling, NEW S \in SUBSET Lot, NEW T
  PROVE  [r EXCEPT !.pc = "record", !.page = S, !.fit = (S = T)] \in Polling
<1>1. (S = T) \in BOOLEAN
  OBVIOUS
<1> QED
  BY <1>1 DEF Polling

LEMMA AsleepType ==
  ASSUME NEW r \in Polling, r.left >= 1, r.left # 1
  PROVE  [r EXCEPT !.pc = "sleep", !.left = @ - 1, !.fit = FALSE] \in Polling
<1>1. r.left - 1 \in 0 .. Attempts
  BY FillAssumption DEF Polling
<1> QED
  BY <1>1 DEF Polling

LEMMA FillTypeStep == FillTypeOK /\ Executed /\ Knowing /\ [FillNext]_fillVars => FillTypeOK'
<1> SUFFICES ASSUME FillTypeOK, Executed, Knowing, [FillNext]_fillVars PROVE FillTypeOK'
  OBVIOUS
<1> USE FillAssumption DEF FillTypeOK
<1>1. ASSUME NEW o \in Ticket, Execute(o) PROVE FillTypeOK'
  <2>1. PICK k \in 1 .. TicketSize : tape' = Append(tape, <<o, k>>) /\ <<o, k>> \in Lot
    BY <1>1, ExecuteLots
  <2>2. tape' \in Seq(Lot)
    BY <2>1
  <2>3. native' \in [Ticket -> Native]
    BY <1>1 DEF Execute, Native
  <2> QED
    BY <1>1, <2>2, <2>3 DEF Execute
<1>2. ASSUME NEW o \in Ticket, EndOrder(o) \/ AllowCancel(o) \/ SendCancel(o) PROVE FillTypeOK'
  BY <1>2, ZenonT(40) DEF EndOrder, AllowCancel, SendCancel, Native
<1>3. ASSUME NEW p \in Poller, NEW o \in Ticket, StartPoll(p, o) PROVE FillTypeOK'
  <2>1. [NoPoll EXCEPT !.pc = "order", !.order = o, !.left = Attempts] \in Polling
    BY NoPollType, BegunType
  <2>2. poll' \in [Poller -> Polling]
    BY <1>3, <2>1 DEF StartPoll
  <2> QED
    BY <1>3, <2>2 DEF StartPoll
<1>4. ASSUME NEW p \in Poller, ReadOrder(p) PROVE FillTypeOK'
  <2>0. poll[p] \in Polling
    OBVIOUS
  <2>1. StatusOf(native[poll[p].order]) \in Terminal \cup {"partially_filled", "confirmed", "queued"}
    BY <1>4, StatusType DEF ReadOrder, Knowing, Known
  <2>2. [poll[p] EXCEPT !.pc = "fills", !.status = StatusOf(native[poll[p].order])] \in Polling
    BY <2>1, <2>0 DEF Polling
  <2>3. poll' = [poll EXCEPT ![p] = [poll[p] EXCEPT !.pc = "fills", !.status = StatusOf(native[poll[p].order])]]
    BY <1>4 DEF ReadOrder
  <2>4. poll' \in [Poller -> Polling]
    BY <2>2, <2>3
  <2> QED
    BY <1>4, <2>4 DEF ReadOrder
<1>5. ASSUME NEW p \in Poller, ReadFills(p) PROVE FillTypeOK'
  <2> DEFINE o == poll[p].order
             new == [poll[p] EXCEPT !.pc = "record", !.page = Listed(o), !.fit = (Listed(o) = LotsOf(o))]
  <2>1. Listed(o) \in SUBSET Lot
    BY DEF Listed, LotsOf
  <2>2. poll[p] \in Polling /\ new \in Polling
    BY <2>1, PagedType
  <2>3. poll' = [poll EXCEPT ![p] = new]
    BY <1>5 DEF ReadFills
  <2>4. poll' \in [Poller -> Polling]
    BY <2>2, <2>3
  <2> QED
    BY <1>5, <2>4 DEF ReadFills
<1>6. ASSUME NEW p \in Poller, RecordFill(p) PROVE FillTypeOK'
  <2>1. PICK l \in Latest(poll[p].page) :
          /\ poll' = [poll EXCEPT ![p].page = @ \ {l}]
          /\ fills' = fills \cup {l}
          /\ news' = IF l \in fills THEN news ELSE [news EXCEPT ![l] = @ + 1]
    BY <1>6 DEF RecordFill
  <2>2. poll[p] \in Polling /\ poll[p].page \in SUBSET Lot
    BY DEF Polling
  <2>3. l \in Lot
    BY <2>1, <2>2 DEF Latest
  <2>4. [poll[p] EXCEPT !.page = @ \ {l}] \in Polling
    BY <2>2 DEF Polling
  <2>5. poll' \in [Poller -> Polling]
    BY <2>1, <2>4
  <2>6. fills' \subseteq Lot /\ news' \in [Lot -> Nat]
    BY <2>1, <2>3
  <2> QED
    BY <1>6, <2>5, <2>6 DEF RecordFill
<1>7. ASSUME NEW p \in Poller, FinishPoll(p) PROVE FillTypeOK'
  <2>1. poll[p].order \in Ticket /\ poll[p].left >= 1 /\ Stored(poll[p].order) \in SUBSET Lot
    BY <1>7 DEF FinishPoll, Knowing, Known, Stored
  <2>2. poll[p] \in Polling
    OBVIOUS
  <2>3. [known |-> TRUE, fit |-> poll[p].fit, lots |-> Stored(poll[p].order)] \in [known : BOOLEAN, fit : BOOLEAN, lots : SUBSET Lot]
    BY <2>1, <2>2 DEF Polling
  <2>4. outcome' \in [Ticket -> [known : BOOLEAN, fit : BOOLEAN, lots : SUBSET Lot]]
    BY <1>7, <2>3 DEF FinishPoll
  <2>5. NoPoll \in Polling
    BY NoPollType
  <2>6. poll[p].left # 1 => [poll[p] EXCEPT !.pc = "sleep", !.left = @ - 1, !.fit = FALSE] \in Polling
    BY <2>1, <2>2, AsleepType
  <2> DEFINE new == IF poll[p].status \in Terminal \/ poll[p].left = 1 THEN NoPoll
                    ELSE [poll[p] EXCEPT !.pc = "sleep", !.left = @ - 1, !.fit = FALSE]
  <2>7. poll' \in [Poller -> Polling]
    <3>1. new \in Polling
      BY <2>5, <2>6
    <3>2. poll' = [poll EXCEPT ![p] = new]
      BY <1>7 DEF FinishPoll
    <3> QED
      BY <3>1, <3>2
  <2> QED
    BY <1>7, <2>4, <2>7 DEF FinishPoll
<1>8. ASSUME NEW p \in Poller, PollAgain(p) \/ PollDies(p) PROVE FillTypeOK'
  <2>0. NoPoll \in Polling /\ poll[p] \in Polling
    BY NoPollType
  <2>1. [poll[p] EXCEPT !.pc = "order"] \in Polling
    BY <2>0 DEF Polling
  <2>2. poll' \in [Poller -> Polling]
    BY <1>8, <2>0, <2>1 DEF PollAgain, PollDies
  <2> QED
    BY <1>8, <2>2 DEF PollAgain, PollDies
<1>9. CASE UNCHANGED fillVars
  BY <1>9 DEF fillVars
<1> HIDE DEF FillTypeOK
<1>10. CASE OrderNext
  BY <1>10, <1>1, <1>2 DEF OrderNext
<1>11. ASSUME NEW p \in Poller, PollNext(p) PROVE FillTypeOK'
  BY <1>11, <1>3, <1>4, <1>5, <1>6, <1>7, <1>8 DEF PollNext
<1> QED
  BY <1>9, <1>10, <1>11 DEF FillNext

-----------------------------------------------------------------------------
\* What every step leaves standing.

\* Executions are never taken back, and an order that is over has no more.
Grows == \A q \in Ticket : /\ LotsOf(q) \subseteq LotsOf(q)'
                           /\ Over(q) => Over(q)' /\ LotsOf(q)' = LotsOf(q)

LEMMA StepGrows ==
  FillTypeOK /\ Executed /\ [FillNext]_fillVars => Grows /\ fills \subseteq fills'
<1> SUFFICES ASSUME FillTypeOK, Executed, [FillNext]_fillVars
             PROVE Grows /\ fills \subseteq fills'
  OBVIOUS
<1>1. ASSUME NEW o \in Ticket, Execute(o) PROVE Grows /\ fills' = fills
  <2>1. PICK k \in 1 .. TicketSize :
            /\ native' = [native EXCEPT ![o] = IF k = TicketSize THEN "filled"
                                               ELSE IF @ = "accepted" THEN "partially_filled" ELSE @]
            /\ LotsOf(o) = {<<o, i>> : i \in 1 .. k - 1}
            /\ LotsOf(o)' = {<<o, i>> : i \in 1 .. k}
            /\ \A q \in Ticket \ {o} : LotsOf(q)' = LotsOf(q)
    BY <1>1, ExecuteLots
  <2>2. 1 .. k - 1 \subseteq 1 .. k
    BY FillAssumption
  <2>3. ~Over(o) /\ LotsOf(o) \subseteq LotsOf(o)'
    BY <1>1, <2>1, <2>2 DEF Execute, Over
  <2>4. \A q \in Ticket \ {o} : native'[q] = native[q]
    BY <2>1 DEF FillTypeOK
  <2>5. Grows
    BY <2>1, <2>3, <2>4 DEF Grows, Over
  <2> QED
    BY <1>1, <2>5 DEF Execute
<1>2. ASSUME tape' = tape, \A q \in Ticket : Over(q) => Over(q)' PROVE Grows
  BY <1>2, SameTape DEF Grows
<1>3. ASSUME NEW o \in Ticket, EndOrder(o) \/ AllowCancel(o) \/ SendCancel(o)
      PROVE  tape' = tape /\ fills' = fills /\ \A q \in Ticket : Over(q) => Over(q)'
  BY <1>3 DEF EndOrder, AllowCancel, SendCancel, Over, FillTypeOK
<1>4. CASE OrderNext
  BY <1>1, <1>2, <1>3, <1>4 DEF OrderNext
<1>5. ASSUME UNCHANGED fillVars PROVE tape' = tape /\ native' = native /\ fills' = fills
  BY <1>5 DEF fillVars
<1>6. ASSUME NEW p \in Poller, PollNext(p)
      PROVE  tape' = tape /\ native' = native /\ fills \subseteq fills'
  <2>1. CASE RecordFill(p)
    BY <2>1, SMTT(30) DEF RecordFill
  <2>2. CASE ~RecordFill(p)
    BY <1>6, <2>2 DEF PollNext, StartPoll, ReadOrder, ReadFills, FinishPoll, PollAgain, PollDies
  <2> QED
    BY <2>1, <2>2
<1>7. native' = native => \A q \in Ticket : Over(q) => Over(q)'
  BY DEF Over
<1> QED
  BY <1>2, <1>4, <1>5, <1>6, <1>7 DEF FillNext

\* A poller that does not act keeps what it knows.
LEMMA OthersKnow ==
  ASSUME Grows, fills \subseteq fills', NEW p \in Poller, Known(p), poll'[p] = poll[p]
  PROVE  Known(p)'
<1>1. \A o : Stored(o) \subseteq Stored(o)'
  BY DEF Stored
<1> QED
  BY <1>1 DEF Known, Grows

-----------------------------------------------------------------------------
\* Each part of the invariant is kept.

LEMMA ExecutedStep == FillTypeOK /\ Executed /\ [FillNext]_fillVars => Executed'
<1> SUFFICES ASSUME FillTypeOK, Executed, [FillNext]_fillVars PROVE Executed'
  OBVIOUS
<1>1. ASSUME NEW o \in Ticket, Execute(o) PROVE Executed'
  <2>1. PICK k \in 1 .. TicketSize :
            /\ native' = [native EXCEPT ![o] = IF k = TicketSize THEN "filled"
                                               ELSE IF @ = "accepted" THEN "partially_filled" ELSE @]
            /\ LotsOf(o)' = {<<o, i>> : i \in 1 .. k}
            /\ \A q \in Ticket \ {o} : LotsOf(q)' = LotsOf(q)
    BY <1>1, ExecuteLots
  <2>2. k \in 0 .. TicketSize /\ (k = TicketSize => native'[o] = "filled") /\ (k # TicketSize => k < TicketSize)
    BY <2>1, FillAssumption DEF FillTypeOK
  <2>3. Prefix(o, k)'
    BY <2>1, <2>2 DEF Prefix, Over
  <2>4. ASSUME NEW q \in Ticket \ {o}, NEW n \in 0 .. TicketSize, Prefix(q, n) PROVE Prefix(q, n)'
    <3>1. native'[q] = native[q]
      BY <2>1 DEF FillTypeOK
    <3> QED
      BY <2>1, <2>4, <3>1 DEF Prefix, Over
  <2> QED
    BY <2>2, <2>3, <2>4 DEF Executed
<1>2. ASSUME tape' = tape, \A q \in Ticket : Over(q) => Over(q)' PROVE Executed'
  <2>1. ASSUME NEW q \in Ticket, NEW n \in 0 .. TicketSize, Prefix(q, n) PROVE Prefix(q, n)'
    BY <1>2, <2>1, SameTape DEF Prefix
  <2> QED
    BY <2>1 DEF Executed
<1>3. \A q \in Ticket : Over(q) => Over(q)'
  BY StepGrows DEF Grows
<1>4. ASSUME ~\E o \in Ticket : Execute(o) PROVE tape' = tape
  <2>1. CASE OrderNext \/ UNCHANGED fillVars
    BY <1>4, <2>1, SMTT(30) DEF OrderNext, EndOrder, AllowCancel, SendCancel, fillVars
  <2>2. ASSUME NEW p \in Poller, PollNext(p) PROVE tape' = tape
    BY <2>2 DEF PollNext, StartPoll, ReadOrder, ReadFills, RecordFill, FinishPoll, PollAgain, PollDies
  <2> QED
    BY <2>1, <2>2 DEF FillNext
<1> QED
  BY <1>1, <1>2, <1>3, <1>4

\* The steps that touch the ledger of fills or the result of a poll.
LEMMA RecordFillFacts ==
  ASSUME FillTypeOK, Knowing, NEW p \in Poller, RecordFill(p)
  PROVE  \E l \in LotsOf(poll[p].order) :
            /\ l \in Lot /\ l[1] = poll[p].order /\ poll[p].order \in Ticket
            /\ poll' = [poll EXCEPT ![p] = [poll[p] EXCEPT !.page = @ \ {l}]]
            /\ fills' = fills \cup {l}
            /\ news' = IF l \in fills THEN news ELSE [news EXCEPT ![l] = @ + 1]
            /\ tape' = tape
<1>1. PICK l \in Latest(poll[p].page) :
            /\ poll' = [poll EXCEPT ![p].page = @ \ {l}]
            /\ fills' = fills \cup {l}
            /\ news' = IF l \in fills THEN news ELSE [news EXCEPT ![l] = @ + 1]
  BY DEF RecordFill
<1>2. l \in LotsOf(poll[p].order) /\ poll[p].order \in Ticket
  BY <1>1 DEF RecordFill, Latest, Knowing, Known
<1> QED
  BY <1>1, <1>2 DEF LotsOf, RecordFill

LEMMA LedgerStep ==
  ASSUME FillTypeOK, Knowing, Executed, Sound, EachFillNewOnce, [FillNext]_fillVars
  PROVE  Sound' /\ EachFillNewOnce'
<1>1. \A q \in Ticket : LotsOf(q) \subseteq LotsOf(q)'
  BY StepGrows DEF Grows
<1>2. ASSUME NEW p \in Poller, RecordFill(p) PROVE Sound' /\ EachFillNewOnce'
  <2>1. PICK l \in LotsOf(poll[p].order) :
            /\ l \in Lot /\ l[1] = poll[p].order /\ poll[p].order \in Ticket
            /\ fills' = fills \cup {l}
            /\ news' = IF l \in fills THEN news ELSE [news EXCEPT ![l] = @ + 1]
    BY <1>2, RecordFillFacts
  <2>2. Sound'
    <3>1. \A m \in Lot : m[1] \in Ticket
      BY DEF Lot
    <3> QED
      BY <1>1, <2>1, <3>1 DEF Sound, FillTypeOK
  <2>3. EachFillNewOnce'
    BY <2>1 DEF EachFillNewOnce, FillTypeOK
  <2> QED
    BY <2>2, <2>3
<1>3. ASSUME fills' = fills, news' = news PROVE Sound' /\ EachFillNewOnce'
  <2>1. \A m \in Lot : m[1] \in Ticket
    BY DEF Lot
  <2> QED
    BY <1>1, <1>3, <2>1 DEF Sound, EachFillNewOnce, FillTypeOK
<1>4. ASSUME ~\E p \in Poller : RecordFill(p) PROVE fills' = fills /\ news' = news
  <2>1. CASE OrderNext \/ UNCHANGED fillVars
    BY <2>1, SMTT(30) DEF OrderNext, Execute, EndOrder, AllowCancel, SendCancel, fillVars
  <2>2. ASSUME NEW p \in Poller, PollNext(p) PROVE fills' = fills /\ news' = news
    BY <1>4, <2>2 DEF PollNext, StartPoll, ReadOrder, ReadFills, FinishPoll, PollAgain, PollDies
  <2> QED
    BY <2>1, <2>2 DEF FillNext
<1> QED
  BY <1>2, <1>3, <1>4

LEMMA KnowingStep ==
  ASSUME FillTypeOK, Knowing, Executed, [FillNext]_fillVars
  PROVE  Knowing'
<1>1. Grows /\ fills \subseteq fills'
  BY StepGrows
<1>2. \A p \in Poller : poll'[p] = poll[p] => Known(p)'
  BY <1>1, OthersKnow DEF Knowing
<1>3. ASSUME NEW p \in Poller, PollNext(p) PROVE Knowing'
  <2>1. \A q \in Poller \ {p} : poll'[q] = poll[q]
    BY <1>3 DEF PollNext, StartPoll, ReadOrder, ReadFills, RecordFill, FinishPoll, PollAgain, PollDies, FillTypeOK
  <2>2. poll[p] \in Polling
    BY DEF FillTypeOK
  <2>3. Known(p)'
    <3>1. ASSUME NEW o \in Ticket, StartPoll(p, o) PROVE Known(p)'
      <4>1. poll'[p].pc = "order" /\ poll'[p].order = o /\ poll'[p].left = Attempts
        BY <3>1, NoPollType DEF StartPoll, FillTypeOK, NoPoll
      <4> QED
        BY <4>1, FillAssumption DEF Known
    <3>2. CASE ReadOrder(p)
      <4>1. /\ poll'[p].pc = "fills" /\ poll'[p].order = poll[p].order /\ poll'[p].left = poll[p].left
            /\ poll'[p].status = StatusOf(native[poll[p].order]) /\ native' = native
        BY <2>2, <3>2 DEF ReadOrder, FillTypeOK, Polling
      <4>2. poll[p].order \in Ticket /\ poll[p].left >= 1
        BY <3>2 DEF ReadOrder, Knowing, Known
      <4>3. poll'[p].status \in Terminal => Over(poll[p].order)'
        BY <4>1, <4>2, TerminalIsOver DEF Over, FillTypeOK
      <4> QED
        BY <4>1, <4>2, <4>3 DEF Known
    <3>3. CASE ReadFills(p)
      <4>0. PICK o \in Ticket : o = poll[p].order
        BY <3>3 DEF ReadFills, Knowing, Known
      <4>1. /\ poll'[p].pc = "record" /\ poll'[p].order = o /\ poll'[p].left = poll[p].left
            /\ poll'[p].status = poll[p].status /\ poll'[p].page = Listed(o)
            /\ poll'[p].fit = (Listed(o) = LotsOf(o)) /\ native' = native /\ tape' = tape
        BY <2>2, <3>3, <4>0 DEF ReadFills, FillTypeOK, Polling
      <4>2. o \in Ticket /\ poll[p].left >= 1 /\ (poll[p].status \in Terminal => Over(o))
        BY <3>3, <4>0 DEF ReadFills, Knowing, Known
      <4>3. LotsOf(o)' = LotsOf(o) /\ Listed(o) \subseteq LotsOf(o) /\ Over(o)' = Over(o)
        BY <4>1, <4>2, SameTape DEF Listed, Over
      <4> QED
        BY <4>1, <4>2, <4>3 DEF Known
    <3>4. CASE RecordFill(p)
      <4> DEFINE o == poll[p].order
      <4>1. PICK l \in LotsOf(o) :
            /\ l \in Lot /\ l[1] = o /\ o \in Ticket
            /\ poll' = [poll EXCEPT ![p] = [poll[p] EXCEPT !.page = @ \ {l}]]
            /\ fills' = fills \cup {l} /\ tape' = tape
        BY <3>4, RecordFillFacts
      <4>2. /\ poll'[p].pc = "record" /\ poll'[p].order = o /\ poll'[p].left = poll[p].left
            /\ poll'[p].status = poll[p].status /\ poll'[p].page = poll[p].page \ {l}
            /\ poll'[p].fit = poll[p].fit /\ poll[p].pc = "record"
        BY <2>2, <3>4, <4>1 DEF RecordFill, FillTypeOK, Polling
      <4>3. Known(p) /\ LotsOf(o)' = LotsOf(o) /\ (Over(o) => Over(o)')
        BY <1>1, <4>1, SameTape DEF Knowing, Grows
      <4>4. Stored(o)' = Stored(o) \cup {l}
        BY <4>1 DEF Stored
      <4> QED
        BY <4>2, <4>3, <4>4 DEF Known
    <3>5. CASE FinishPoll(p)
      <4>1. poll[p].order \in Ticket /\ poll[p].left >= 1 /\ poll[p].left \in Nat
        BY <2>2, <3>5, FillAssumption DEF FinishPoll, Knowing, Known, Polling
      <4>2. CASE poll[p].status \in Terminal \/ poll[p].left = 1
        <5>1. poll'[p] = NoPoll
          BY <3>5, <4>2 DEF FinishPoll, FillTypeOK
        <5> QED
          BY <5>1 DEF NoPoll, Known
      <4>3. CASE ~(poll[p].status \in Terminal \/ poll[p].left = 1)
        <5>1. poll'[p] = [poll[p] EXCEPT !.pc = "sleep", !.left = @ - 1, !.fit = FALSE]
          BY <3>5, <4>3 DEF FinishPoll, FillTypeOK
        <5>2. poll'[p].pc = "sleep" /\ poll'[p].order = poll[p].order /\ poll'[p].left = poll[p].left - 1
          BY <2>2, <5>1 DEF Polling
        <5> QED
          BY <4>1, <4>3, <5>2 DEF Known
      <4> QED
        BY <4>2, <4>3
    <3>6. CASE PollAgain(p)
      <4>1. poll'[p].pc = "order" /\ poll'[p].order = poll[p].order /\ poll'[p].left = poll[p].left
        BY <2>2, <3>6 DEF PollAgain, FillTypeOK, Polling
      <4> QED
        BY <3>6, <4>1 DEF PollAgain, Knowing, Known
    <3>7. CASE PollDies(p)
      <4>1. poll'[p] = NoPoll
        BY <3>7 DEF PollDies, FillTypeOK
      <4> QED
        BY <4>1 DEF NoPoll, Known
    <3> QED
      BY <1>3, <3>1, <3>2, <3>3, <3>4, <3>5, <3>6, <3>7 DEF PollNext
  <2> QED
    BY <1>2, <2>1, <2>3 DEF Knowing
<1>4. CASE OrderNext \/ UNCHANGED fillVars
  <2>1. poll' = poll
    BY <1>4 DEF OrderNext, Execute, EndOrder, AllowCancel, SendCancel, fillVars
  <2> QED
    BY <1>2, <2>1 DEF Knowing
<1> QED
  BY <1>3, <1>4 DEF FillNext

LEMMA ReportedStep ==
  ASSUME FillTypeOK, Knowing, Executed, Sound, Reported, [FillNext]_fillVars
  PROVE  Reported'
<1>1. Grows
  BY StepGrows
<1>2. ASSUME NEW p \in Poller, FinishPoll(p) PROVE Reported'
  <2>0. PICK o \in Ticket : o = poll[p].order
    BY <1>2 DEF FinishPoll, Knowing, Known
  <2>1. /\ o \in Ticket /\ poll[p].page = {} /\ (poll[p].status \in Terminal => Over(o))
        /\ (poll[p].status \in Terminal /\ poll[p].fit => LotsOf(o) \subseteq Stored(o))
    BY <1>2, <2>0 DEF FinishPoll, Knowing, Known
  <2>2. Stored(o) \subseteq LotsOf(o)
    BY DEF Stored, Sound
  <2>3. outcome' = IF poll[p].status \in Terminal
                   THEN [outcome EXCEPT ![o] = [known |-> TRUE, fit |-> poll[p].fit, lots |-> Stored(o)]]
                   ELSE outcome
    BY <1>2, <2>0 DEF FinishPoll
  <2>4. ASSUME NEW q \in Ticket, outcome'[q].known
        PROVE  Over(q)' /\ (outcome'[q].fit => outcome'[q].lots = LotsOf(q)')
    <3>1. CASE outcome'[q] = outcome[q]
      BY <1>1, <2>4, <3>1 DEF Reported, Grows
    <3>2. CASE outcome'[q] # outcome[q]
      <4>1. q = o /\ poll[p].status \in Terminal
        BY <2>1, <2>3, <3>2 DEF FillTypeOK
      <4>2. outcome'[q] = [known |-> TRUE, fit |-> poll[p].fit, lots |-> Stored(o)]
        BY <2>1, <2>3, <4>1 DEF FillTypeOK
      <4>3. Over(o)' /\ LotsOf(o)' = LotsOf(o)
        BY <1>1, <2>1, <4>1 DEF Grows
      <4>4. poll[p].fit => Stored(o) = LotsOf(o)
        BY <2>1, <2>2, <4>1
      <4> QED
        BY <4>1, <4>2, <4>3, <4>4
    <3> QED
      BY <3>1, <3>2
  <2> QED
    BY <2>4 DEF Reported
<1>3. ASSUME ~\E p \in Poller : FinishPoll(p) PROVE outcome' = outcome
  <2>1. CASE OrderNext \/ UNCHANGED fillVars
    BY <2>1, SMTT(30) DEF OrderNext, Execute, EndOrder, AllowCancel, SendCancel, fillVars
  <2>2. ASSUME NEW p \in Poller, PollNext(p) PROVE outcome' = outcome
    BY <1>3, <2>2 DEF PollNext, StartPoll, ReadOrder, ReadFills, RecordFill, PollAgain, PollDies
  <2> QED
    BY <2>1, <2>2 DEF FillNext
<1> QED
  BY <1>1, <1>2, <1>3 DEF Reported, Grows

-----------------------------------------------------------------------------
\* The invariant.

LEMMA FillStart == FillInit => FillInv
<1> SUFFICES ASSUME FillInit PROVE FillInv
  OBVIOUS
<1>1. FillTypeOK
  <2>1. NoPoll \in Polling
    BY NoPollType
  <2>2. <<>> \in Seq(Lot)
    OBVIOUS
  <2> QED
    BY <2>1, <2>2 DEF FillInit, FillTypeOK, Native
<1>2. \A o \in Ticket : LotsOf(o) = {}
  BY DEF FillInit, LotsOf
<1>3. Executed
  <2>1. 0 \in 0 .. TicketSize /\ 1 .. 0 = {} /\ 0 < TicketSize
    BY FillAssumption
  <2>2. \A o \in Ticket : Prefix(o, 0)
    BY <1>2, <2>1 DEF Prefix
  <2> QED
    BY <2>1, <2>2 DEF Executed
<1>4. Knowing /\ Sound /\ Reported /\ EachFillNewOnce
  BY DEF FillInit, NoPoll, Knowing, Known, Sound, Reported, EachFillNewOnce
<1> QED
  BY <1>1, <1>3, <1>4 DEF FillInv

LEMMA FillKept == FillInv /\ [FillNext]_fillVars => FillInv'
  BY FillTypeStep, ExecutedStep, LedgerStep, KnowingStep, ReportedStep DEF FillInv

LEMMA FillInvariance == FillSpec => []FillInv
<1> QED
  BY FillStart, FillKept, PTL DEF FillSpec

(* Every poll, result and cancellation keeps its type: a poll that runs has  *)
(* attempts left and an order (poll_until_terminal).                *)
THEOREM FillTypeCorrect == FillSpec => []FillTypeOK
<1>1. FillInv => FillTypeOK
  BY DEF FillInv
<1> QED
  BY <1>1, FillInvariance, PTL

(* A terminal result (poll_order_once) holds every lot the broker executed   *)
(* for the order whenever the broker still listed them all, for any number   *)
(* of pollers, orders and lots and any interleaving of them.                 *)
THEOREM TerminalResultsAreWhole == FillSpec => []TerminalResultIsWhole
<1>1. FillInv => TerminalResultIsWhole
  BY DEF FillInv, Reported, TerminalResultIsWhole
<1> QED
  BY <1>1, FillInvariance, PTL

(* Each stored fill was counted as new by exactly one poll, whichever        *)
(* pollers saw it and whenever they died (record_fill, reconcile_order).     *)
THEOREM FillsCountOnce == FillSpec => []EachFillNewOnce
<1>1. FillInv => EachFillNewOnce
  BY DEF FillInv
<1> QED
  BY <1>1, FillInvariance, PTL
=============================================================================
