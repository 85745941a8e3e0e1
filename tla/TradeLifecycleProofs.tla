------------------------ MODULE TradeLifecycleProofs ------------------------
(***************************************************************************)
(* Safety of the lifecycle row, for any number of symbols, workers and      *)
(* session runs, with deaths at every step.                                 *)
(*                                                                          *)
(* The conditional update that lets a session place is the only thing that  *)
(* keeps a second order back.  The inductive invariant therefore follows    *)
(* the claim it hands out: from the update until the order is refused the   *)
(* approval claims the symbol's entry (or exit), a symbol has at most one   *)
(* claim of each side, and the row says which of them were handed out.      *)
(***************************************************************************)
EXTENDS TradeLifecycle, FiniteSetTheorems, TLAPS

Session == {"lookup", "begin", "attach", "pend", "place", "mark"}

\* The approval was handed the symbol's entry or exit: it is at the broker, or about to be.
Claim(a, s, side) ==
    /\ order[a].symbol = s /\ order[a].side = side
    /\ Sent(a) \/ \E w \in Worker : pc[w] = "place" /\ under[w] = a

Bought(s) == \E a \in Approval : order[a].state = "filled" /\ order[a].side = "buy" /\ order[a].symbol = s

\* What a worker holds at each of its steps.
Holding(w) ==
    /\ pc[w] # "idle" => subject[w] \in Symbol
    /\ pc[w] \in Session => under[w] \in Approval /\ order[under[w]].symbol = subject[w]
    /\ pc[w] \in {"lookup", "begin", "attach", "pend", "place"} => order[under[w]].state = "authorized"
    /\ pc[w] \in {"lookup", "begin", "attach", "mark"} => order[under[w]].side = "buy"
    /\ pc[w] = "pend" => order[under[w]].side = "sell"
    /\ pc[w] = "mark" => order[under[w]].state = "filled"

Held == \A w \in Worker : Holding(w)

\* A session run has an approval of its own.
Distinct == \A v, w \in Worker : pc[v] \in Session /\ pc[w] \in Session /\ under[v] = under[w] => v = w

Prepared == \A a \in Approval : order[a].state # "unused" =>
                /\ order[a].symbol \in Symbol
                /\ order[a].side = "buy" => order[a].lots = Lots

OneClaim == \A s \in Symbol, side \in {"buy", "sell"}, a, b \in Approval :
                Claim(a, s, side) /\ Claim(b, s, side) => a = b

\* The row knows which claims were handed out.
RowKnows == \A s \in Symbol, a \in Approval :
                /\ Claim(a, s, "buy") => status[s] \notin {"none", "research"}
                /\ Claim(a, s, "sell") => status[s] \in {"sell_pending", "closed"}

\* Until a session sells, it is the entry and other flows that explain the position.
Backed == \A s \in Symbol :
            /\ status[s] = "open" => Bought(s)
            /\ ~Bought(s) /\ Orders(s, "sell") = {} => position[s] = elsewhere[s]
            /\ Bought(s) /\ Orders(s, "sell") = {} => position[s] = Lots + elsewhere[s]

\* A symbol that was held is held until a session sells it, one that was not is
\* held once a session buys it, and the buys that were filled stay so.
Seen(s) ==
    /\ s \in review.held /\ Orders(s, "sell") = {} => position[s] > 0
    /\ s \notin review.held /\ position[s] > 0 => Orders(s, "buy") \cap (Filled \ review.filled) # {}

Reviewed ==
    /\ review.filled \subseteq Filled
    /\ review.pc = "clean" => review.rows = review.held
    /\ review.pc # "idle" => \A s \in Symbol \ review.moved : Seen(s)

IInv == TypeOK /\ Held /\ Distinct /\ Prepared /\ OneClaim /\ RowKnows /\ Backed /\ Reviewed

-----------------------------------------------------------------------------
\* Who touches what.

\* Other flows and the review leave rows, orders, leases and workers alone.
LEMMA OutsideRests ==
  Outside => /\ status' = status /\ order' = order /\ lease' = lease
             /\ pc' = pc /\ subject' = subject /\ under' = under
  BY DEF Outside, TradeElsewhere, TakeSnapshot, ComparePositions, NextReview

\* The sessions, the monitors and the broker leave the review alone.
LEMMA InsideRests == Steps \/ (\E w \in Worker : Crash(w)) => elsewhere' = elsewhere /\ review' = review
<1> USE DEF apart
<1>1. ASSUME NEW w \in Worker, NEW s \in Symbol, NEW a \in Approval,
             StartEntry(w, s, a) \/ (\E lots \in 1 .. Lots : StartSale(w, s, a, lots)) \/ StartMonitor(w, s)
      PROVE  elsewhere' = elsewhere /\ review' = review
  BY <1>1 DEF StartEntry, StartSale, StartMonitor
<1>2. ASSUME NEW w \in Worker, NEW s \in Symbol, StartMonitor(w, s) PROVE elsewhere' = elsewhere /\ review' = review
  BY <1>2 DEF StartMonitor
<1>3. ASSUME NEW w \in Worker,
             \/ LookupLifecycle(w) \/ BeginBuyPending(w) \/ AttachBuy(w) \/ MarkSellPending(w)
             \/ PlaceFilled(w) \/ PlaceAccepted(w) \/ PlaceRefused(w)
             \/ MarkPositionOpen(w) \/ AcquireLease(w) \/ ReleaseLease(w) \/ Crash(w)
      PROVE  elsewhere' = elsewhere /\ review' = review
  BY <1>3 DEF LookupLifecycle, BeginBuyPending, AttachBuy, MarkSellPending, Move, PlaceFilled, PlaceAccepted,
              PlaceRefused, MarkPositionOpen, AcquireLease, ReleaseLease, Crash
<1>4. ASSUME NEW s \in Symbol, BeginResearch(s) \/ LeaseExpires(s) \/ ReportFilledSale(s)
      PROVE  elsewhere' = elsewhere /\ review' = review
  BY <1>4 DEF BeginResearch, LeaseExpires, ReportFilledSale
<1>5. ASSUME NEW a \in Approval, BrokerFills(a) PROVE elsewhere' = elsewhere /\ review' = review
  BY <1>5 DEF BrokerFills
<1> QED
  BY <1>1, <1>2, <1>3, <1>4, <1>5 DEF Steps

-----------------------------------------------------------------------------
\* Types, and what the workers hold.

\* Filling an order keeps the types.
LEMMA FillTypes ==
  ASSUME TypeOK, NEW a \in Approval, NEW s \in Symbol, order[a].symbol = s,
         order[a].side = "sell" => order[a].lots <= position[s],
         order' = [order EXCEPT ![a].state = "filled"],
         position' = [position EXCEPT ![s] = IF order[a].side = "buy" THEN @ + order[a].lots ELSE @ - order[a].lots]
  PROVE  order' \in [Approval -> Order] /\ position' \in [Symbol -> Nat]
<1>1. [order[a] EXCEPT !.state = "filled"] \in Order
  BY DEF TypeOK, Order, OrderState
<1>2. order[a].lots \in Nat /\ order[a].side \in {"buy", "sell"} /\ position[s] \in Nat
  BY LotsAssumption DEF TypeOK, Order
<1>3. order' \in [Approval -> Order]
  BY <1>1 DEF TypeOK
<1>4. (IF order[a].side = "buy" THEN position[s] + order[a].lots ELSE position[s] - order[a].lots) \in Nat
  BY <1>2
<1> QED
  BY <1>3, <1>4 DEF TypeOK

\* The rows, orders, positions, leases and workers keep their types.
LEMMA TypeStep == IInv /\ [Next]_vars => TypeOK'
<1> SUFFICES ASSUME IInv, [Next]_vars PROVE TypeOK'
  OBVIOUS
<1> USE LotsAssumption DEF TypeOK, apart
<1>0. TypeOK /\ Held
  BY DEF IInv
<1>1. ASSUME NEW w \in Worker, NEW s \in Symbol, NEW a \in Approval, StartEntry(w, s, a) PROVE TypeOK'
  <2>1. [state |-> "authorized", side |-> "buy", symbol |-> s, lots |-> Lots] \in Order
    BY DEF Order, OrderState
  <2> QED
    BY <1>0, <1>1, <2>1 DEF StartEntry, Begin, PC
<1>2. ASSUME NEW w \in Worker, NEW s \in Symbol, NEW a \in Approval, NEW lots \in 1 .. Lots, StartSale(w, s, a, lots)
      PROVE  TypeOK'
  <2>1. [state |-> "authorized", side |-> "sell", symbol |-> s, lots |-> lots] \in Order
    BY DEF Order, OrderState
  <2> QED
    BY <1>0, <1>2, <2>1 DEF StartSale, Begin, PC
<1>3. ASSUME NEW w \in Worker, NEW s \in Symbol, StartMonitor(w, s) PROVE TypeOK'
  BY <1>0, <1>3 DEF StartMonitor, Begin, PC
<1>4. ASSUME NEW w \in Worker, LookupLifecycle(w) PROVE TypeOK'
  BY <1>0, <1>4 DEF LookupLifecycle, Goto, Return, PC
<1>5. ASSUME NEW w \in Worker, BeginBuyPending(w) \/ AttachBuy(w) \/ MarkSellPending(w) PROVE TypeOK'
  BY <1>0, <1>5 DEF BeginBuyPending, AttachBuy, MarkSellPending, Move, Goto, Return, PC, Status
<1>6. ASSUME NEW w \in Worker, PlaceAccepted(w) \/ PlaceRefused(w) PROVE TypeOK'
  <2>1. under[w] \in Approval
    BY <1>0, <1>6 DEF PlaceAccepted, PlaceRefused, Held, Holding, Session
  <2>2. \A st \in OrderState : [order[under[w]] EXCEPT !.state = st] \in Order
    BY <1>0, <2>1 DEF Order
  <2>3. order' \in [Approval -> Order]
    BY <1>0, <1>6, <2>1, <2>2 DEF PlaceAccepted, PlaceRefused, OrderState
  <2> QED
    BY <1>0, <1>6, <2>3 DEF PlaceAccepted, PlaceRefused, Return, PC
<1>7. ASSUME Outside PROVE TypeOK'
  <2>1. ASSUME NEW s \in Symbol, TradeElsewhere(s) PROVE TypeOK'
    <3>1. PICK held \in 0 .. MaxHeld : /\ position' = [position EXCEPT ![s] = held]
                                       /\ elsewhere' = [elsewhere EXCEPT ![s] = @ + held - position[s]]
      BY <2>1 DEF TradeElsewhere
    <3>2. held \in Nat
      BY HeldAssumption
    <3>3. position' \in [Symbol -> Nat] /\ elsewhere' \in [Symbol -> Int]
      BY <1>0, <3>1, <3>2
    <3>4. [review EXCEPT !.moved = @ \cup {s}] \in
             [pc : {"idle", "compare", "clean"}, held : SUBSET Symbol, rows : SUBSET Symbol,
              moved : SUBSET Symbol, filled : SUBSET Approval]
      BY <1>0
    <3>5. review' = review \/ review' = [review EXCEPT !.moved = @ \cup {s}]
      BY <1>0, <2>1 DEF TradeElsewhere
    <3> QED
      BY <1>0, <2>1, <3>3, <3>4, <3>5 DEF TradeElsewhere
  <2>2. CASE TakeSnapshot
    BY <1>0, <2>2 DEF TakeSnapshot, NoReview, Filled
  <2>3. CASE ComparePositions
    BY <1>0, <2>3 DEF ComparePositions, NoReview, Expected
  <2>4. CASE NextReview
    BY <1>0, <2>4 DEF NextReview, NoReview
  <2> QED
    BY <1>7, <2>1, <2>2, <2>3, <2>4 DEF Outside
<1>8. ASSUME NEW w \in Worker, PlaceFilled(w) PROVE TypeOK'
  <2>1. under[w] \in Approval /\ subject[w] \in Symbol /\ order[under[w]].symbol = subject[w]
    BY <1>0, <1>8 DEF PlaceFilled, Held, Holding, Session
  <2>2. order' \in [Approval -> Order] /\ position' \in [Symbol -> Nat]
    BY <1>0, <1>8, <2>1, FillTypes DEF PlaceFilled
  <2> QED
    BY <1>0, <1>8, <2>2 DEF PlaceFilled, Goto, Return, PC
<1>9. ASSUME NEW a \in Approval, BrokerFills(a) PROVE TypeOK'
  <2>1. order[a].symbol \in Symbol
    BY <1>9 DEF BrokerFills, IInv, Prepared
  <2>2. order' \in [Approval -> Order] /\ position' \in [Symbol -> Nat]
    BY <1>0, <1>9, <2>1, FillTypes DEF BrokerFills
  <2> QED
    BY <1>0, <1>9, <2>2 DEF BrokerFills
<1>10. ASSUME NEW w \in Worker, MarkPositionOpen(w) \/ AcquireLease(w) \/ ReleaseLease(w) \/ Crash(w) PROVE TypeOK'
  BY <1>0, <1>10 DEF MarkPositionOpen, AcquireLease, ReleaseLease, Crash, Goto, Return, PC, Status
<1>11. ASSUME NEW s \in Symbol, BeginResearch(s) \/ LeaseExpires(s) \/ ReportFilledSale(s) PROVE TypeOK'
  BY <1>0, <1>11 DEF BeginResearch, LeaseExpires, ReportFilledSale, Status
<1>12. CASE UNCHANGED vars
  BY <1>0, <1>12 DEF vars
<1> HIDE DEF TypeOK
<1> QED
  BY <1>1, <1>2, <1>3, <1>4, <1>5, <1>6, <1>7, <1>8, <1>9, <1>10, <1>11, <1>12 DEF Next, Steps

\* An approval in a worker's hands changes only by that worker's step.
LEMMA OthersHold ==
  ASSUME TypeOK, NEW w \in Worker, Holding(w), pc'[w] = pc[w], subject'[w] = subject[w], under'[w] = under[w],
         pc[w] \in Session => order'[under[w]] = order[under[w]]
  PROVE  Holding(w)'
  BY DEF Holding, Session

\* A worker that has returned holds nothing.
LEMMA ReturnedHolds ==
  ASSUME TypeOK, NEW w \in Worker, Return(w)
  PROVE  Holding(w)' /\ pc'[w] = "idle"
  BY DEF TypeOK, Return, Holding, Session

LEMMA HeldStep == IInv /\ [Next]_vars => Held' /\ Distinct' /\ Prepared'
<1> SUFFICES ASSUME IInv, [Next]_vars PROVE Held' /\ Distinct' /\ Prepared'
  OBVIOUS
<1>0. TypeOK /\ Held /\ Distinct /\ Prepared
  BY DEF IInv
\* Only the approval `a` and the worker `w` change.
<1>a. ASSUME NEW w \in Worker, NEW a \in Approval,
             \A v \in Worker \ {w} : pc'[v] = pc[v] /\ subject'[v] = subject[v] /\ under'[v] = under[v],
             \A b \in Approval \ {a} : order'[b] = order[b],
             \A v \in Worker \ {w} : pc[v] \in Session => under[v] # a,
             Holding(w)', pc'[w] \in Session => under'[w] = a,
             order'[a].state # "unused" =>
                order'[a].symbol \in Symbol /\ (order'[a].side = "buy" => order'[a].lots = Lots)
      PROVE  Held' /\ Distinct' /\ Prepared'
  <2>1. \A v \in Worker \ {w} : Holding(v)'
    <3> SUFFICES ASSUME NEW v \in Worker \ {w} PROVE Holding(v)'
      OBVIOUS
    <3>1. Holding(v) /\ (pc[v] \in Session => under[v] \in Approval \ {a})
      BY <1>0, <1>a DEF Held, Holding
    <3> QED
      BY <1>0, <1>a, <3>1, OthersHold
  <2>2. Distinct'
    BY <1>0, <1>a DEF Distinct
  <2>3. Prepared'
    BY <1>0, <1>a DEF Prepared
  <2> QED
    BY <1>a, <2>1, <2>2, <2>3 DEF Held
\* No approval changes, and only the worker `w`, which keeps its approval if any.
<1>b. ASSUME NEW w \in Worker, order' = order,
             \A v \in Worker \ {w} : pc'[v] = pc[v] /\ subject'[v] = subject[v] /\ under'[v] = under[v],
             Holding(w)', pc'[w] \in Session => pc[w] \in Session /\ under'[w] = under[w]
      PROVE  Held' /\ Distinct' /\ Prepared'
  <2>1. \A v \in Worker \ {w} : Holding(v)'
    BY <1>0, <1>b, OthersHold DEF Held
  <2> QED
    BY <1>0, <1>b, <2>1 DEF Held, Distinct, Prepared
<1>1. ASSUME NEW w \in Worker, NEW s \in Symbol, NEW a \in Approval,
             StartEntry(w, s, a) \/ \E lots \in 1 .. Lots : StartSale(w, s, a, lots)
      PROVE  Held' /\ Distinct' /\ Prepared'
  <2>1. \A v \in Worker : pc[v] \in Session => under[v] # a
    BY <1>0, <1>1 DEF StartEntry, StartSale, NoOrder, Held, Holding, Session
  <2>2. /\ order' = [order EXCEPT ![a] = order'[a]] /\ order'[a].state = "authorized" /\ order'[a].symbol = s
        /\ order'[a].side = "buy" => order'[a].lots = Lots
        /\ \/ order'[a].side = "buy" /\ pc'[w] = "lookup"
           \/ order'[a].side = "sell" /\ pc'[w] = "pend"
        /\ subject'[w] = s /\ under'[w] = a
    BY <1>0, <1>1 DEF StartEntry, StartSale, Begin, TypeOK
  <2>3. Holding(w)'
    BY <2>2 DEF Holding, Session
  <2>4. \A v \in Worker \ {w} : pc'[v] = pc[v] /\ subject'[v] = subject[v] /\ under'[v] = under[v]
    BY <1>0, <1>1 DEF StartEntry, StartSale, Begin, TypeOK
  <2>5. \A b \in Approval \ {a} : order'[b] = order[b]
    BY <1>0, <1>1 DEF StartEntry, StartSale, TypeOK
  <2> QED
    BY <1>a, <2>1, <2>2, <2>3, <2>4, <2>5
<1>2. ASSUME NEW w \in Worker, NEW s \in Symbol, StartMonitor(w, s) PROVE Held' /\ Distinct' /\ Prepared'
  <2>1. order' = order /\ \A v \in Worker \ {w} : pc'[v] = pc[v] /\ subject'[v] = subject[v] /\ under'[v] = under[v]
    BY <1>0, <1>2 DEF StartMonitor, Begin, TypeOK
  <2>2. pc'[w] = "lease" /\ subject'[w] = s
    BY <1>0, <1>2 DEF StartMonitor, Begin, TypeOK
  <2> QED
    BY <1>b, <2>1, <2>2 DEF Holding, Session
<1>3. ASSUME NEW w \in Worker, LookupLifecycle(w) \/ BeginBuyPending(w) \/ AttachBuy(w) \/ MarkSellPending(w)
      PROVE  Held' /\ Distinct' /\ Prepared'
  <2>1. order' = order /\ \A v \in Worker \ {w} : pc'[v] = pc[v] /\ subject'[v] = subject[v] /\ under'[v] = under[v]
    BY <1>0, <1>3 DEF LookupLifecycle, BeginBuyPending, AttachBuy, MarkSellPending, Move, Goto, Return, TypeOK
  <2>2. \/ Return(w)
        \/ /\ subject' = subject /\ under' = under
           /\ \/ pc[w] = "lookup" /\ pc'[w] \in {"begin", "attach"}
              \/ pc[w] \in {"begin", "attach", "pend"} /\ pc'[w] = "place"
    BY <1>0, <1>3 DEF LookupLifecycle, BeginBuyPending, AttachBuy, MarkSellPending, Move, Goto, TypeOK
  <2>3. CASE Return(w)
    BY <1>0, <1>b, <2>1, <2>3, ReturnedHolds DEF Session
  <2>4. CASE ~Return(w)
    <3>1. Holding(w)'
      BY <1>0, <2>1, <2>2, <2>4 DEF Held, Holding, Session
    <3> QED
      BY <1>b, <2>1, <2>2, <2>4, <3>1 DEF Session
  <2> QED
    BY <2>3, <2>4
<1>4. ASSUME NEW w \in Worker, PlaceFilled(w) \/ PlaceAccepted(w) \/ PlaceRefused(w) PROVE Held' /\ Distinct' /\ Prepared'
  <2> DEFINE a == under[w]
  <2>1. /\ pc[w] = "place" /\ a \in Approval /\ order[a].symbol = subject[w] /\ subject[w] \in Symbol
        /\ order[a].state = "authorized"
    BY <1>0, <1>4 DEF PlaceFilled, PlaceAccepted, PlaceRefused, Held, Holding, Session
  <2>2. \A v \in Worker \ {w} : pc[v] \in Session => under[v] # a
    BY <1>0, <2>1 DEF Distinct, Session
  <2>3. \A v \in Worker \ {w} : pc'[v] = pc[v] /\ subject'[v] = subject[v] /\ under'[v] = under[v]
    BY <1>0, <1>4 DEF PlaceFilled, PlaceAccepted, PlaceRefused, Goto, Return, TypeOK
  <2>4. /\ \A b \in Approval \ {a} : order'[b] = order[b]
        /\ order'[a].symbol = order[a].symbol /\ order'[a].side = order[a].side /\ order'[a].lots = order[a].lots
        /\ PlaceFilled(w) => order'[a].state = "filled"
    BY <1>0, <1>4, <2>1 DEF PlaceFilled, PlaceAccepted, PlaceRefused, TypeOK, Order
  <2>5. \/ Return(w)
        \/ PlaceFilled(w) /\ order[a].side = "buy" /\ pc'[w] = "mark" /\ subject' = subject /\ under' = under
    BY <1>0, <1>4 DEF PlaceFilled, PlaceAccepted, PlaceRefused, Goto, TypeOK
  <2>6. Holding(w)' /\ (pc'[w] \in Session => under'[w] = a)
    <3>1. CASE Return(w)
      BY <1>0, <3>1, ReturnedHolds DEF Session
    <3>2. CASE ~Return(w)
      BY <2>1, <2>4, <2>5, <3>2 DEF Holding, Session
    <3> QED
      BY <3>1, <3>2
  <2>7. order[a].side = "buy" => order[a].lots = Lots
    BY <1>0, <2>1 DEF Prepared
  <2> HIDE DEF a
  <2>8. a \in Approval
    BY <2>1
  <2> QED
    BY <1>a, <2>1, <2>2, <2>3, <2>4, <2>6, <2>7, <2>8
<1>5. ASSUME NEW a \in Approval, BrokerFills(a) PROVE Held' /\ Distinct' /\ Prepared'
  <2>1. /\ \A b \in Approval \ {a} : order'[b] = order[b]
        /\ order'[a].symbol = order[a].symbol /\ order'[a].side = order[a].side /\ order'[a].lots = order[a].lots
        /\ order[a].state = "live" /\ pc' = pc /\ subject' = subject /\ under' = under
    BY <1>0, <1>5 DEF BrokerFills, TypeOK, Order
  <2>2. \A v \in Worker : pc[v] \in Session => under[v] \in Approval \ {a}
    BY <1>0, <2>1 DEF Held, Holding, Session
  <2>3. Held'
    BY <1>0, <2>1, <2>2, OthersHold DEF Held
  <2>4. Prepared'
    BY <1>0, <2>1 DEF Prepared
  <2> QED
    BY <1>0, <2>1, <2>3, <2>4 DEF Distinct
<1>6. ASSUME NEW w \in Worker, MarkPositionOpen(w) \/ AcquireLease(w) \/ ReleaseLease(w) \/ Crash(w)
      PROVE  Held' /\ Distinct' /\ Prepared'
  <2>1. order' = order /\ \A v \in Worker \ {w} : pc'[v] = pc[v] /\ subject'[v] = subject[v] /\ under'[v] = under[v]
    BY <1>0, <1>6 DEF MarkPositionOpen, AcquireLease, ReleaseLease, Crash, Goto, Return, TypeOK
  <2>2. Return(w) \/ (pc[w] = "lease" /\ pc'[w] = "evaluate" /\ subject' = subject)
    BY <1>0, <1>6 DEF MarkPositionOpen, AcquireLease, ReleaseLease, Crash, Goto, TypeOK
  <2>3. Holding(w)' /\ pc'[w] \notin Session
    <3>1. CASE Return(w)
      BY <1>0, <3>1, ReturnedHolds DEF Session
    <3>2. CASE ~Return(w)
      BY <1>0, <2>2, <3>2 DEF Held, Holding, Session
    <3> QED
      BY <3>1, <3>2
  <2> QED
    BY <1>b, <2>1, <2>3
<1>7. ASSUME order' = order /\ pc' = pc /\ subject' = subject /\ under' = under PROVE Held' /\ Distinct' /\ Prepared'
  BY <1>0, <1>7 DEF Held, Holding, Distinct, Prepared
<1>8. ASSUME NEW s \in Symbol, BeginResearch(s) \/ LeaseExpires(s) \/ ReportFilledSale(s)
      PROVE  Held' /\ Distinct' /\ Prepared'
  BY <1>7, <1>8 DEF BeginResearch, LeaseExpires, ReportFilledSale
<1>9. CASE UNCHANGED vars
  BY <1>7, <1>9 DEF vars
<1>10. CASE Outside
  BY <1>7, <1>10, OutsideRests
<1> QED
  BY <1>1, <1>2, <1>3, <1>4, <1>5, <1>6, <1>8, <1>9, <1>10 DEF Next, Steps

-----------------------------------------------------------------------------
\* Claims: only a conditional update that succeeds hands one out.

\* The row of a symbol moves forward only.
Forward(s) == \/ status'[s] = status[s]
              \/ status[s] = "none" /\ status'[s] = "research"
              \/ status[s] = "buy_pending" /\ status'[s] = "open"
              \/ status[s] = "sell_pending" /\ status'[s] = "closed"

\* No claim is new.
Shrinks == \A s \in Symbol, side \in {"buy", "sell"}, a \in Approval : Claim(a, s, side)' => Claim(a, s, side)

LEMMA ShrinkKeeps ==
  ASSUME OneClaim, RowKnows, Shrinks, \A s \in Symbol : Forward(s)
  PROVE  OneClaim' /\ RowKnows'
<1>1. OneClaim'
  BY DEF OneClaim, Shrinks
<1>2. RowKnows'
  <2> SUFFICES ASSUME NEW s \in Symbol, NEW a \in Approval
               PROVE  /\ Claim(a, s, "buy")' => status'[s] \notin {"none", "research"}
                      /\ Claim(a, s, "sell")' => status'[s] \in {"sell_pending", "closed"}
    BY DEF RowKnows
  <2>1. Forward(s)
    OBVIOUS
  <2> QED
    BY <2>1 DEF RowKnows, Shrinks, Forward
<1> QED
  BY <1>1, <1>2

\* An approval claims nothing new if it is not sent anew and nobody new is about to place it.
LEMMA NoNewClaim ==
  ASSUME NEW a \in Approval, NEW s \in Symbol, NEW side \in {"buy", "sell"}, Claim(a, s, side)',
         order'[a].symbol = order[a].symbol, order'[a].side = order[a].side,
         Sent(a)' => Sent(a) \/ \E w \in Worker : pc[w] = "place" /\ under[w] = a,
         \A w \in Worker : pc'[w] = "place" => pc[w] = "place" /\ under'[w] = under[w]
  PROVE  Claim(a, s, side)
  BY DEF Claim

LEMMA ClaimStep == IInv /\ [Next]_vars => OneClaim' /\ RowKnows'
<1> SUFFICES ASSUME IInv, [Next]_vars PROVE OneClaim' /\ RowKnows'
  OBVIOUS
<1>0. TypeOK /\ Held /\ Distinct /\ OneClaim /\ RowKnows
  BY DEF IInv
\* A session whose update succeeds is handed the claim.
<1>1. ASSUME NEW w \in Worker, BeginBuyPending(w) \/ AttachBuy(w) \/ MarkSellPending(w), status' # status
      PROVE  OneClaim' /\ RowKnows'
  <2>0. PICK t \in Symbol, b \in Approval : t = subject[w] /\ b = under[w]
    BY <1>0, <1>1 DEF BeginBuyPending, AttachBuy, MarkSellPending, Held, Holding, Session
  <2>1. PICK turn \in {"buy", "sell"} :
          /\ order[b].side = turn
          /\ turn = "buy" => status[t] \in {"none", "research"} /\ status'[t] = "buy_pending"
          /\ turn = "sell" => status[t] = "open" /\ status'[t] = "sell_pending"
    <3>1. CASE BeginBuyPending(w) \/ AttachBuy(w)
      BY <1>0, <1>1, <2>0, <3>1 DEF BeginBuyPending, AttachBuy, Move, Held, Holding, TypeOK
    <3>2. CASE MarkSellPending(w)
      BY <1>0, <1>1, <2>0, <3>2 DEF MarkSellPending, Move, Held, Holding, TypeOK
    <3> QED
      BY <1>1, <3>1, <3>2
  <2>2. /\ order' = order /\ under' = under /\ pc' = [pc EXCEPT ![w] = "place"]
        /\ \A s \in Symbol \ {t} : status'[s] = status[s]
    BY <1>0, <1>1, <2>0 DEF BeginBuyPending, AttachBuy, MarkSellPending, Move, Goto, TypeOK
  <2>3. \A s \in Symbol, side \in {"buy", "sell"}, a \in Approval :
            Claim(a, s, side)' => Claim(a, s, side) \/ (a = b /\ s = t /\ side = turn)
    <3> SUFFICES ASSUME NEW s \in Symbol, NEW side \in {"buy", "sell"}, NEW a \in Approval, Claim(a, s, side)', a # b
                 PROVE  Claim(a, s, side)
      <4>1. order[b].symbol = t /\ order[b].side = turn
        BY <1>0, <1>1, <2>0, <2>1 DEF BeginBuyPending, AttachBuy, MarkSellPending, Held, Holding, Session
      <4> QED
        BY <2>2, <4>1 DEF Claim
    <3>1. \A v \in Worker : pc'[v] = "place" /\ under'[v] = a => pc[v] = "place" /\ under[v] = a
      BY <1>0, <2>0, <2>2 DEF TypeOK
    <3> QED
      BY <2>2, <3>1 DEF Claim, Sent
  <2>4. \A a \in Approval : ~Claim(a, t, turn)
    BY <1>0, <2>1 DEF RowKnows
  <2>5. OneClaim'
    BY <1>0, <2>3, <2>4 DEF OneClaim
  <2>6. ASSUME NEW s \in Symbol, NEW a \in Approval
        PROVE  /\ Claim(a, s, "buy")' => status'[s] \notin {"none", "research"}
               /\ Claim(a, s, "sell")' => status'[s] \in {"sell_pending", "closed"}
    <3>1. CASE s # t
      BY <1>0, <2>2, <2>3, <3>1 DEF RowKnows
    <3>2. CASE s = t /\ turn = "buy"
      BY <1>0, <2>1, <2>3, <3>2 DEF RowKnows
    <3>3. CASE s = t /\ turn = "sell"
      BY <1>0, <2>1, <2>3, <3>3 DEF RowKnows
    <3> QED
      BY <3>1, <3>2, <3>3
  <2> QED
    BY <2>5, <2>6 DEF RowKnows
\* Every other step hands out none.
<1>2. ASSUME NEW w \in Worker, BeginBuyPending(w) \/ AttachBuy(w) \/ MarkSellPending(w), status' = status
      PROVE  Shrinks /\ \A s \in Symbol : Forward(s)
  <2>1. order' = order /\ \A v \in Worker : pc'[v] = "place" => pc[v] = "place" /\ under'[v] = under[v]
    <3>1. subject[w] \in Symbol
      BY <1>0, <1>2 DEF BeginBuyPending, AttachBuy, MarkSellPending, Held, Holding
    <3>2. Return(w)
      BY <1>0, <1>2, <3>1 DEF BeginBuyPending, AttachBuy, MarkSellPending, Move, TypeOK
    <3> QED
      BY <1>0, <1>2, <3>2 DEF BeginBuyPending, AttachBuy, MarkSellPending, Move, Return, TypeOK
  <2> QED
    BY <1>2, <2>1, NoNewClaim DEF Shrinks, Sent, Forward
<1>3. ASSUME NEW w \in Worker, NEW s \in Symbol, NEW a \in Approval,
             StartEntry(w, s, a) \/ \E lots \in 1 .. Lots : StartSale(w, s, a, lots)
      PROVE  Shrinks /\ \A q \in Symbol : Forward(q)
  <2>1. /\ order[a].state = "unused" /\ order'[a].state = "authorized" /\ status' = status
        /\ \A b \in Approval \ {a} : order'[b] = order[b]
        /\ \A v \in Worker : pc'[v] = "place" => pc[v] = "place" /\ under'[v] = under[v]
    BY <1>0, <1>3 DEF StartEntry, StartSale, Begin, NoOrder, TypeOK
  <2>2. \A v \in Worker : pc'[v] = "place" => under'[v] # a
    BY <1>0, <2>1 DEF Held, Holding, Session
  <2>3. \A q \in Symbol, side \in {"buy", "sell"} : ~Claim(a, q, side)'
    BY <2>1, <2>2 DEF Claim, Sent
  <2> QED
    BY <2>1, <2>3, NoNewClaim DEF Shrinks, Sent, Forward
<1>4. ASSUME NEW w \in Worker, PlaceFilled(w) \/ PlaceAccepted(w) \/ PlaceRefused(w)
      PROVE  Shrinks /\ \A s \in Symbol : Forward(s)
  <2>0. PICK a \in Approval : a = under[w] /\ pc[w] = "place"
    BY <1>0, <1>4 DEF PlaceFilled, PlaceAccepted, PlaceRefused, Held, Holding, Session
  <2>1. /\ \A b \in Approval \ {a} : order'[b] = order[b]
        /\ order'[a].symbol = order[a].symbol /\ order'[a].side = order[a].side /\ status' = status
        /\ \A v \in Worker : pc'[v] = "place" => pc[v] = "place" /\ under'[v] = under[v]
    BY <1>0, <1>4, <2>0 DEF PlaceFilled, PlaceAccepted, PlaceRefused, Goto, Return, TypeOK, Order
  <2>2. \A b \in Approval : Sent(b)' => Sent(b) \/ \E v \in Worker : pc[v] = "place" /\ under[v] = b
    BY <2>0, <2>1 DEF Sent
  <2> QED
    BY <2>1, <2>2, NoNewClaim DEF Shrinks, Forward
<1>5. ASSUME NEW a \in Approval, BrokerFills(a) PROVE Shrinks /\ \A s \in Symbol : Forward(s)
  <2>1. /\ \A b \in Approval \ {a} : order'[b] = order[b]
        /\ order'[a].symbol = order[a].symbol /\ order'[a].side = order[a].side /\ order[a].state = "live"
        /\ status' = status /\ pc' = pc /\ under' = under
    BY <1>0, <1>5 DEF BrokerFills, TypeOK, Order
  <2>2. \A b \in Approval : Sent(b)' => Sent(b)
    BY <2>1 DEF Sent
  <2> QED
    BY <2>1, <2>2, NoNewClaim DEF Shrinks, Forward
<1>6. ASSUME NEW w \in Worker,
             \/ \E s \in Symbol : StartMonitor(w, s)
             \/ LookupLifecycle(w) \/ MarkPositionOpen(w) \/ AcquireLease(w) \/ ReleaseLease(w) \/ Crash(w)
      PROVE  Shrinks /\ \A s \in Symbol : Forward(s)
  <2>1. order' = order /\ \A v \in Worker : pc'[v] = "place" => pc[v] = "place" /\ under'[v] = under[v]
    BY <1>0, <1>6 DEF StartMonitor, LookupLifecycle, MarkPositionOpen, AcquireLease, ReleaseLease, Crash,
                      Begin, Goto, Return, TypeOK
  <2>2. \A s \in Symbol : Forward(s)
    BY <1>0, <1>6 DEF StartMonitor, LookupLifecycle, MarkPositionOpen, AcquireLease, ReleaseLease, Crash, Forward, TypeOK
  <2> QED
    BY <2>1, <2>2, NoNewClaim DEF Shrinks, Sent
<1>7. ASSUME NEW s \in Symbol, BeginResearch(s) \/ LeaseExpires(s) \/ ReportFilledSale(s)
      PROVE  Shrinks /\ \A q \in Symbol : Forward(q)
  <2>1. order' = order /\ pc' = pc /\ under' = under
    BY <1>7 DEF BeginResearch, LeaseExpires, ReportFilledSale
  <2>2. \A q \in Symbol : Forward(q)
    BY <1>0, <1>7 DEF BeginResearch, LeaseExpires, ReportFilledSale, Forward, TypeOK
  <2> QED
    BY <2>1, <2>2, NoNewClaim DEF Shrinks, Sent
<1>8. ASSUME UNCHANGED vars \/ Outside PROVE OneClaim' /\ RowKnows'
  <2>1. order' = order /\ pc' = pc /\ under' = under /\ status' = status
    BY <1>8, OutsideRests DEF vars
  <2> QED
    BY <1>0, <2>1, NoNewClaim, ShrinkKeeps DEF Shrinks, Sent, Forward
<1> QED
  BY <1>0, <1>1, <1>2, <1>3, <1>4, <1>5, <1>6, <1>7, <1>8, ShrinkKeeps DEF Next, Steps

-----------------------------------------------------------------------------
\* Positions.

LEMMA SameBooks ==
  ASSUME TypeOK, Backed, position' = position, elsewhere' = elsewhere,
         \A s \in Symbol : /\ Bought(s)' <=> Bought(s)
                           /\ Orders(s, "sell") \subseteq Orders(s, "sell")'
                           /\ status'[s] = "open" => status[s] = "open" \/ Bought(s)
  PROVE  Backed'
<1> SUFFICES ASSUME NEW s \in Symbol
             PROVE  /\ status'[s] = "open" => Bought(s)'
                    /\ ~Bought(s)' /\ Orders(s, "sell")' = {} => position'[s] = elsewhere'[s]
                    /\ Bought(s)' /\ Orders(s, "sell")' = {} => position'[s] = Lots + elsewhere'[s]
  BY DEF Backed
<1>1. Orders(s, "sell")' = {} => Orders(s, "sell") = {}
  OBVIOUS
<1> QED
  BY <1>1 DEF Backed

\* An order is filled, when it is placed or later.
LEMMA FillBacks ==
  ASSUME IInv, status' = status, elsewhere' = elsewhere, NEW a \in Approval, NEW s \in Symbol, order[a].symbol = s,
         order[a].state \in {"authorized", "live"}, order[a].side = "buy" => Claim(a, s, "buy"),
         order[a].side = "sell" => order[a].lots <= position[s],
         order' = [order EXCEPT ![a].state = "filled"],
         position' = [position EXCEPT ![s] = IF order[a].side = "buy" THEN @ + order[a].lots ELSE @ - order[a].lots]
  PROVE  Backed'
<1>1. TypeOK /\ Backed /\ OneClaim /\ Prepared
  BY DEF IInv
<1>2. /\ order[a].side \in {"buy", "sell"} /\ order[a].lots \in 0 .. Lots /\ position[s] \in Nat
      /\ \A q \in Symbol \ {s} : position'[q] = position[q]
      /\ \A b \in Approval \ {a} : order'[b] = order[b]
      /\ order'[a].state = "filled" /\ order'[a].side = order[a].side /\ order'[a].symbol = s
  BY <1>1 DEF TypeOK, Order
<1>3. ASSUME NEW q \in Symbol PROVE Orders(q, "sell")' = {} => Orders(q, "sell") = {}
  BY <1>2 DEF Orders, Sent
<1>4. \A q \in Symbol \ {s} : Bought(q)' <=> Bought(q)
  BY <1>2 DEF Bought
<1>5. ASSUME NEW q \in Symbol \ {s}
      PROVE  /\ status'[q] = "open" => Bought(q)'
             /\ ~Bought(q)' /\ Orders(q, "sell")' = {} => position'[q] = elsewhere'[q]
             /\ Bought(q)' /\ Orders(q, "sell")' = {} => position'[q] = Lots + elsewhere'[q]
  BY <1>1, <1>2, <1>3, <1>4 DEF Backed
<1>6. /\ status'[s] = "open" => Bought(s)'
      /\ ~Bought(s)' /\ Orders(s, "sell")' = {} => position'[s] = elsewhere'[s]
      /\ Bought(s)' /\ Orders(s, "sell")' = {} => position'[s] = Lots + elsewhere'[s]
  <2>1. CASE order[a].side = "buy"
    <3>1. ~Bought(s)
      <4>1. \A b \in Approval : order[b].state = "filled" /\ order[b].side = "buy" /\ order[b].symbol = s => Claim(b, s, "buy")
        BY DEF Claim, Sent
      <4>2. \A b \in Approval : Claim(b, s, "buy") => a = b
        BY <1>1, <2>1 DEF OneClaim
      <4>3. order[a].state # "filled"
        OBVIOUS
      <4> QED
        BY <4>1, <4>2, <4>3 DEF Bought
    <3>2. Orders(s, "sell")' = {} => position[s] = elsewhere[s]
      BY <1>1, <1>3, <3>1 DEF Backed
    <3>3. position'[s] = position[s] + Lots
      BY <1>1, <2>1 DEF TypeOK, Prepared
    <3>4. Bought(s)'
      BY <1>2, <2>1 DEF Bought
    <3> QED
      BY <1>1, <3>2, <3>3, <3>4, LotsAssumption DEF TypeOK
  <2>2. CASE order[a].side = "sell"
    <3>1. a \in Orders(s, "sell")'
      BY <1>2, <2>2 DEF Orders, Sent
    <3>2. Bought(s)' <=> Bought(s)
      BY <1>2, <2>2 DEF Bought
    <3> QED
      BY <1>1, <3>1, <3>2 DEF Backed
  <2> QED
    BY <1>2, <2>1, <2>2
<1> QED
  BY <1>5, <1>6 DEF Backed

LEMMA BackedStep == IInv /\ [Next]_vars => Backed'
<1> SUFFICES ASSUME IInv, [Next]_vars PROVE Backed'
  OBVIOUS
<1>0. TypeOK /\ Held /\ Backed /\ Prepared
  BY DEF IInv
<1>a. Steps \/ (\E w \in Worker : Crash(w)) => elsewhere' = elsewhere
  BY InsideRests
<1>1. ASSUME elsewhere' = elsewhere, NEW w \in Worker, NEW s \in Symbol, NEW a \in Approval,
             StartEntry(w, s, a) \/ \E lots \in 1 .. Lots : StartSale(w, s, a, lots)
      PROVE  Backed'
  <2>1. /\ order[a].state = "unused" /\ order'[a].state = "authorized" /\ status' = status /\ position' = position
        /\ \A b \in Approval \ {a} : order'[b] = order[b]
    BY <1>0, <1>1 DEF StartEntry, StartSale, NoOrder, TypeOK
  <2>2. \A q \in Symbol : (Bought(q)' <=> Bought(q)) /\ Orders(q, "sell") \subseteq Orders(q, "sell")'
    BY <2>1 DEF Bought, Orders, Sent
  <2> QED
    BY <1>0, <1>1, <2>1, <2>2, SameBooks
<1>2. ASSUME elsewhere' = elsewhere, NEW w \in Worker, PlaceAccepted(w) \/ PlaceRefused(w) PROVE Backed'
  <2>0. PICK a \in Approval : a = under[w] /\ order[a].state = "authorized"
    BY <1>0, <1>2 DEF PlaceAccepted, PlaceRefused, Held, Holding, Session
  <2>1. /\ order'[a].state \in {"live", "dead"} /\ status' = status /\ position' = position
        /\ \A b \in Approval \ {a} : order'[b] = order[b]
    BY <1>0, <1>2, <2>0 DEF PlaceAccepted, PlaceRefused, TypeOK, Order
  <2>2. \A q \in Symbol : (Bought(q)' <=> Bought(q)) /\ Orders(q, "sell") \subseteq Orders(q, "sell")'
    BY <2>0, <2>1 DEF Bought, Orders, Sent
  <2> QED
    BY <1>0, <1>2, <2>1, <2>2, SameBooks
<1>3. ASSUME elsewhere' = elsewhere, NEW w \in Worker, PlaceFilled(w) PROVE Backed'
  <2>1. PICK a \in Approval, s \in Symbol : /\ a = under[w] /\ s = subject[w] /\ order[a].state = "authorized"
                                            /\ order[a].symbol = s /\ pc[w] = "place"
    BY <1>0, <1>3 DEF PlaceFilled, Held, Holding, Session
  <2>2. order[a].side = "buy" => Claim(a, s, "buy")
    BY <2>1 DEF Claim
  <2> QED
    BY <1>3, <2>1, <2>2, FillBacks DEF PlaceFilled
<1>4. ASSUME elsewhere' = elsewhere, NEW a \in Approval, BrokerFills(a) PROVE Backed'
  <2>1. order[a].symbol \in Symbol /\ order[a].state = "live"
    BY <1>0, <1>4 DEF BrokerFills, Prepared
  <2>2. order[a].side = "buy" => Claim(a, order[a].symbol, "buy")
    BY <2>1 DEF Claim, Sent
  <2>3. PICK s \in Symbol : order[a].symbol = s
    BY <2>1
  <2> QED
    BY <1>4, <2>1, <2>2, <2>3, FillBacks DEF BrokerFills
<1>5. ASSUME elsewhere' = elsewhere, order' = order, position' = position, \A s \in Symbol : status'[s] = "open" => status[s] = "open" \/ Bought(s)
      PROVE  Backed'
  <2>1. \A q \in Symbol : (Bought(q)' <=> Bought(q)) /\ Orders(q, "sell") \subseteq Orders(q, "sell")'
    BY <1>5 DEF Bought, Orders, Sent
  <2> QED
    BY <1>0, <1>5, <2>1, SameBooks
<1>6. ASSUME elsewhere' = elsewhere, NEW w \in Worker, MarkPositionOpen(w) PROVE Backed'
  <2>1. PICK a \in Approval : a = under[w] /\ order[a].state = "filled" /\ order[a].side = "buy" /\ order[a].symbol = subject[w]
    BY <1>0, <1>6 DEF MarkPositionOpen, Held, Holding, Session
  <2>2. Bought(subject[w])
    BY <2>1 DEF Bought
  <2>3. \A s \in Symbol \ {subject[w]} : status'[s] = status[s]
    BY <1>0, <1>6 DEF MarkPositionOpen, TypeOK
  <2> QED
    BY <1>5, <1>6, <2>2, <2>3 DEF MarkPositionOpen
<1>7. ASSUME elsewhere' = elsewhere, NEW w \in Worker,
             \/ \E s \in Symbol : StartMonitor(w, s)
             \/ LookupLifecycle(w) \/ BeginBuyPending(w) \/ AttachBuy(w) \/ MarkSellPending(w)
             \/ AcquireLease(w) \/ ReleaseLease(w) \/ Crash(w)
      PROVE  Backed'
  <2>1. order' = order /\ position' = position
    BY <1>7 DEF StartMonitor, LookupLifecycle, BeginBuyPending, AttachBuy, MarkSellPending, Move, AcquireLease,
                ReleaseLease, Crash
  <2>2. \A s \in Symbol : status'[s] = "open" => status[s] = "open"
    BY <1>0, <1>7 DEF StartMonitor, LookupLifecycle, BeginBuyPending, AttachBuy, MarkSellPending, Move, AcquireLease,
                ReleaseLease, Crash, TypeOK
  <2> QED
    BY <1>5, <1>7, <2>1, <2>2
<1>8. ASSUME elsewhere' = elsewhere, NEW s \in Symbol, BeginResearch(s) \/ LeaseExpires(s) \/ ReportFilledSale(s)
      PROVE  Backed'
  <2>1. order' = order /\ position' = position
    BY <1>8 DEF BeginResearch, LeaseExpires, ReportFilledSale
  <2>2. \A q \in Symbol : status'[q] = "open" => status[q] = "open"
    BY <1>0, <1>8 DEF BeginResearch, LeaseExpires, ReportFilledSale, TypeOK
  <2> QED
    BY <1>5, <1>8, <2>1, <2>2
<1>9. CASE UNCHANGED vars
  BY <1>5, <1>9 DEF vars
\* Another flow moves the position and the account of it alike.
<1>10. CASE Outside
  <2>1. status' = status /\ order' = order
    BY <1>10, OutsideRests
  <2>2. \A q \in Symbol : (Bought(q)' <=> Bought(q)) /\ Orders(q, "sell")' = Orders(q, "sell")
    BY <2>1 DEF Bought, Orders, Sent
  <2>3. \A q \in Symbol : position'[q] - elsewhere'[q] = position[q] - elsewhere[q]
    <3>1. CASE TakeSnapshot \/ ComparePositions \/ NextReview
      BY <3>1 DEF TakeSnapshot, ComparePositions, NextReview
    <3>2. ASSUME NEW s \in Symbol, TradeElsewhere(s)
          PROVE  \A q \in Symbol : position'[q] - elsewhere'[q] = position[q] - elsewhere[q]
      <4>1. PICK held \in 0 .. MaxHeld : /\ position' = [position EXCEPT ![s] = held]
                                         /\ elsewhere' = [elsewhere EXCEPT ![s] = @ + held - position[s]]
        BY <3>2 DEF TradeElsewhere
      <4>2. held \in Int /\ position[s] \in Int /\ elsewhere[s] \in Int
        BY <1>0, HeldAssumption DEF TypeOK
      <4>3. ASSUME NEW q \in Symbol PROVE position'[q] - elsewhere'[q] = position[q] - elsewhere[q]
        <5>1. CASE q = s
          <6>1. position'[q] = held /\ elsewhere'[q] = elsewhere[s] + held - position[s]
            BY <1>0, <4>1, <5>1 DEF TypeOK
          <6> QED
            BY <4>2, <5>1, <6>1
        <5>2. CASE q # s
          BY <1>0, <4>1, <5>2 DEF TypeOK
        <5> QED
          BY <5>1, <5>2
      <4> QED
        BY <4>3
    <3> QED
      BY <1>10, <3>1, <3>2 DEF Outside
  <2>4. \A q \in Symbol : /\ position[q] \in Int /\ elsewhere[q] \in Int
                          /\ position'[q] \in Int /\ elsewhere'[q] \in Int
    BY <1>0, TypeStep DEF TypeOK
  <2>5. Lots \in Int
    BY LotsAssumption
  <2>6. ASSUME NEW q \in Symbol
        PROVE  /\ status'[q] = "open" => Bought(q)'
               /\ ~Bought(q)' /\ Orders(q, "sell")' = {} => position'[q] = elsewhere'[q]
               /\ Bought(q)' /\ Orders(q, "sell")' = {} => position'[q] = Lots + elsewhere'[q]
    BY <1>0, <2>1, <2>2, <2>3, <2>4, <2>5 DEF Backed
  <2> QED
    BY <2>6 DEF Backed
<1> QED
  BY <1>a, <1>1, <1>2, <1>3, <1>4, <1>6, <1>7, <1>8, <1>9, <1>10 DEF Next, Steps

-----------------------------------------------------------------------------
\* The drift check.

\* What was seen of a symbol still holds of it.
LEMMA SeenKept ==
  ASSUME NEW s \in Symbol, Seen(s), review'.held = review.held, review'.filled = review.filled,
         Orders(s, "sell") \subseteq Orders(s, "sell")', Orders(s, "buy") \subseteq Orders(s, "buy")', Filled \subseteq Filled',
         position[s] > 0 /\ Orders(s, "sell")' = {} => position'[s] > 0,
         position'[s] > 0 => \/ position[s] > 0
                             \/ \E a \in Orders(s, "buy")' : a \in Filled' \ Filled,
         review.filled \subseteq Filled
  PROVE  Seen(s)'
<1>1. s \in review'.held /\ Orders(s, "sell")' = {} => position'[s] > 0
  BY DEF Seen
<1>2. ASSUME s \notin review'.held, position'[s] > 0 PROVE Orders(s, "buy")' \cap (Filled' \ review'.filled) # {}
  BY <1>2 DEF Seen
<1> QED
  BY <1>1, <1>2 DEF Seen

\* Nothing about the review changes.
LEMMA ReviewKept ==
  ASSUME Reviewed, review' = review, Filled \subseteq Filled',
         \A s \in Symbol \ review.moved : Seen(s) => Seen(s)'
  PROVE  Reviewed'
  BY DEF Reviewed

\* No position moves.
LEMMA BooksKept ==
  ASSUME Reviewed, review' = review, position' = position, Filled \subseteq Filled',
         \A s \in Symbol : Orders(s, "sell") \subseteq Orders(s, "sell")' /\ Orders(s, "buy") \subseteq Orders(s, "buy")'
  PROVE  Reviewed'
<1>1. review.filled \subseteq Filled
  BY DEF Reviewed
<1>2. \A s \in Symbol \ review.moved : Seen(s) => Seen(s)'
  BY <1>1, SeenKept
<1> QED
  BY <1>2, ReviewKept

\* An order is filled, when it is placed or later.
LEMMA FillSeen ==
  ASSUME TypeOK, Reviewed, review' = review, NEW a \in Approval, NEW s \in Symbol, order[a].symbol = s,
         order[a].state \in {"authorized", "live"},
         order[a].side = "sell" => order[a].lots <= position[s],
         order' = [order EXCEPT ![a].state = "filled"],
         position' = [position EXCEPT ![s] = IF order[a].side = "buy" THEN @ + order[a].lots ELSE @ - order[a].lots]
  PROVE  Reviewed'
<1>1. /\ order[a].side \in {"buy", "sell"} /\ order[a].lots \in Nat /\ \A q \in Symbol : position[q] \in Nat
      /\ \A q \in Symbol \ {s} : position'[q] = position[q]
      /\ \A b \in Approval \ {a} : order'[b] = order[b]
      /\ order'[a].state = "filled" /\ order'[a].side = order[a].side /\ order'[a].symbol = s
  BY LotsAssumption DEF TypeOK, Order
<1>2. Filled' = Filled \cup {a} /\ a \notin Filled
  BY <1>1 DEF Filled
<1>3. \A q \in Symbol : Orders(q, "sell") \subseteq Orders(q, "sell")' /\ Orders(q, "buy") \subseteq Orders(q, "buy")'
  BY <1>1 DEF Orders, Sent
<1>4. position'[s] = IF order[a].side = "buy" THEN position[s] + order[a].lots ELSE position[s] - order[a].lots
  BY DEF TypeOK
<1>5. a \in Orders(s, order[a].side)'
  BY <1>1 DEF Orders, Sent
<1>6. position[s] > 0 /\ Orders(s, "sell")' = {} => position'[s] > 0
  BY <1>1, <1>4, <1>5
<1>7. position'[s] > 0 => position[s] > 0 \/ \E b \in Orders(s, "buy")' : b \in Filled' \ Filled
  BY <1>1, <1>2, <1>4, <1>5
<1>8. review.filled \subseteq Filled
  BY DEF Reviewed
<1>9. ASSUME NEW q \in Symbol, Seen(q) PROVE Seen(q)'
  <2>1. CASE q = s
    BY <1>2, <1>3, <1>6, <1>7, <1>8, <1>9, <2>1, SeenKept
  <2>2. CASE q # s
    BY <1>1, <1>2, <1>3, <1>8, <1>9, <2>2, SeenKept
  <2> QED
    BY <2>1, <2>2
<1> QED
  BY <1>2, <1>9, ReviewKept

LEMMA ReviewedStep == IInv /\ [Next]_vars => Reviewed'
<1> SUFFICES ASSUME IInv, [Next]_vars PROVE Reviewed'
  OBVIOUS
<1>0. TypeOK /\ Held /\ Prepared /\ Reviewed
  BY DEF IInv
<1>a. Steps \/ (\E w \in Worker : Crash(w)) => review' = review
  BY InsideRests
<1>b. review.filled \subseteq Filled
  BY <1>0 DEF Reviewed
\* One order moves on, and no position.
<1>c. ASSUME review' = review, position' = position, NEW a \in Approval,
             order[a].state \notin {"live", "filled"} \/ order'[a] = order[a],
             \A b \in Approval \ {a} : order'[b] = order[b]
      PROVE  Reviewed'
  <2>1. Filled \subseteq Filled'
    BY <1>c DEF Filled
  <2>2. \A s \in Symbol : Orders(s, "sell") \subseteq Orders(s, "sell")' /\ Orders(s, "buy") \subseteq Orders(s, "buy")'
    BY <1>c DEF Orders, Sent
  <2> QED
    BY <1>0, <1>c, <2>1, <2>2, BooksKept
<1>d. ASSUME review' = review, position' = position, order' = order PROVE Reviewed'
  <2>1. Filled' = Filled /\ \A s \in Symbol : Orders(s, "sell")' = Orders(s, "sell") /\ Orders(s, "buy")' = Orders(s, "buy")
    BY <1>d DEF Filled, Orders, Sent
  <2> QED
    BY <1>0, <1>d, <2>1, BooksKept
<1>1. ASSUME review' = review, NEW w \in Worker, NEW s \in Symbol, NEW a \in Approval,
             StartEntry(w, s, a) \/ \E lots \in 1 .. Lots : StartSale(w, s, a, lots)
      PROVE  Reviewed'
  <2>1. /\ order[a].state = "unused" /\ position' = position
        /\ \A b \in Approval \ {a} : order'[b] = order[b]
    BY <1>0, <1>1 DEF StartEntry, StartSale, NoOrder, TypeOK
  <2> QED
    BY <1>c, <1>1, <2>1
<1>2. ASSUME review' = review, NEW w \in Worker, PlaceAccepted(w) \/ PlaceRefused(w) PROVE Reviewed'
  <2>0. PICK a \in Approval : a = under[w] /\ order[a].state = "authorized"
    BY <1>0, <1>2 DEF PlaceAccepted, PlaceRefused, Held, Holding, Session
  <2>1. position' = position /\ \A b \in Approval \ {a} : order'[b] = order[b]
    BY <1>0, <1>2, <2>0 DEF PlaceAccepted, PlaceRefused, TypeOK
  <2> QED
    BY <1>c, <1>2, <2>0, <2>1
<1>3. ASSUME review' = review, NEW w \in Worker, PlaceFilled(w) PROVE Reviewed'
  <2>1. PICK a \in Approval, s \in Symbol : a = under[w] /\ order[a].state = "authorized" /\ order[a].symbol = s
    BY <1>0, <1>3 DEF PlaceFilled, Held, Holding, Session
  <2> QED
    BY <1>0, <1>3, <2>1, FillSeen DEF PlaceFilled
<1>4. ASSUME review' = review, NEW a \in Approval, BrokerFills(a) PROVE Reviewed'
  <2>1. PICK s \in Symbol : order[a].symbol = s /\ order[a].state = "live"
    BY <1>0, <1>4 DEF BrokerFills, Prepared
  <2> QED
    BY <1>0, <1>4, <2>1, FillSeen DEF BrokerFills
<1>5. ASSUME review' = review, NEW w \in Worker,
             \/ \E s \in Symbol : StartMonitor(w, s)
             \/ LookupLifecycle(w) \/ BeginBuyPending(w) \/ AttachBuy(w) \/ MarkSellPending(w)
             \/ MarkPositionOpen(w) \/ AcquireLease(w) \/ ReleaseLease(w) \/ Crash(w)
      PROVE  Reviewed'
  <2>1. order' = order /\ position' = position
    BY <1>5 DEF StartMonitor, LookupLifecycle, BeginBuyPending, AttachBuy, MarkSellPending, Move, MarkPositionOpen,
                AcquireLease, ReleaseLease, Crash
  <2> QED
    BY <1>d, <1>5, <2>1
<1>6. ASSUME review' = review, NEW s \in Symbol, BeginResearch(s) \/ LeaseExpires(s) \/ ReportFilledSale(s) PROVE Reviewed'
  <2>1. order' = order /\ position' = position
    BY <1>6 DEF BeginResearch, LeaseExpires, ReportFilledSale
  <2> QED
    BY <1>d, <1>6, <2>1
<1>7. CASE UNCHANGED vars
  BY <1>d, <1>7 DEF vars
<1>8. ASSUME NEW s \in Symbol, TradeElsewhere(s) PROVE Reviewed'
  <2>1. order' = order /\ \A q \in Symbol \ {s} : position'[q] = position[q]
    BY <1>0, <1>8 DEF TradeElsewhere, TypeOK
  <2>2. Filled' = Filled /\ \A q \in Symbol : Orders(q, "sell")' = Orders(q, "sell") /\ Orders(q, "buy")' = Orders(q, "buy")
    BY <2>1 DEF Filled, Orders, Sent
  <2>3. /\ review'.pc = review.pc /\ review'.rows = review.rows /\ review'.held = review.held
        /\ review'.filled = review.filled /\ review.moved \subseteq review'.moved
        /\ review'.pc # "idle" => s \in review'.moved
    BY <1>0, <1>8 DEF TradeElsewhere, TypeOK
  <2>4. ASSUME NEW q \in Symbol \ {s}, Seen(q) PROVE Seen(q)'
    BY <1>b, <2>1, <2>2, <2>3, <2>4, SeenKept
  <2> QED
    BY <1>0, <2>2, <2>3, <2>4 DEF Reviewed
<1>9. CASE TakeSnapshot \/ ComparePositions \/ NextReview
  <2>1. /\ position' = position /\ order' = order
        /\ Filled' = Filled /\ \A q \in Symbol : Orders(q, "sell")' = Orders(q, "sell") /\ Orders(q, "buy")' = Orders(q, "buy")
    BY <1>9 DEF TakeSnapshot, ComparePositions, NextReview, Filled, Orders, Sent
  <2>2. CASE TakeSnapshot
    <3>1. review'.pc = "compare" /\ review'.held = {s \in Symbol : position[s] > 0} /\ review'.filled = Filled
      BY <2>2 DEF TakeSnapshot, NoReview
    <3>2. \A s \in Symbol : Seen(s)'
      BY <2>1, <3>1 DEF Seen
    <3> QED
      BY <2>1, <3>1, <3>2 DEF Reviewed
  <2>3. CASE ComparePositions /\ review.held = Expected
    <3>1. /\ review.pc = "compare" /\ review'.pc = "clean" /\ review'.rows = review.held /\ review'.held = review.held
          /\ review'.filled = review.filled /\ review'.moved = review.moved
      BY <1>0, <2>3 DEF ComparePositions, TypeOK
    <3>2. \A s \in Symbol \ review.moved : Seen(s)'
      BY <1>0, <2>1, <3>1 DEF Reviewed, Seen
    <3> QED
      BY <1>b, <2>1, <3>1, <3>2 DEF Reviewed
  <2>4. CASE review' = NoReview
    BY <2>4 DEF NoReview, Reviewed
  <2> QED
    BY <1>9, <2>2, <2>3, <2>4 DEF ComparePositions, NextReview
<1> QED
  BY <1>a, <1>1, <1>2, <1>3, <1>4, <1>5, <1>6, <1>7, <1>8, <1>9 DEF Next, Steps, Outside

-----------------------------------------------------------------------------
\* The invariant, and what follows from it.

LEMMA LifecycleStart == Init => IInv
<1> SUFFICES ASSUME Init PROVE IInv
  OBVIOUS
<1>1. NoOrder \in Order
  BY LotsAssumption DEF NoOrder, Order, OrderState
<1>2. TypeOK
  BY <1>1, LotsAssumption DEF Init, TypeOK, Status, PC, NoReview
<1>3. \A a \in Approval : order[a].state = "unused"
  BY DEF Init, NoOrder
<1>4. \A a \in Approval, s \in Symbol, side \in {"buy", "sell"} : ~Claim(a, s, side) /\ ~Bought(s)
  BY <1>3 DEF Init, Claim, Bought, Sent
<1>5. \A s \in Symbol : ~Bought(s)
  BY <1>3 DEF Bought
<1>6. Held /\ Distinct /\ Prepared
  BY <1>3 DEF Init, Held, Holding, Distinct, Prepared, Session
<1>7. OneClaim /\ RowKnows
  BY <1>4 DEF OneClaim, RowKnows
<1>8. Backed
  BY <1>5 DEF Init, Backed
<1>9. Reviewed
  BY DEF Init, NoReview, Reviewed
<1> QED
  BY <1>2, <1>6, <1>7, <1>8, <1>9 DEF IInv

LEMMA LifecycleKept == IInv /\ [Next]_vars => IInv'
  BY TypeStep, HeldStep, ClaimStep, BackedStep, ReviewedStep DEF IInv

LEMMA Invariance == Spec => []IInv
  BY LifecycleStart, LifecycleKept, PTL DEF Spec

(* Rows, orders, leases and sessions keep their types, and whatever other    *)
(* flows sell meanwhile, no sale takes a position below zero.                *)
THEOREM LifecycleTypeCorrect == Spec => []TypeOK
<1>1. IInv => TypeOK
  BY DEF IInv
<1> QED
  BY <1>1, Invariance, PTL

\* While a task is open none of its sales was sent.
LEMMA OpenIsUnsold == ASSUME IInv, NEW s \in Symbol, status[s] = "open" PROVE Orders(s, "sell") = {}
<1>1. \A a \in Orders(s, "sell") : a \in Approval /\ Claim(a, s, "sell")
  BY DEF Orders, Claim
<1> QED
  BY <1>1 DEF IInv, RowKnows

(* However many sessions race for a symbol, die or are started again, one    *)
(* buy and one sale of it reach the broker (transition_lifecycle).           *)
THEOREM OneOfEach == Spec => []OneEntryOneExit
<1>1. IInv => OneEntryOneExit
  <2> SUFFICES ASSUME IInv, NEW s \in Symbol, NEW side \in {"buy", "sell"} PROVE Cardinality(Orders(s, side)) <= 1
    BY DEF OneEntryOneExit
  <2>1. \A a, b \in Orders(s, side) : a = b
    <3>1. \A a \in Orders(s, side) : a \in Approval /\ Claim(a, s, side)
      BY DEF Orders, Claim
    <3> QED
      BY <3>1 DEF IInv, OneClaim
  <2>2. CASE Orders(s, side) = {}
    BY <2>2, FS_EmptySet
  <2>3. ASSUME NEW a \in Orders(s, side) PROVE Cardinality(Orders(s, side)) <= 1
    <3>1. Orders(s, side) = {a}
      BY <2>1, <2>3
    <3>2. Cardinality({a}) = 1
      BY FS_Singleton
    <3> QED
      BY <3>1, <3>2
  <2> QED
    BY <2>2, <2>3
<1> QED
  BY <1>1, Invariance, PTL

(* A task that is open stands for the whole of its entry, less what other    *)
(* flows took of it, and no sale of it is at the broker                      *)
(* (mark_lifecycle_position_open, mark_lifecycle_sell_pending).              *)
THEOREM OpenTasksAreBacked == Spec => []OpenIsBacked
<1>1. IInv => OpenIsBacked
  <2> SUFFICES ASSUME IInv, NEW s \in Symbol, status[s] = "open"
               PROVE  position[s] = Lots + elsewhere[s] /\ Orders(s, "sell") = {}
    BY DEF OpenIsBacked
  <2>1. Orders(s, "sell") = {}
    BY OpenIsUnsold
  <2>2. position[s] = Lots + elsewhere[s]
    BY <2>1 DEF IInv, Backed
  <2> QED
    BY <2>1, <2>2
<1> QED
  BY <1>1, Invariance, PTL

(* What a clean drift check found lasts until another flow trades the        *)
(* symbol, whatever the sessions do meanwhile: its tasks that are still open *)
(* are held, and a position it did not see was bought since                  *)
(* (detect_broker_state_drift).                                              *)
THEOREM CleanReviewsLast == Spec => []CleanReviewLasts
<1>1. IInv => CleanReviewLasts
  <2> SUFFICES ASSUME IInv, review.pc = "clean", NEW s \in Symbol \ review.moved
               PROVE  /\ s \in review.rows /\ status[s] = "open" => position[s] > 0
                      /\ s \notin review.rows /\ position[s] > 0 => Orders(s, "buy") \cap (Filled \ review.filled) # {}
    BY DEF CleanReviewLasts
  <2>1. review.rows = review.held /\ Seen(s)
    BY DEF IInv, Reviewed
  <2>2. status[s] = "open" => Orders(s, "sell") = {}
    BY OpenIsUnsold
  <2> QED
    BY <2>1, <2>2 DEF Seen
<1> QED
  BY <1>1, Invariance, PTL

-----------------------------------------------------------------------------
\* Leases. Whoever evaluates an exit has the lease of its symbol.
Leased == \A w \in Worker : pc[w] = "evaluate" => lease[subject[w]] = w

LEMMA LeaseStep == ASSUME Prompt PROVE TypeOK /\ Held /\ Leased /\ [Next]_vars => Leased'
<1> SUFFICES ASSUME TypeOK, Held, Leased, [Next]_vars PROVE Leased'
  OBVIOUS
<1> USE DEF TypeOK, Leased
<1>1. ASSUME NEW w \in Worker, AcquireLease(w) PROVE Leased'
  <2>1. subject[w] \in Symbol /\ \A v \in Worker : pc[v] = "evaluate" => subject[v] \in Symbol
    BY <1>1 DEF AcquireLease, Held, Holding
  <2> QED
    BY <1>1, <2>1, NobodyAssumption DEF AcquireLease, Goto, Return
<1>2. ASSUME NEW w \in Worker, ReleaseLease(w) PROVE Leased'
  <2>1. subject[w] \in Symbol /\ \A v \in Worker : pc[v] = "evaluate" => subject[v] \in Symbol
    BY <1>2 DEF ReleaseLease, Held, Holding
  <2> QED
    BY <1>2, <2>1 DEF ReleaseLease, Return
<1>3. ASSUME NEW s \in Symbol, LeaseExpires(s) PROVE Leased'
  BY <1>3 DEF LeaseExpires
<1>4. ASSUME lease' = lease,
             \A v \in Worker : pc'[v] = "evaluate" => pc[v] = "evaluate" /\ subject'[v] = subject[v]
      PROVE  Leased'
  BY <1>4
<1>5. ASSUME NEW w \in Worker,
             \/ \E s \in Symbol, a \in Approval : StartEntry(w, s, a) \/ \E lots \in 1 .. Lots : StartSale(w, s, a, lots)
             \/ \E s \in Symbol : StartMonitor(w, s)
             \/ LookupLifecycle(w) \/ BeginBuyPending(w) \/ AttachBuy(w)
             \/ PlaceFilled(w) \/ PlaceAccepted(w) \/ PlaceRefused(w)
             \/ MarkPositionOpen(w) \/ MarkSellPending(w) \/ Crash(w)
      PROVE  Leased'
  <2>1. /\ lease' = lease
        /\ \A v \in Worker : pc'[v] = "evaluate" => pc[v] = "evaluate" /\ subject'[v] = subject[v]
    BY <1>5 DEF StartEntry, StartSale, StartMonitor, LookupLifecycle, BeginBuyPending, AttachBuy, PlaceFilled,
                PlaceAccepted, PlaceRefused, MarkPositionOpen, MarkSellPending, Crash, Begin, Move, Goto, Return
  <2> QED
    BY <1>4, <2>1
<1>6. ASSUME lease' = lease /\ pc' = pc /\ subject' = subject PROVE Leased'
  BY <1>6
<1>7. CASE UNCHANGED vars
  BY <1>6, <1>7 DEF vars
<1>8. ASSUME NEW s \in Symbol, BeginResearch(s) \/ ReportFilledSale(s) PROVE Leased'
  BY <1>6, <1>8 DEF BeginResearch, ReportFilledSale
<1>9. ASSUME NEW a \in Approval, BrokerFills(a) PROVE Leased'
  BY <1>6, <1>9 DEF BrokerFills
<1>10. CASE Outside
  BY <1>6, <1>10, OutsideRests
<1> HIDE DEF TypeOK, Leased
<1> QED
  BY <1>1, <1>2, <1>3, <1>5, <1>7, <1>8, <1>9, <1>10 DEF Next, Steps

(* Two workers never evaluate the exit of one symbol at a time, if an        *)
(* evaluation takes less than the five minutes of a lease                    *)
(* (acquire_monitor_lease).                                                  *)
THEOREM OneMonitorEach == ASSUME Prompt PROVE Spec => []OneMonitor
<1>1. Init => Leased
  BY DEF Init, Leased
<1>2. IInv /\ Leased /\ [Next]_vars => Leased'
  BY LeaseStep DEF IInv
<1>3. Leased => OneMonitor
  BY DEF Leased, OneMonitor
<1> QED
  BY <1>1, <1>2, <1>3, Invariance, PTL DEF Spec
=============================================================================
