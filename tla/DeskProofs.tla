---------------------------- MODULE DeskProofs -----------------------------
(***************************************************************************)
(* What the simulated broker and the paper account's entry rules, debates   *)
(* and option programs never do, for any number of orders, sessions,        *)
(* processes, proposals and contracts.                                      *)
(*                                                                          *)
(* SimBroker.  The loop of update_marks is a fold over the book, a          *)
(* recursive function: what it has made of the account after k brackets is  *)
(* shown by induction on k.  The books balance order by order, since one    *)
(* with a bracket is on the book once and leaves it once.                   *)
(*                                                                          *)
(* EntryRules.  The ledger is a bag of rows, and counts and dollars are     *)
(* tallies: sums of a weight over its rows.  The inductive invariant also   *)
(* counts what is not written yet: the sessions that judge a portfolio with *)
(* room in it, and the dollars they have in mind.                           *)
(*                                                                          *)
(* DeskDebate.  What the script has written of a debate so far is what the  *)
(* debate's input says, and a candidate is in one analyst's hands.          *)
(*                                                                          *)
(* DeskOptions.  What ends and is held is on the list of the pass or has    *)
(* been dealt with, and nothing that rests to be bought is near its end.    *)
(*                                                                          *)
(* The four side by side are what TLC explores of the desk.                 *)
(***************************************************************************)
EXTENDS MCSimBroker, SumTheorems, FiniteSetTheorems, TLAPS

(* The rule engine and the executor.                                         *)

\* What a session judges is one of the proposals of its ticker.
ProposalsKnown == \A t \in Trader : Judging(t) => trader[t].proposal \in Proposal[t]

\* Whatever the rule engine (rules.py) approves of a sound purchase the
\* executor's own checks accept, for any proposals, limits and portfolios: the
\* second check never turns away what the first let through.
THEOREM EngineMirrorsExecutor == RulesSpec => []EngineIsStricter
<1> DEFINE Inv == /\ DOMAIN trader = Trader
                  /\ ProposalsKnown
<1>1. RulesInit => Inv
  BY DEF RulesInit, ProposalsKnown, Judging
<1>2. Inv /\ [RulesNext]_ruleVars => Inv'
  <2> SUFFICES ASSUME Inv, [RulesNext]_ruleVars PROVE Inv'
    OBVIOUS
  <2>1. ASSUME NEW t \in Trader, Read(t) PROVE Inv'
    BY <2>1 DEF Read, ProposalsKnown, Judging
  <2>2. ASSUME NEW t \in Trader, Judge(t) PROVE Inv'
    BY <2>2 DEF Judge, ProposalsKnown, Judging
  <2>3. ASSUME NEW t \in Trader, Approve(t) PROVE Inv'
    BY <2>3 DEF Approve, ProposalsKnown, Judging
  <2>4. ASSUME NEW t \in Trader, Place(t) PROVE Inv'
    BY <2>4 DEF Place, ProposalsKnown, Judging
  <2>5. ASSUME UNCHANGED trader PROVE Inv'
    BY <2>5 DEF ProposalsKnown, Judging
  <2>6. CASE PersonDecides \/ OrderResolves \/ Stop \/ (\E t \in Ticker : Cool(t)) \/ UNCHANGED ruleVars
    BY <2>5, <2>6 DEF PersonDecides, OrderResolves, Stop, Cool, ruleVars
  <2> QED
    BY <2>1, <2>2, <2>3, <2>4, <2>6 DEF RulesNext
<1>3. Inv => EngineIsStricter
  <2> SUFFICES ASSUME Inv, NEW t \in Trader, Judging(t), NEW p, p = trader[t].proposal, NEW pf,
                      EngineApproves(p, pf), p.side = "buy", p.spread # "none", p.snapshot = "sound",
                      ValidOrder(p), ContextHolds(p)
               PROVE  ExecutorAccepts(p, pf)
    BY DEF EngineIsStricter
  <2> DEFINE R == EngineRules(p, pf)
  <2>1. \A rule \in DOMAIN R : R[rule]
    BY Zenon DEF EngineApproves
  <2>2. DOMAIN R = {"mode", "session", "universe", "earnings", "news", "quality", "regime", "sizing",
                    "shape", "confidence", "state"}
    BY DEF EngineRules
  <2> HIDE DEF R
  <2>3. R.mode /\ R.session /\ R.universe /\ R.earnings /\ R.quality /\ R.regime /\ R.sizing /\ R.shape /\ R.state
    BY <2>1, <2>2
  <2>4. /\ p.mode = "paper" /\ InSession(p) /\ Constituent(p) /\ EarningsClear(p) /\ CompleteData(p)
        /\ ClearsHurdle(p) /\ p.spread # "wide" /\ WithinLimits(pf, p) /\ EngineShape(p) /\ NotStopped(p)
    BY <2>3 DEF R, EngineRules
  <2>5. p.spread = "tight"
    BY <2>4, RulesAssumption DEF ProposalsKnown
  <2> QED
    BY <2>4, <2>5 DEF ExecutorAccepts, PaperMode, EngineShape, SoundCandidate, EligiblePurchase
<1> QED
  BY <1>1, <1>2, <1>3, PTL DEF RulesSpec

-----------------------------------------------------------------------------
(* Bags and their tallies.                                                   *)

\* How many copies of a row a bag has.
Copies(L, r) == IF r \in DOMAIN L THEN L[r] ELSE 0

\* A bag of finitely many rows.
FineBag(L) == IsABag(L) /\ IsFiniteSet(DOMAIN L)

\* But for r two bags are the same.
SameBut(r, L, M) == \A x : x # r => Copies(M, x) = Copies(L, x)

\* The rows of the approval ledger, as far as the limits read them.
LedgerRow == [on : Ticker, value : Nat, status : RowStatus]

\* What the rows of a bag weigh.
Tally(W, L) == SumOver([a \in DOMAIN L |-> W[a] * L[a]], DOMAIN L)

\* A row is added to a bag.
LEMMA OneMore ==
  ASSUME NEW L, FineBag(L), NEW r, NEW M, M = L (+) SetToBag({r})
  PROVE  /\ FineBag(M) /\ DOMAIN M = DOMAIN L \cup {r}
         /\ Copies(M, r) = Copies(L, r) + 1
         /\ SameBut(r, L, M)
<1>1. DOMAIN SetToBag({r}) = {r} /\ SetToBag({r})[r] = 1
  BY DEF SetToBag
<1>2. L \in [DOMAIN L -> {n \in Nat : n > 0}]
  BY DEF FineBag, IsABag
<1>3. M = [e \in DOMAIN L \cup {r} |-> (IF e \in DOMAIN L THEN L[e] ELSE 0) + (IF e \in {r} THEN 1 ELSE 0)]
  BY <1>1 DEF (+)
<1>4. DOMAIN M = DOMAIN L \cup {r} /\ IsFiniteSet(DOMAIN M)
  BY <1>3, FS_AddElement DEF FineBag
<1>5. \A e \in DOMAIN M : M[e] = Copies(L, e) + (IF e = r THEN 1 ELSE 0)
  BY <1>3 DEF Copies
<1>6. \A e : Copies(L, e) \in Nat /\ (e \in DOMAIN L => Copies(L, e) > 0)
  BY <1>2 DEF Copies
<1>7. \A e \in DOMAIN M : M[e] \in {n \in Nat : n > 0}
  BY <1>4, <1>5, <1>6
<1>8. FineBag(M)
  BY <1>3, <1>4, <1>7 DEF FineBag, IsABag
<1>9. \A e : e \in DOMAIN M => Copies(M, e) = Copies(L, e) + (IF e = r THEN 1 ELSE 0)
  BY <1>5 DEF Copies
<1>10. \A e : e \notin DOMAIN M => Copies(M, e) = 0 /\ Copies(L, e) = 0
  BY <1>4 DEF Copies
<1> QED
  BY <1>4, <1>6, <1>8, <1>9, <1>10 DEF SameBut

\* A row is taken out of a bag.
LEMMA OneLess ==
  ASSUME NEW L, FineBag(L), NEW r \in DOMAIN L, NEW M, M = L (-) SetToBag({r})
  PROVE  /\ FineBag(M) /\ DOMAIN M \subseteq DOMAIN L
         /\ Copies(M, r) = Copies(L, r) - 1
         /\ SameBut(r, L, M)
<1>1. DOMAIN SetToBag({r}) = {r} /\ SetToBag({r})[r] = 1
  BY DEF SetToBag
<1>2. L \in [DOMAIN L -> {n \in Nat : n > 0}]
  BY DEF FineBag, IsABag
<1> DEFINE B == [e \in DOMAIN L |-> IF e \in {r} THEN L[e] - 1 ELSE L[e]]
<1>3. M = [e \in {d \in DOMAIN B : B[d] > 0} |-> B[e]]
  <2>1. M = LET C == [e \in DOMAIN L |-> IF e \in DOMAIN SetToBag({r}) THEN L[e] - SetToBag({r})[e] ELSE L[e]]
            IN  [e \in {d \in DOMAIN C : C[d] > 0} |-> C[e]]
    BY Zenon DEF (-)
  <2>2. [e \in DOMAIN L |-> IF e \in DOMAIN SetToBag({r}) THEN L[e] - SetToBag({r})[e] ELSE L[e]] = B
    BY <1>1
  <2> QED
    BY <2>1, <2>2
<1>4. \A e \in DOMAIN L : B[e] \in Nat /\ (e # r => B[e] = L[e] /\ B[e] > 0)
  BY <1>2
<1>5. DOMAIN M \subseteq DOMAIN L /\ IsFiniteSet(DOMAIN M)
  BY <1>3, FS_Subset DEF FineBag
<1>6. M \in [DOMAIN M -> {n \in Nat : n > 0}]
  BY <1>3, <1>4
<1>7. FineBag(M)
  BY <1>5, <1>6 DEF FineBag, IsABag
<1>8. Copies(M, r) = Copies(L, r) - 1
  <2>1. B[r] = L[r] - 1 /\ L[r] \in Nat /\ L[r] > 0
    BY <1>2
  <2>2. r \in DOMAIN M <=> L[r] - 1 > 0
    BY <1>3, <2>1
  <2>3. r \in DOMAIN M => M[r] = L[r] - 1
    BY <1>3, <2>1
  <2> QED
    BY <2>1, <2>2, <2>3 DEF Copies
<1>9. ASSUME NEW x, x # r PROVE Copies(M, x) = Copies(L, x)
  BY <1>3, <1>4, <1>9 DEF Copies
<1> QED
  BY <1>5, <1>7, <1>8, <1>9 DEF SameBut

\* A tally follows the copies of the one row that changed.
LEMMA TallyMoves ==
  ASSUME NEW L, FineBag(L), NEW M, FineBag(M), NEW R, DOMAIN L \subseteq R, DOMAIN M \subseteq R,
         NEW W \in [R -> Nat], NEW r \in R, SameBut(r, L, M)
  PROVE  /\ Tally(W, L) \in Nat
         /\ Tally(W, M) = Tally(W, L) - W[r] * Copies(L, r) + W[r] * Copies(M, r)
<1> DEFINE S == (DOMAIN L \cup DOMAIN M) \cup {r}
           F == [x \in S |-> W[x] * Copies(L, x)]
           G == [x \in S |-> W[x] * Copies(M, x)]
<1>1. IsFiniteSet(S) /\ S \subseteq R /\ r \in S
  BY FS_Union, FS_AddElement DEF FineBag
<1>2. /\ \A x : Copies(L, x) \in Nat /\ (x \notin DOMAIN L => Copies(L, x) = 0)
      /\ \A x : Copies(M, x) \in Nat /\ (x \notin DOMAIN M => Copies(M, x) = 0)
  BY DEF Copies, FineBag, IsABag
<1>3. \A x \in S : W[x] \in Nat
  BY <1>1
<1>4. \A x \in S : F[x] \in Nat /\ G[x] \in Nat
  <2>1. \A x \in S : W[x] * Copies(L, x) \in Nat /\ W[x] * Copies(M, x) \in Nat
    BY <1>2, <1>3
  <2> QED
    BY <2>1
<1>5. \A x \in S \ {r} : G[x] = F[x]
  BY DEF SameBut
<1>6. SumOver(F, S) = Tally(W, L)
  <2>1. \A x \in S \ DOMAIN L : F[x] = 0
    BY <1>2, <1>3
  <2>2. SumOver(F, S) = SumOver(F, DOMAIN L)
    <3>1. DOMAIN L \subseteq S /\ \A x \in S : F[x] \in Int
      <4>1. DOMAIN L \subseteq S
        OBVIOUS
      <4> HIDE DEF S, F
      <4> QED
        BY <1>4, <4>1
    <3> HIDE DEF S, F
    <3> QED
      BY <1>1, <2>1, <3>1, SumSkipsZeros
  <2>3. \A x \in DOMAIN L : F[x] = [a \in DOMAIN L |-> W[a] * L[a]][x]
    BY DEF Copies
  <2> QED
    BY <2>2, <2>3, SumSame DEF Tally
<1>7. SumOver(G, S) = Tally(W, M)
  <2>1. \A x \in S \ DOMAIN M : G[x] = 0
    BY <1>2, <1>3
  <2>2. SumOver(G, S) = SumOver(G, DOMAIN M)
    <3>1. DOMAIN M \subseteq S /\ \A x \in S : G[x] \in Int
      <4>1. DOMAIN M \subseteq S
        OBVIOUS
      <4> HIDE DEF S, G
      <4> QED
        BY <1>4, <4>1
    <3> HIDE DEF S, G
    <3> QED
      BY <1>1, <2>1, <3>1, SumSkipsZeros
  <2>3. \A x \in DOMAIN M : G[x] = [a \in DOMAIN M |-> W[a] * M[a]][x]
    BY DEF Copies
  <2> QED
    BY <2>2, <2>3, SumSame DEF Tally
<1>8. SumOver(G, S) = SumOver(F, S) - F[r] + G[r]
  <2> HIDE DEF S, F, G
  <2>1. \A x \in S : F[x] \in Int /\ G[x] \in Int
    BY <1>4
  <2> QED
    BY <1>1, <1>5, <2>1, SumChanges
<1>9. SumOver(F, S) \in Nat
  <2> HIDE DEF S, F
  <2> QED
    BY <1>1, <1>4, SumNat
<1> QED
  BY <1>6, <1>7, <1>8, <1>9

\* One more copy of a row adds its weight.
LEMMA TallyOneMore ==
  ASSUME NEW L, FineBag(L), NEW R, DOMAIN L \subseteq R, NEW W \in [R -> Nat], NEW r \in R
  PROVE  Tally(W, L (+) SetToBag({r})) = Tally(W, L) + W[r]
<1> SUFFICES ASSUME NEW M, M = L (+) SetToBag({r}) PROVE Tally(W, M) = Tally(W, L) + W[r]
  OBVIOUS
<1>1. /\ FineBag(M) /\ DOMAIN M = DOMAIN L \cup {r}
      /\ Copies(M, r) = Copies(L, r) + 1
      /\ SameBut(r, L, M)
  BY OneMore, Zenon
<1>2. /\ Tally(W, L) \in Nat
      /\ Tally(W, M) = Tally(W, L) - W[r] * Copies(L, r) + W[r] * Copies(M, r)
  <2>1. DOMAIN M \subseteq R
    BY <1>1
  <2> QED
    BY <1>1, <2>1, TallyMoves
<1>3. Copies(L, r) \in Nat /\ W[r] \in Nat
  BY DEF Copies, FineBag, IsABag
<1>4. ASSUME NEW w \in Nat, NEW c \in Nat, NEW z \in Nat
      PROVE  z - w * c + w * (c + 1) = z + w
  OBVIOUS
<1> QED
  BY <1>1, <1>2, <1>3, <1>4

\* One copy less takes it away.
LEMMA TallyOneLess ==
  ASSUME NEW L, FineBag(L), NEW R, DOMAIN L \subseteq R, NEW W \in [R -> Nat], NEW r \in DOMAIN L
  PROVE  Tally(W, L (-) SetToBag({r})) = Tally(W, L) - W[r] /\ Tally(W, L) \in Nat
<1> DEFINE M == L (-) SetToBag({r})
<1>1. /\ FineBag(M) /\ DOMAIN M \subseteq DOMAIN L
      /\ Copies(M, r) = Copies(L, r) - 1
      /\ SameBut(r, L, M)
  BY OneLess
<1>2. /\ Tally(W, L) \in Nat
      /\ Tally(W, M) = Tally(W, L) - W[r] * Copies(L, r) + W[r] * Copies(M, r)
  <2>1. DOMAIN M \subseteq R /\ r \in R
    BY <1>1
  <2> HIDE DEF M
  <2> QED
    BY <1>1, <2>1, TallyMoves
<1>3. Copies(L, r) \in Nat /\ W[r] \in Nat
  BY DEF Copies, FineBag, IsABag
<1>4. ASSUME NEW w \in Nat, NEW c \in Nat, NEW z \in Nat
      PROVE  z - w * c + w * (c - 1) = z - w
  OBVIOUS
<1> QED
  BY <1>1, <1>2, <1>3, <1>4

-----------------------------------------------------------------------------
\* Weights that count rows, and that sum their dollars, by status.
Ones(S) == [a \in LedgerRow |-> IF a.status \in S THEN 1 ELSE 0]
Values(S) == [a \in LedgerRow |-> IF a.status \in S THEN a.value ELSE 0]

\* The ledger is a bag of finitely many rows.
FineLedger == FineBag(ledger) /\ DOMAIN ledger \subseteq LedgerRow

\* The sums of the model are tallies.
LEMMA CountIsTally ==
  ASSUME FineLedger, NEW S
  PROVE  Count(S) = Tally(Ones(S), ledger)
<1> DEFINE F == [a \in Rows(S) |-> ledger[a]]
           G == [a \in DOMAIN ledger |-> Ones(S)[a] * ledger[a]]
<1>1. Count(S) = SumOver(F, Rows(S))
  BY ZenonT(40) DEF Count, SumOver, MapThenSumSet, MapThenFoldSet
<1>2. Rows(S) \subseteq DOMAIN ledger /\ IsFiniteSet(DOMAIN ledger)
  BY DEF Rows, BagToSet, FineLedger, FineBag
<1>3. \A a \in DOMAIN ledger : ledger[a] \in Nat /\ Ones(S)[a] = IF a.status \in S THEN 1 ELSE 0
  BY DEF FineLedger, FineBag, IsABag, Ones
<1>4. \A a \in DOMAIN ledger : G[a] = IF a.status \in S THEN ledger[a] ELSE 0
  BY <1>3
<1>5. SumOver(G, DOMAIN ledger) = SumOver(G, Rows(S))
  <2>1. \A a \in DOMAIN ledger : G[a] \in Int
    BY <1>3, <1>4
  <2>2. \A a \in DOMAIN ledger \ Rows(S) : G[a] = 0
    BY <1>4 DEF Rows, BagToSet
  <2> HIDE DEF G
  <2> QED
    BY <1>2, <2>1, <2>2, SumSkipsZeros
<1>6. SumOver(G, Rows(S)) = SumOver(F, Rows(S))
  <2>1. \A a \in Rows(S) : F[a] = G[a]
    BY <1>4 DEF Rows, BagToSet
  <2> HIDE DEF F, G
  <2> QED
    BY <2>1, SumSame
<1> QED
  BY <1>1, <1>5, <1>6 DEF Tally

\* Dollars, too, is a tally.
LEMMA DollarsIsTally ==
  ASSUME FineLedger, NEW S
  PROVE  Dollars(S) = Tally(Values(S), ledger)
<1> DEFINE F == [a \in Rows(S) |-> a.value * ledger[a]]
           G == [a \in DOMAIN ledger |-> Values(S)[a] * ledger[a]]
<1>1. Dollars(S) = SumOver(F, Rows(S))
  BY ZenonT(40) DEF Dollars, SumOver, MapThenSumSet, MapThenFoldSet
<1>2. Rows(S) \subseteq DOMAIN ledger /\ IsFiniteSet(DOMAIN ledger)
  BY DEF Rows, BagToSet, FineLedger, FineBag
<1>3. \A a \in DOMAIN ledger : ledger[a] \in Nat /\ a.value \in Nat /\ Values(S)[a] = IF a.status \in S THEN a.value ELSE 0
  BY DEF FineLedger, FineBag, IsABag, Values, LedgerRow
<1>4. \A a \in DOMAIN ledger : G[a] = IF a.status \in S THEN a.value * ledger[a] ELSE 0
  BY <1>3
<1>5. SumOver(G, DOMAIN ledger) = SumOver(G, Rows(S))
  <2>1. \A a \in DOMAIN ledger : G[a] \in Int
    BY <1>3, <1>4
  <2>2. \A a \in DOMAIN ledger \ Rows(S) : G[a] = 0
    BY <1>4 DEF Rows, BagToSet
  <2> HIDE DEF G
  <2> QED
    BY <1>2, <2>1, <2>2, SumSkipsZeros
<1>6. SumOver(G, Rows(S)) = SumOver(F, Rows(S))
  <2>1. \A a \in Rows(S) : F[a] = G[a]
    BY <1>4 DEF Rows, BagToSet
  <2> HIDE DEF F, G
  <2> QED
    BY <2>1, SumSame
<1> QED
  BY <1>1, <1>5, <1>6 DEF Tally

-----------------------------------------------------------------------------
\* Pending approvals of a ledger, their dollars, and the dollars that count
\* as approved.
PendingIn(L) == Tally(Ones({"pending"}), L)
UndecidedIn(L) == Tally(Values({"pending"}), L)
ApprovedIn(L) == Tally(Values(Authorized), L)

\* Weights are numbers.
LEMMA WeightsTyped ==
  ASSUME NEW S
  PROVE  Ones(S) \in [LedgerRow -> Nat] /\ Values(S) \in [LedgerRow -> Nat]
BY DEF Ones, Values, LedgerRow

\* Tallies of a ledger are numbers.
LEMMA TalliesOf ==
  ASSUME NEW L, FineBag(L), DOMAIN L \subseteq LedgerRow
  PROVE  /\ PendingIn(L) \in Nat /\ UndecidedIn(L) \in Nat /\ ApprovedIn(L) \in Nat
         /\ \A W \in [LedgerRow -> Nat] : Tally(W, L) \in Nat
<1>1. ASSUME NEW W \in [LedgerRow -> Nat] PROVE Tally(W, L) \in Nat
  <2>1. \A a \in DOMAIN L : W[a] \in Nat /\ L[a] \in Nat
    BY DEF FineBag, IsABag
  <2>2. \A a \in DOMAIN L : W[a] * L[a] \in Nat
    BY <2>1
  <2> DEFINE F == [a \in DOMAIN L |-> W[a] * L[a]]
  <2>3. \A a \in DOMAIN L : F[a] \in Nat
    BY <2>2
  <2>4. SumOver(F, DOMAIN L) \in Nat
    <3> HIDE DEF F
    <3> QED
      BY <2>3, SumNat DEF FineBag
  <2> QED
    BY <2>4 DEF Tally
<1> QED
  BY <1>1, WeightsTyped DEF PendingIn, UndecidedIn, ApprovedIn

\* Those of this ledger are.
LEMMA TalliesTyped ==
  ASSUME FineLedger
  PROVE  PendingIn(ledger) \in Nat /\ UndecidedIn(ledger) \in Nat /\ ApprovedIn(ledger) \in Nat
BY TalliesOf DEF FineLedger

\* A row changes its status.
LEMMA StatusChanges ==
  ASSUME NEW a \in LedgerRow, NEW s \in RowStatus, s # a.status, NEW b, b = [a EXCEPT !.status = s]
  PROVE  b \in LedgerRow /\ b # a /\ b.status = s /\ b.value = a.value /\ b.on = a.on
BY DEF LedgerRow

\* A row leaves the ledger.
LEMMA RowLeaves ==
  ASSUME FineLedger, NEW a \in DOMAIN ledger, NEW M, M = Without(a)
  PROVE  /\ FineBag(M) /\ DOMAIN M \subseteq DOMAIN ledger
         /\ Copies(M, a) = Copies(ledger, a) - 1 /\ SameBut(a, ledger, M)
         /\ \A W \in [LedgerRow -> Nat] : Tally(W, M) = Tally(W, ledger) - W[a]
<1>1. M = ledger (-) SetToBag({a})
  BY DEF Without
<1>2. /\ FineBag(M) /\ DOMAIN M \subseteq DOMAIN ledger
      /\ Copies(M, a) = Copies(ledger, a) - 1 /\ SameBut(a, ledger, M)
  BY <1>1, OneLess DEF FineLedger
<1>3. ASSUME NEW W \in [LedgerRow -> Nat] PROVE Tally(W, M) = Tally(W, ledger) - W[a]
  BY <1>1, TallyOneLess DEF FineLedger
<1> QED
  BY <1>2, <1>3

\* A row takes another status.
LEMMA RowMoves ==
  ASSUME FineLedger, NEW a \in DOMAIN ledger, NEW s \in RowStatus, s # a.status,
         NEW b, b = [a EXCEPT !.status = s], NEW M, M = To(a, s)
  PROVE  /\ FineBag(M) /\ DOMAIN M \subseteq DOMAIN ledger \cup {b}
         /\ Copies(M, a) = Copies(ledger, a) - 1 /\ Copies(M, b) = Copies(ledger, b) + 1
         /\ \A x : x # a /\ x # b => Copies(M, x) = Copies(ledger, x)
         /\ \A W \in [LedgerRow -> Nat] : Tally(W, M) = (Tally(W, ledger) - W[a]) + W[b]
<1>1. b \in LedgerRow /\ b # a
  BY StatusChanges DEF FineLedger
<1> DEFINE N == Without(a)
<1>2. /\ FineBag(N) /\ DOMAIN N \subseteq DOMAIN ledger
      /\ Copies(N, a) = Copies(ledger, a) - 1 /\ SameBut(a, ledger, N)
      /\ \A W \in [LedgerRow -> Nat] : Tally(W, N) = Tally(W, ledger) - W[a]
  BY RowLeaves
<1>3. M = N (+) SetToBag({b})
  BY DEF To
<1> HIDE DEF N
<1>4. /\ FineBag(M) /\ DOMAIN M = DOMAIN N \cup {b}
      /\ Copies(M, b) = Copies(N, b) + 1 /\ SameBut(b, N, M)
  BY <1>2, <1>3, OneMore, ZenonT(40)
<1>5. ASSUME NEW W \in [LedgerRow -> Nat] PROVE Tally(W, M) = (Tally(W, ledger) - W[a]) + W[b]
  <2>1. Tally(W, M) = Tally(W, N) + W[b]
    BY <1>1, <1>2, <1>3, TallyOneMore DEF FineLedger
  <2> QED
    BY <2>1, <1>2
<1> QED
  BY <1>1, <1>2, <1>4, <1>5 DEF SameBut

\* What a change of status does to the three totals, when it is not back to
\* pending.
LEMMA TotalsMove ==
  ASSUME FineLedger, NEW a \in DOMAIN ledger, NEW s \in Authorized, s # a.status, NEW M, M = To(a, s)
  PROVE  /\ PendingIn(M) = PendingIn(ledger) - (IF a.status = "pending" THEN 1 ELSE 0)
         /\ UndecidedIn(M) = UndecidedIn(ledger) - (IF a.status = "pending" THEN a.value ELSE 0)
         /\ ApprovedIn(M) = ApprovedIn(ledger) + (IF a.status = "pending" THEN a.value ELSE 0)
<1> DEFINE b == [a EXCEPT !.status = s]
<1>1. a \in LedgerRow /\ b \in LedgerRow /\ b.status = s /\ b.value = a.value /\ s \in RowStatus /\ s # "pending"
  BY StatusChanges DEF FineLedger, Authorized
<1>2. \A W \in [LedgerRow -> Nat] : Tally(W, M) = (Tally(W, ledger) - W[a]) + W[b]
  BY <1>1, RowMoves
<1> HIDE DEF b
<1>3. /\ Tally(Ones({"pending"}), M) = (Tally(Ones({"pending"}), ledger) - Ones({"pending"})[a]) + Ones({"pending"})[b]
      /\ Tally(Values({"pending"}), M) = (Tally(Values({"pending"}), ledger) - Values({"pending"})[a]) + Values({"pending"})[b]
      /\ Tally(Values(Authorized), M) = (Tally(Values(Authorized), ledger) - Values(Authorized)[a]) + Values(Authorized)[b]
  BY <1>2, WeightsTyped
<1>4. /\ Ones({"pending"})[a] = (IF a.status = "pending" THEN 1 ELSE 0) /\ Ones({"pending"})[b] = 0
      /\ Values({"pending"})[a] = (IF a.status = "pending" THEN a.value ELSE 0) /\ Values({"pending"})[b] = 0
      /\ Values(Authorized)[a] = (IF a.status = "pending" THEN 0 ELSE a.value) /\ Values(Authorized)[b] = a.value
  BY <1>1 DEF Ones, Values, Authorized, LedgerRow
<1>5. PendingIn(ledger) \in Nat /\ UndecidedIn(ledger) \in Nat /\ ApprovedIn(ledger) \in Nat /\ a.value \in Nat
  BY TalliesTyped, <1>1 DEF LedgerRow
<1> QED
  BY <1>3, <1>4, <1>5 DEF PendingIn, UndecidedIn, ApprovedIn

\* The dollars of pending rows are at most the largest order for each of them.
LEMMA UndecidedAtMost ==
  ASSUME FineLedger, \A a \in DOMAIN ledger : a.value <= MaxOrder
  PROVE  UndecidedIn(ledger) <= MaxOrder * PendingIn(ledger)
<1> DEFINE F == [a \in DOMAIN ledger |-> Values({"pending"})[a] * ledger[a]]
           G == [a \in DOMAIN ledger |-> Ones({"pending"})[a] * ledger[a]]
<1>1. MaxOrder \in Nat
  BY RulesAssumption
<1>2. ASSUME NEW a \in DOMAIN ledger PROVE F[a] \in Int /\ G[a] \in Int /\ F[a] <= MaxOrder * G[a]
  <2>1. ledger[a] \in Nat /\ a.value \in Nat /\ a.value <= MaxOrder
    BY DEF FineLedger, FineBag, IsABag, LedgerRow
  <2>2. a.value * ledger[a] <= MaxOrder * ledger[a] /\ a.value * ledger[a] \in Nat
    BY <2>1, <1>1
  <2>3. Values({"pending"})[a] = (IF a.status = "pending" THEN a.value ELSE 0) /\ Ones({"pending"})[a] = (IF a.status = "pending" THEN 1 ELSE 0)
    BY DEF FineLedger, Values, Ones
  <2> QED
    BY <1>1, <2>1, <2>2, <2>3
<1>3. IsFiniteSet(DOMAIN ledger)
  BY DEF FineLedger, FineBag
<1>4. SumOver(F, DOMAIN ledger) <= MaxOrder * SumOver(G, DOMAIN ledger)
  <2> HIDE DEF F, G
  <2> QED
    BY <1>1, <1>2, <1>3, SumAtMost
<1> QED
  BY <1>4 DEF PendingIn, UndecidedIn, Tally

-----------------------------------------------------------------------------
\* The sessions that hold a row: they wrote it and have not placed it.
Holders(r) == {t \in Trader : trader[t].pc \in {"approve", "place"} /\ trader[t].row = r}

\* Sessions that judge a portfolio with room for one more pending approval.
Hopeful == {t \in Trader : Judging(t) /\ trader[t].pf.pending < MaxPending}

\* The dollars a session may still write, having read its portfolio.
InMind == [t \in Trader |->
    IF Judging(t) /\ WithinLimits(trader[t].pf, trader[t].proposal) THEN trader[t].proposal.value ELSE 0]

\* How many approvals pend at most: the limit, and one for every other session
\* that read its portfolio before the limit was reached.
MostRows == MaxPending + Cardinality(Trader) - 1

\* What a session has in hand.
TradersFine ==
    /\ DOMAIN trader = Trader
    /\ \A t \in Trader :
          /\ Judging(t) => trader[t].proposal \in Proposal[t]
          /\ trader[t].pc = "approve" => trader[t].row \in LedgerRow /\ trader[t].row.status = "pending"
          /\ trader[t].pc = "place" => trader[t].row \in LedgerRow /\ trader[t].row.status = "approved"

\* No row is above the largest order.
RowsFine == FineLedger /\ \A a \in DOMAIN ledger : a.value <= MaxOrder

\* A row that sessions hold is on the ledger once for each of them.
RowsAreThere == \A r \in LedgerRow : Cardinality(Holders(r)) <= Copies(ledger, r)

\* What pends and what hopeful sessions may add stays within MostRows; what is
\* committed and what sessions have in mind stays within the day's dollars and
\* an overshoot of one order per pending row.
RoomLeft ==
    /\ PendingIn(ledger) + Cardinality(Hopeful) <= MostRows
    /\ (ApprovedIn(ledger) + UndecidedIn(ledger)) + SumOver(InMind, Trader) <= MaxDaily + MostRows * MaxOrder

\* The inductive invariant of the limits.
LimitsInv == TradersFine /\ RowsFine /\ RowsAreThere /\ RoomLeft

\* The holders of a row can be counted.
LEMMA Holding ==
  ASSUME NEW r
  PROVE  IsFiniteSet(Holders(r)) /\ Cardinality(Holders(r)) \in Nat
BY RulesAssumption, FS_Subset, FS_CardinalityType DEF Holders

\* A row that is held is on the ledger.
LEMMA HeldIsThere ==
  ASSUME RowsAreThere, RowsFine, NEW t \in Trader, trader[t].pc \in {"approve", "place"}, trader[t].row \in LedgerRow
  PROVE  trader[t].row \in DOMAIN ledger
<1> DEFINE r == trader[t].row
<1>1. t \in Holders(r)
  BY DEF Holders
<1>2. Cardinality(Holders(r)) # 0
  <2>1. Holders(r) # {} /\ IsFiniteSet(Holders(r))
    BY <1>1, Holding
  <2> QED
    BY <2>1, FS_EmptySet
<1>3. Copies(ledger, r) > 0
  <2>1. Cardinality(Holders(r)) \in Nat /\ Cardinality(Holders(r)) <= Copies(ledger, r)
    BY Holding DEF RowsAreThere
  <2>2. Copies(ledger, r) \in Nat
    BY DEF Copies, RowsFine, FineLedger, FineBag, IsABag
  <2> QED
    BY <1>2, <2>1, <2>2
<1> QED
  BY <1>3 DEF Copies

\* How a finite set's size follows one member.
LEMMA SizeFollows ==
  ASSUME NEW S, IsFiniteSet(S), NEW T, NEW t
  PROVE  /\ T \subseteq S => IsFiniteSet(T) /\ Cardinality(T) <= Cardinality(S)
         /\ T \subseteq S \cup {t} => IsFiniteSet(T) /\ Cardinality(T) <= Cardinality(S) + 1
         /\ T \subseteq S \ {t} /\ t \in S => IsFiniteSet(T) /\ Cardinality(T) <= Cardinality(S) - 1
<1>1. /\ IsFiniteSet(S \cup {t}) /\ Cardinality(S \cup {t}) <= Cardinality(S) + 1
      /\ IsFiniteSet(S \ {t}) /\ (t \in S => Cardinality(S \ {t}) = Cardinality(S) - 1)
      /\ Cardinality(S) \in Nat
  <2>1. /\ IsFiniteSet(S \cup {t})
        /\ Cardinality(S \cup {t}) = IF t \in S THEN Cardinality(S) ELSE Cardinality(S) + 1
    BY FS_AddElement
  <2>2. /\ IsFiniteSet(S \ {t})
        /\ Cardinality(S \ {t}) = IF t \in S THEN Cardinality(S) - 1 ELSE Cardinality(S)
    BY FS_RemoveElement
  <2>3. Cardinality(S) \in Nat
    BY FS_CardinalityType
  <2> QED
    BY <2>1, <2>2, <2>3
<1>2. ASSUME NEW B, IsFiniteSet(B), T \subseteq B
      PROVE  IsFiniteSet(T) /\ Cardinality(T) <= Cardinality(B) /\ Cardinality(T) \in Nat /\ Cardinality(B) \in Nat
  BY <1>2, FS_Subset, FS_CardinalityType
<1>3. T \subseteq S \cup {t} => IsFiniteSet(T) /\ Cardinality(T) <= Cardinality(S) + 1
  <2> SUFFICES ASSUME T \subseteq S \cup {t} PROVE IsFiniteSet(T) /\ Cardinality(T) <= Cardinality(S) + 1
    OBVIOUS
  <2> DEFINE B == S \cup {t}
  <2>1. IsFiniteSet(T) /\ Cardinality(T) <= Cardinality(B) /\ Cardinality(T) \in Nat /\ Cardinality(B) \in Nat
    BY <1>1, <1>2
  <2> QED
    BY <1>1, <2>1
<1>4. T \subseteq S \ {t} /\ t \in S => IsFiniteSet(T) /\ Cardinality(T) <= Cardinality(S) - 1
  BY <1>1, <1>2
<1> QED
  BY <1>2, <1>3, <1>4

\* Only the mind of session t changes.
LEMMA MindMoves ==
  ASSUME TradersFine, TradersFine', NEW t \in Trader, \A u \in Trader \ {t} : trader'[u] = trader[u]
  PROVE  /\ \A u \in Trader : InMind[u] \in Nat /\ InMind'[u] \in Nat
         /\ SumOver(InMind, Trader) \in Nat
         /\ SumOver(InMind', Trader) = (SumOver(InMind, Trader) - InMind[t]) + InMind'[t]
<1>1. \A u \in Trader : InMind[u] \in Nat
  BY RulesAssumption DEF InMind, TradersFine
<1>2. \A u \in Trader : InMind'[u] \in Nat
  BY RulesAssumption DEF InMind, TradersFine
<1>3. \A u \in Trader \ {t} : InMind'[u] = InMind[u]
  BY DEF InMind, Judging
<1>4. IsFiniteSet(Trader)
  BY RulesAssumption
<1> DEFINE F == InMind
           G == InMind'
<1>5. \A u \in Trader : F[u] \in Int /\ G[u] \in Int
  BY <1>1, <1>2
<1>6. SumOver(F, Trader) \in Nat
  BY <1>1, <1>4, SumNat
<1>7. SumOver(G, Trader) = SumOver(F, Trader) - F[t] + G[t]
  <2>1. \A u \in Trader \ {t} : G[u] = F[u]
    BY <1>3
  <2> HIDE DEF F, G
  <2> QED
    BY <1>4, <1>5, <2>1, SumChanges
<1> QED
  BY <1>1, <1>2, <1>6, <1>7

\* What one session may write is at most the largest order.
LEMMA MindAtMost ==
  ASSUME TradersFine, NEW t \in Trader
  PROVE  SumOver(InMind, Trader) - InMind[t] <= MaxOrder * (Cardinality(Trader) - 1)
<1> DEFINE S == Trader \ {t}
           one == [u \in S |-> 1]
<1>1. IsFiniteSet(Trader) /\ MaxOrder \in Nat
  BY RulesAssumption
<1>2. \A u \in Trader : InMind[u] \in Int /\ InMind[u] <= MaxOrder
  BY RulesAssumption DEF InMind, TradersFine, WithinLimits
<1>3. IsFiniteSet(S) /\ Cardinality(S) = Cardinality(Trader) - 1
  BY <1>1, FS_RemoveElement
<1>4. SumOver(one, S) = Cardinality(S)
  <2>1. \A u \in S : one[u] = 1
    OBVIOUS
  <2> HIDE DEF one, S
  <2> QED
    BY <1>3, <2>1, SumCounts
<1>5. SumOver(InMind, S) <= MaxOrder * SumOver(one, S)
  <2>1. \A u \in S : InMind[u] \in Int /\ one[u] \in Int /\ InMind[u] <= MaxOrder * one[u]
    BY <1>1, <1>2
  <2> HIDE DEF one, S
  <2> QED
    BY <1>1, <1>3, <2>1, SumAtMost
<1>6. SumOver(InMind, Trader) = InMind[t] + SumOver(InMind, S)
  BY <1>1, <1>2, SumTakesOne
<1>7. SumOver(InMind, S) \in Int
  BY <1>2, <1>3, SumType
<1> QED
  BY <1>2, <1>3, <1>4, <1>5, <1>6, <1>7

\* The totals in the model's own words.
LEMMA PortfolioTotals ==
  ASSUME FineLedger
  PROVE  /\ Count({"pending"}) = PendingIn(ledger) /\ Dollars(Authorized) = ApprovedIn(ledger)
         /\ Portfolio.pending = PendingIn(ledger) /\ Portfolio.approved = ApprovedIn(ledger)
<1>1. Count({"pending"}) = PendingIn(ledger) /\ Dollars(Authorized) = ApprovedIn(ledger)
  BY CountIsTally, DollarsIsTally DEF PendingIn, ApprovedIn
<1>2. Portfolio.pending = Count({"pending"}) /\ Portfolio.approved = Dollars(Authorized)
  BY DEF Portfolio
<1> QED
  BY <1>1, <1>2

\* The rules begin with an empty ledger and idle sessions.
LEMMA LimitsStart ==
  ASSUME RulesInit
  PROVE  LimitsInv
<1>1. ledger = EmptyBag /\ DOMAIN ledger = {} /\ IsFiniteSet(DOMAIN ledger)
  BY FS_EmptySet DEF RulesInit, EmptyBag, SetToBag
<1>2. RowsFine
  BY <1>1 DEF RowsFine, FineLedger, FineBag, IsABag
<1>3. TradersFine
  BY DEF RulesInit, TradersFine, Judging
<1>4. \A W : Tally(W, ledger) = 0
  BY <1>1, SumOfNone DEF Tally
<1>5. Hopeful = {} /\ \A r : Holders(r) = {}
  BY DEF RulesInit, Hopeful, Holders, Judging
<1>6. SumOver(InMind, Trader) = 0
  <2>1. \A t \in Trader : InMind[t] = 0
    BY DEF RulesInit, InMind, Judging
  <2>2. SumOver(InMind, Trader) = SumOver(InMind, {})
    BY <2>1, RulesAssumption, SumSkipsZeros
  <2> QED
    BY <2>2, SumOfNone
<1>7. MostRows \in Nat /\ MaxDaily \in Nat /\ MaxOrder \in Nat
  <2>1. Cardinality(Trader) \in Nat /\ Cardinality(Trader) # 0
    BY RulesAssumption, FS_EmptySet, FS_CardinalityType
  <2> QED
    BY <2>1, RulesAssumption DEF MostRows
<1>8. MostRows * MaxOrder \in Nat
  BY <1>7
<1>9. RowsAreThere
  BY <1>1, <1>5, FS_EmptySet, SMTT(30) DEF RowsAreThere, Copies
<1>10. RoomLeft
  BY <1>4, <1>5, <1>6, <1>7, <1>8, FS_EmptySet DEF RoomLeft, PendingIn, UndecidedIn, ApprovedIn
<1> QED
  BY <1>2, <1>3, <1>9, <1>10 DEF LimitsInv

\* A portfolio is read with room for what the others have in mind.
LEMMA ReadKeepsLimits ==
  ASSUME LimitsInv, NEW t \in Trader, Read(t)
  PROVE  LimitsInv'
<1>1. PICK p \in Proposal[t] : trader' = [trader EXCEPT ![t] = [pc |-> "judge", proposal |-> p, pf |-> Portfolio]]
  BY DEF Read
<1>2. trader[t].pc = "free" /\ ledger' = ledger
  BY DEF Read
<1>3. TradersFine' /\ \A u \in Trader \ {t} : trader'[u] = trader[u]
  BY <1>1 DEF LimitsInv, TradersFine, Judging
<1>4. trader'[t] = [pc |-> "judge", proposal |-> p, pf |-> Portfolio]
  BY <1>1 DEF LimitsInv, TradersFine
<1>5. RowsFine'
  BY <1>2 DEF LimitsInv, RowsFine, FineLedger
<1>6. RowsAreThere'
  <2>1. \A r : Holders(r)' = Holders(r)
    BY <1>2, <1>3, <1>4 DEF Holders
  <2> QED
    BY <1>2, <2>1 DEF LimitsInv, RowsAreThere
<1> DEFINE P == PendingIn(ledger)
           A == ApprovedIn(ledger)
           D == UndecidedIn(ledger)
           n == Cardinality(Trader)
<1>7. P \in Nat /\ A \in Nat /\ D \in Nat /\ D <= MaxOrder * P
  BY TalliesTyped, UndecidedAtMost DEF LimitsInv, RowsFine
<1>8. /\ PendingIn(ledger)' = P /\ ApprovedIn(ledger)' = A /\ UndecidedIn(ledger)' = D
      /\ Portfolio.pending = P /\ Portfolio.approved = A
  BY <1>2, PortfolioTotals DEF LimitsInv, RowsFine, PendingIn, ApprovedIn, UndecidedIn, Authorized
<1>9. n \in Nat /\ n # 0 /\ MaxOrder \in Nat /\ MaxPending \in Nat /\ MaxDaily \in Nat
  BY RulesAssumption, FS_EmptySet, FS_CardinalityType
<1>10. IsFiniteSet(Hopeful) /\ Cardinality(Hopeful) \in Nat /\ IsFiniteSet(Hopeful') /\ Cardinality(Hopeful') <= n
       /\ Cardinality(Hopeful') \in Nat
  <2>1. Hopeful \subseteq Trader /\ Hopeful' \subseteq Trader
    BY DEF Hopeful
  <2> QED
    BY <2>1, RulesAssumption, FS_Subset, FS_CardinalityType
<1>11. P + Cardinality(Hopeful)' <= MostRows
  <2>1. CASE P < MaxPending
    BY <2>1, <1>7, <1>9, <1>10 DEF MostRows
  <2>2. CASE ~(P < MaxPending)
    <3>1. t \notin Hopeful'
      BY <1>4, <1>8, <2>2 DEF Hopeful
    <3>2. Hopeful' \subseteq Hopeful
      BY <1>3, <3>1 DEF Hopeful, Judging
    <3>3. Cardinality(Hopeful') <= Cardinality(Hopeful)
      BY <1>10, <3>2, SizeFollows
    <3> QED
      BY <1>7, <1>10, <3>3, <1>9 DEF LimitsInv, RoomLeft, MostRows
  <2> QED
    BY <2>1, <2>2
<1>12. (A + D) + SumOver(InMind', Trader) <= MaxDaily + MostRows * MaxOrder
  <2>1. /\ \A u \in Trader : InMind[u] \in Nat /\ InMind'[u] \in Nat
        /\ SumOver(InMind, Trader) \in Nat
        /\ SumOver(InMind', Trader) = (SumOver(InMind, Trader) - InMind[t]) + InMind'[t]
    BY <1>3, MindMoves DEF LimitsInv
  <2>2. InMind[t] = 0
    BY <1>2 DEF InMind, Judging
  <2>3. (A + D) + SumOver(InMind, Trader) <= MaxDaily + MostRows * MaxOrder
    BY DEF LimitsInv, RoomLeft
  <2>4. CASE InMind'[t] = 0
    BY <1>7, <2>1, <2>2, <2>3, <2>4
  <2>5. CASE InMind'[t] # 0
    <3>1. WithinLimits(Portfolio, p) /\ InMind'[t] = p.value
      BY <1>4, <2>5 DEF InMind, WithinLimits, Judging
    <3>2. P < MaxPending /\ A + p.value <= MaxDaily
      BY <1>8, <3>1 DEF WithinLimits
    <3>3. SumOver(InMind, Trader) <= MaxOrder * (n - 1)
      <4>1. SumOver(InMind, Trader) - InMind[t] <= MaxOrder * (n - 1)
        BY MindAtMost DEF LimitsInv
      <4> QED
        BY <2>1, <2>2, <4>1
    <3>4. p.value \in Nat
      BY RulesAssumption
    <3>5. D <= MaxOrder * (MaxPending - 1)
      <4>1. MaxOrder * P <= MaxOrder * (MaxPending - 1)
        BY <1>7, <1>9, <3>2
      <4>2. MaxOrder * P \in Int /\ MaxOrder * (MaxPending - 1) \in Int
        BY <1>7, <1>9
      <4> QED
        BY <1>7, <4>1, <4>2
    <3>6. MaxOrder * (MaxPending - 1) + MaxOrder * (n - 1) <= MostRows * MaxOrder
      BY <1>9 DEF MostRows
    <3>7. /\ MaxOrder * (MaxPending - 1) \in Int /\ MaxOrder * (n - 1) \in Int
          /\ MostRows * MaxOrder \in Int
      BY <1>9 DEF MostRows
    <3> HIDE DEF A, D, P, n
    <3> QED
      BY <1>7, <1>9, <2>1, <2>2, <3>1, <3>2, <3>3, <3>4, <3>5, <3>6, <3>7, SMTT(30)
  <2> QED
    BY <2>4, <2>5
<1>13. RoomLeft'
  <2>1. MostRows' = MostRows
    BY DEF MostRows
  <2> QED
    BY <1>8, <1>11, <1>12, <2>1 DEF RoomLeft
<1> QED
  BY <1>3, <1>5, <1>6, <1>13 DEF LimitsInv

\* A step after which no more is pending, hoped for or written.
LEMMA NoMoreWritten ==
  ASSUME LimitsInv, TradersFine', RowsFine', RowsAreThere',
         PendingIn(ledger)' + Cardinality(Hopeful)' <= PendingIn(ledger) + Cardinality(Hopeful),
         (ApprovedIn(ledger)' + UndecidedIn(ledger)') + SumOver(InMind, Trader)'
            <= (ApprovedIn(ledger) + UndecidedIn(ledger)) + SumOver(InMind, Trader)
  PROVE  LimitsInv'
<1>1. MostRows' = MostRows /\ MostRows \in Int /\ MaxDaily + MostRows * MaxOrder \in Int
  <2>1. Cardinality(Trader) \in Nat
    BY RulesAssumption, FS_CardinalityType
  <2>2. MostRows \in Int /\ MaxOrder \in Nat /\ MaxDaily \in Nat
    BY <2>1, RulesAssumption DEF MostRows
  <2> QED
    BY <2>2 DEF MostRows
<1>2. /\ PendingIn(ledger) \in Nat /\ UndecidedIn(ledger) \in Nat /\ ApprovedIn(ledger) \in Nat
      /\ PendingIn(ledger)' \in Nat /\ UndecidedIn(ledger)' \in Nat /\ ApprovedIn(ledger)' \in Nat
  <2>1. /\ FineBag(ledger) /\ DOMAIN ledger \subseteq LedgerRow
        /\ FineBag(ledger') /\ DOMAIN ledger' \subseteq LedgerRow
    BY DEF LimitsInv, RowsFine, FineLedger
  <2>2. PendingIn(ledger') \in Nat /\ UndecidedIn(ledger') \in Nat /\ ApprovedIn(ledger') \in Nat
    BY <2>1, TalliesOf
  <2> QED
    BY <2>1, <2>2, TalliesOf DEF PendingIn, UndecidedIn, ApprovedIn, Authorized
<1>3. Cardinality(Hopeful) \in Nat /\ Cardinality(Hopeful)' \in Nat
  <2>1. Hopeful \subseteq Trader /\ Hopeful' \subseteq Trader
    BY DEF Hopeful
  <2> QED
    BY <2>1, RulesAssumption, FS_Subset, FS_CardinalityType
<1>4. SumOver(InMind, Trader) \in Nat /\ SumOver(InMind, Trader)' \in Nat
  <2>1. \A u \in Trader : InMind[u] \in Nat /\ InMind'[u] \in Nat
    BY RulesAssumption DEF LimitsInv, InMind, TradersFine
  <2> QED
    BY <2>1, RulesAssumption, SumNat
<1>5. RoomLeft'
  BY <1>1, <1>2, <1>3, <1>4 DEF LimitsInv, RoomLeft
<1> QED
  BY <1>5 DEF LimitsInv

\* A row that changes its status is as large as before.
LEMMA RowMovesFine ==
  ASSUME RowsFine, NEW a \in DOMAIN ledger, NEW s \in RowStatus, s # a.status, ledger' = To(a, s)
  PROVE  RowsFine'
<1> DEFINE b == [a EXCEPT !.status = s]
<1>1. b \in LedgerRow /\ b.value = a.value
  BY StatusChanges DEF RowsFine, FineLedger
<1>2. FineBag(ledger') /\ DOMAIN ledger' \subseteq DOMAIN ledger \cup {b}
  BY RowMoves DEF RowsFine
<1> QED
  BY <1>1, <1>2 DEF RowsFine, FineLedger

\* A row no session holds changes its status, or leaves while it is pending.
LEMMA OthersKeepLimits ==
  ASSUME LimitsInv, UNCHANGED trader, NEW a \in DOMAIN ledger, Copies(ledger, a) > Cardinality(Holders(a)),
         \/ \E s \in Authorized : s # a.status /\ ledger' = To(a, s)
         \/ a.status = "pending" /\ ledger' = Without(a)
  PROVE  LimitsInv'
<1>1. TradersFine' /\ Hopeful' = Hopeful /\ InMind' = InMind /\ \A r : Holders(r)' = Holders(r)
  BY DEF LimitsInv, TradersFine, Hopeful, InMind, Holders, Judging
<1>2. FineLedger /\ a \in LedgerRow /\ a.value \in Nat
  BY DEF LimitsInv, RowsFine, FineLedger, LedgerRow
<1>3. /\ PendingIn(ledger) \in Nat /\ UndecidedIn(ledger) \in Nat /\ ApprovedIn(ledger) \in Nat
      /\ Cardinality(Hopeful) \in Nat /\ SumOver(InMind, Trader) \in Nat
      /\ \A r : Copies(ledger, r) \in Nat /\ Cardinality(Holders(r)) \in Nat
  <2>1. Hopeful \subseteq Trader
    BY DEF Hopeful
  <2>2. \A u \in Trader : InMind[u] \in Nat
    BY RulesAssumption DEF LimitsInv, InMind, TradersFine
  <2>3. \A r : Copies(ledger, r) \in Nat
    BY <1>2 DEF Copies, FineLedger, FineBag, IsABag
  <2> QED
    BY <1>2, <2>1, <2>2, <2>3, TalliesTyped, RulesAssumption, FS_Subset, FS_CardinalityType, SumNat, Holding
<1>4. CASE \E s \in Authorized : s # a.status /\ ledger' = To(a, s)
  <2>1. PICK s \in Authorized : s # a.status /\ ledger' = To(a, s)
    BY <1>4
  <2>2. s \in RowStatus
    BY DEF Authorized
  <2> DEFINE b == [a EXCEPT !.status = s]
  <2>3. RowsFine'
    BY <2>1, <2>2, RowMovesFine DEF LimitsInv
  <2>4. /\ PendingIn(ledger)' = PendingIn(ledger) - (IF a.status = "pending" THEN 1 ELSE 0)
        /\ UndecidedIn(ledger)' = UndecidedIn(ledger) - (IF a.status = "pending" THEN a.value ELSE 0)
        /\ ApprovedIn(ledger)' = ApprovedIn(ledger) + (IF a.status = "pending" THEN a.value ELSE 0)
    <3>1. /\ PendingIn(ledger') = PendingIn(ledger) - (IF a.status = "pending" THEN 1 ELSE 0)
          /\ UndecidedIn(ledger') = UndecidedIn(ledger) - (IF a.status = "pending" THEN a.value ELSE 0)
          /\ ApprovedIn(ledger') = ApprovedIn(ledger) + (IF a.status = "pending" THEN a.value ELSE 0)
      BY <1>2, <2>1, TotalsMove
    <3> QED
      BY <3>1 DEF PendingIn, UndecidedIn, ApprovedIn
  <2>5. RowsAreThere'
    <3>1. /\ Copies(ledger', a) = Copies(ledger, a) - 1 /\ Copies(ledger', b) = Copies(ledger, b) + 1
          /\ \A x : x # a /\ x # b => Copies(ledger', x) = Copies(ledger, x)
      BY <1>2, <2>1, <2>2, RowMoves
    <3> HIDE DEF b
    <3>2. ASSUME NEW r \in LedgerRow PROVE Cardinality(Holders(r)) <= Copies(ledger', r)
      <4>1. Cardinality(Holders(r)) <= Copies(ledger, r)
        BY DEF LimitsInv, RowsAreThere
      <4> QED
        BY <1>3, <3>1, <4>1
    <3> QED
      BY <1>1, <3>2 DEF RowsAreThere, Copies
  <2> QED
    BY <1>1, <1>2, <1>3, <2>3, <2>4, <2>5, NoMoreWritten
<1>5. CASE a.status = "pending" /\ ledger' = Without(a)
  <2>1. /\ FineBag(ledger') /\ DOMAIN ledger' \subseteq DOMAIN ledger
        /\ Copies(ledger', a) = Copies(ledger, a) - 1 /\ SameBut(a, ledger, ledger')
        /\ \A W \in [LedgerRow -> Nat] : Tally(W, ledger') = Tally(W, ledger) - W[a]
    BY <1>2, <1>5, RowLeaves
  <2>2. RowsFine'
    BY <2>1 DEF LimitsInv, RowsFine, FineLedger
  <2>3. RowsAreThere'
    <3>1. ASSUME NEW r \in LedgerRow PROVE Cardinality(Holders(r)) <= Copies(ledger', r)
      <4>1. Cardinality(Holders(r)) <= Copies(ledger, r)
        BY DEF LimitsInv, RowsAreThere
      <4>2. r # a => Copies(ledger', r) = Copies(ledger, r)
        BY <2>1 DEF SameBut
      <4> QED
        BY <1>3, <2>1, <4>1, <4>2
    <3> QED
      BY <1>1, <3>1 DEF RowsAreThere, Copies
  <2>4. /\ Tally(Ones({"pending"}), ledger') = PendingIn(ledger) - 1
        /\ Tally(Values({"pending"}), ledger') = UndecidedIn(ledger) - a.value
        /\ Tally(Values(Authorized), ledger') = ApprovedIn(ledger)
    <3>1. Ones({"pending"})[a] = 1 /\ Values({"pending"})[a] = a.value /\ Values(Authorized)[a] = 0
      BY <1>2, <1>5 DEF Ones, Values, Authorized
    <3> QED
      BY <1>3, <2>1, <3>1, WeightsTyped DEF PendingIn, UndecidedIn, ApprovedIn
  <2>5. /\ PendingIn(ledger)' = PendingIn(ledger) - 1
        /\ UndecidedIn(ledger)' = UndecidedIn(ledger) - a.value
        /\ ApprovedIn(ledger)' = ApprovedIn(ledger)
    BY <2>4 DEF PendingIn, UndecidedIn, ApprovedIn, Authorized
  <2> QED
    BY <1>1, <1>2, <1>3, <2>2, <2>3, <2>5, NoMoreWritten
<1> QED
  BY <1>4, <1>5

\* A session that lets go of its row or its proposal.
LEMMA SessionLetsGo ==
  ASSUME LimitsInv, NEW t \in Trader, trader' = [trader EXCEPT ![t] = [pc |-> "free"]]
  PROVE  /\ TradersFine'
         /\ \A r : Holders(r)' \subseteq Holders(r) \ {t}
         /\ Cardinality(Hopeful') <= Cardinality(Hopeful)
         /\ SumOver(InMind', Trader) = SumOver(InMind, Trader) - InMind[t]
         /\ Cardinality(Hopeful) \in Nat /\ SumOver(InMind, Trader) \in Nat /\ InMind[t] \in Nat
         /\ (t \in Hopeful => Cardinality(Hopeful') <= Cardinality(Hopeful) - 1)
         /\ Cardinality(Hopeful') \in Nat
<1>1. trader'[t] = [pc |-> "free"] /\ \A u \in Trader \ {t} : trader'[u] = trader[u]
  BY DEF LimitsInv, TradersFine
<1>2. TradersFine'
  BY <1>1 DEF LimitsInv, TradersFine, Judging
<1>3. \A r : Holders(r)' \subseteq Holders(r) \ {t}
  BY <1>1 DEF Holders
<1>4. Hopeful' \subseteq Hopeful \ {t} /\ IsFiniteSet(Hopeful)
  <2>1. Hopeful \subseteq Trader
    BY DEF Hopeful
  <2>2. Hopeful' \subseteq Hopeful \ {t}
    BY <1>1 DEF Hopeful, Judging
  <2> QED
    BY <2>1, <2>2, RulesAssumption, FS_Subset
<1>5. Hopeful' \subseteq Hopeful /\ IsFiniteSet(Hopeful') /\ Cardinality(Hopeful) \in Nat /\ Cardinality(Hopeful') \in Nat
  BY <1>4, FS_Subset, FS_CardinalityType
<1>6. /\ Cardinality(Hopeful') <= Cardinality(Hopeful)
      /\ t \in Hopeful => Cardinality(Hopeful') <= Cardinality(Hopeful) - 1
  BY <1>4, <1>5, SizeFollows
<1>7. /\ \A u \in Trader : InMind[u] \in Nat /\ InMind'[u] \in Nat
      /\ SumOver(InMind, Trader) \in Nat
      /\ SumOver(InMind', Trader) = (SumOver(InMind, Trader) - InMind[t]) + InMind'[t]
  BY <1>1, <1>2, MindMoves DEF LimitsInv
<1>8. InMind'[t] = 0
  BY <1>1 DEF InMind, Judging
<1> QED
  BY <1>2, <1>3, <1>5, <1>6, <1>7, <1>8

\* The same bag, and rows held by fewer.
LEMMA FewerHolders ==
  ASSUME RowsFine, RowsAreThere, UNCHANGED ledger, \A r : Holders(r)' \subseteq Holders(r)
  PROVE  RowsAreThere'
<1>1. ASSUME NEW r \in LedgerRow PROVE Cardinality(Holders(r)') <= Copies(ledger, r)
  <2>1. IsFiniteSet(Holders(r)) /\ Cardinality(Holders(r)) \in Nat /\ Cardinality(Holders(r)) <= Copies(ledger, r)
    BY Holding DEF RowsAreThere
  <2>2. Cardinality(Holders(r)') <= Cardinality(Holders(r)) /\ Cardinality(Holders(r)') \in Nat
    BY <2>1, FS_Subset, FS_CardinalityType
  <2>3. Copies(ledger, r) \in Nat
    BY DEF Copies, RowsFine, FineLedger, FineBag, IsABag
  <2> QED
    BY <2>1, <2>2, <2>3
<1> QED
  BY <1>1 DEF RowsAreThere, Copies

\* A row is written for a proposal that passed, by a session with that room.
LEMMA JudgeKeepsLimits ==
  ASSUME LimitsInv, NEW t \in Trader, Judge(t)
  PROVE  LimitsInv'
<1> DEFINE p == trader[t].proposal
           r == Row(p, "pending")
<1>1. /\ trader[t].pc = "judge" /\ p \in Proposal[t]
      /\ \A x : t \notin Holders(x)
  BY DEF Judge, Judging, LimitsInv, TradersFine, Holders
<1>2. p.on \in Ticker /\ p.value \in Nat
  BY <1>1, RulesAssumption
<1>3. r \in LedgerRow /\ r.status = "pending" /\ r.value = p.value
  BY <1>2 DEF Row, LedgerRow, RowStatus
<1>4. FineLedger /\ FineBag(ledger) /\ DOMAIN ledger \subseteq LedgerRow
  BY DEF LimitsInv, RowsFine, FineLedger
<1>5. /\ PendingIn(ledger) \in Nat /\ UndecidedIn(ledger) \in Nat /\ ApprovedIn(ledger) \in Nat
      /\ \A x : Copies(ledger, x) \in Nat /\ Cardinality(Holders(x)) \in Nat /\ IsFiniteSet(Holders(x))
  <2>1. \A x : Copies(ledger, x) \in Nat
    BY <1>4 DEF Copies, FineBag, IsABag
  <2> QED
    BY <1>4, <2>1, TalliesTyped, Holding
<1>6. CASE trader' = [trader EXCEPT ![t] = [pc |-> "free"]] /\ UNCHANGED ledger
  <2>1. /\ TradersFine'
        /\ \A x : Holders(x)' \subseteq Holders(x) \ {t}
        /\ Cardinality(Hopeful') <= Cardinality(Hopeful)
        /\ SumOver(InMind', Trader) = SumOver(InMind, Trader) - InMind[t]
        /\ Cardinality(Hopeful) \in Nat /\ SumOver(InMind, Trader) \in Nat /\ InMind[t] \in Nat
        /\ Cardinality(Hopeful') \in Nat
    BY <1>6, SessionLetsGo
  <2>2. RowsFine'
    BY <1>6 DEF LimitsInv, RowsFine, FineLedger
  <2>3. RowsAreThere'
    BY <1>6, <2>1, FewerHolders DEF LimitsInv
  <2>4. PendingIn(ledger)' = PendingIn(ledger) /\ ApprovedIn(ledger)' = ApprovedIn(ledger) /\ UndecidedIn(ledger)' = UndecidedIn(ledger)
    BY <1>6 DEF PendingIn, ApprovedIn, UndecidedIn, Authorized
  <2> QED
    BY <1>5, <2>1, <2>2, <2>3, <2>4, NoMoreWritten
<1>7. CASE /\ Passes(p, trader[t].pf) /\ ledger' = ledger (+) SetToBag({r})
           /\ trader' = [trader EXCEPT ![t] = IF p.asks THEN [pc |-> "free"] ELSE [pc |-> "approve", row |-> r]]
  <2>1. WithinLimits(trader[t].pf, p) /\ p.value <= MaxOrder /\ t \in Hopeful /\ InMind[t] = p.value
    <3>1. WithinLimits(trader[t].pf, p)
      BY <1>7 DEF Passes, WorkflowAccepts, ExecutorAccepts
    <3> QED
      BY <1>1, <3>1 DEF WithinLimits, Hopeful, InMind, Judging
  <2> DEFINE next == IF p.asks THEN [pc |-> "free"] ELSE [pc |-> "approve", row |-> r]
  <2>2. /\ trader'[t] = next /\ \A u \in Trader \ {t} : trader'[u] = trader[u]
        /\ DOMAIN trader' = Trader /\ next.pc \in {"free", "approve"} /\ (next.pc = "approve" => next.row = r)
    BY <1>7 DEF LimitsInv, TradersFine
  <2>3. TradersFine'
    BY <1>3, <2>2 DEF LimitsInv, TradersFine, Judging
  <2>4. /\ FineBag(ledger') /\ DOMAIN ledger' = DOMAIN ledger \cup {r}
        /\ Copies(ledger', r) = Copies(ledger, r) + 1 /\ SameBut(r, ledger, ledger')
    BY <1>4, <1>7, OneMore
  <2>5. RowsFine'
    BY <1>3, <2>1, <2>4 DEF LimitsInv, RowsFine, FineLedger
  <2>6. RowsAreThere'
    <3>1. ASSUME NEW x PROVE Holders(x)' \subseteq Holders(x) \cup {t} /\ (x # r => Holders(x)' \subseteq Holders(x))
      <4>1. ASSUME NEW u \in Holders(x)', u # t PROVE u \in Holders(x)
        BY <2>2, <4>1 DEF Holders
      <4>2. t \in Holders(x)' => x = r
        <5> HIDE DEF next, r
        <5> QED
          BY <2>2 DEF Holders
      <4> QED
        BY <4>1, <4>2
    <3> HIDE DEF r
    <3>2. ASSUME NEW x \in LedgerRow PROVE Cardinality(Holders(x)') <= Copies(ledger', x)
      <4>1. Cardinality(Holders(x)) <= Copies(ledger, x)
        BY DEF LimitsInv, RowsAreThere
      <4>2. CASE x = r
        <5>1. Cardinality(Holders(x)') <= Cardinality(Holders(x)) + 1 /\ IsFiniteSet(Holders(x)')
          <6>1. Holders(x)' \subseteq Holders(x) \cup {t} /\ IsFiniteSet(Holders(x))
            BY <1>5, <3>1
          <6> QED
            BY <6>1, SizeFollows
        <5>2. Cardinality(Holders(x)') \in Nat
          BY <5>1, FS_CardinalityType
        <5> QED
          BY <1>5, <2>4, <4>1, <4>2, <5>1, <5>2
      <4>3. CASE x # r
        <5>1. Cardinality(Holders(x)') <= Cardinality(Holders(x)) /\ IsFiniteSet(Holders(x)')
          BY <1>5, <3>1, <4>3, SizeFollows
        <5>2. Cardinality(Holders(x)') \in Nat
          BY <5>1, FS_CardinalityType
        <5>3. Copies(ledger', x) = Copies(ledger, x)
          BY <2>4, <4>3 DEF SameBut
        <5> QED
          BY <1>5, <4>1, <5>1, <5>2, <5>3
      <4> QED
        BY <4>2, <4>3
    <3> QED
      BY <3>2 DEF RowsAreThere, Copies
  <2>7. /\ PendingIn(ledger)' = PendingIn(ledger) + 1
        /\ UndecidedIn(ledger)' = UndecidedIn(ledger) + p.value
        /\ ApprovedIn(ledger)' = ApprovedIn(ledger)
    <3>1. \A W \in [LedgerRow -> Nat] : Tally(W, ledger') = Tally(W, ledger) + W[r]
      BY <1>3, <1>4, <1>7, TallyOneMore
    <3>2. Ones({"pending"})[r] = 1 /\ Values({"pending"})[r] = p.value /\ Values(Authorized)[r] = 0
      BY <1>3 DEF Ones, Values, Authorized
    <3> HIDE DEF r
    <3>3. /\ Tally(Ones({"pending"}), ledger') = PendingIn(ledger) + 1
          /\ Tally(Values({"pending"}), ledger') = UndecidedIn(ledger) + p.value
          /\ Tally(Values(Authorized), ledger') = ApprovedIn(ledger) + 0
      BY <3>1, <3>2, WeightsTyped DEF PendingIn, UndecidedIn, ApprovedIn
    <3> QED
      BY <1>5, <3>3 DEF PendingIn, UndecidedIn, ApprovedIn, Authorized
  <2>8. Cardinality(Hopeful') <= Cardinality(Hopeful) - 1 /\ Cardinality(Hopeful) \in Nat /\ Cardinality(Hopeful') \in Nat
    <3>1. Hopeful' \subseteq Hopeful \ {t} /\ Hopeful \subseteq Trader
      BY <2>2 DEF Hopeful, Judging
    <3>2. IsFiniteSet(Hopeful)
      BY <3>1, RulesAssumption, FS_Subset
    <3> QED
      BY <2>1, <3>1, <3>2, SizeFollows, FS_CardinalityType
  <2>9. SumOver(InMind', Trader) = SumOver(InMind, Trader) - p.value /\ SumOver(InMind, Trader) \in Nat
    <3>1. /\ SumOver(InMind, Trader) \in Nat
          /\ SumOver(InMind', Trader) = (SumOver(InMind, Trader) - InMind[t]) + InMind'[t]
      BY <2>2, <2>3, MindMoves DEF LimitsInv
    <3>2. InMind'[t] = 0
      BY <2>2 DEF InMind, Judging
    <3> QED
      BY <1>2, <2>1, <3>1, <3>2
  <2> QED
    BY <1>2, <1>5, <2>3, <2>5, <2>6, <2>7, <2>8, <2>9, NoMoreWritten
<1> QED
  BY <1>6, <1>7 DEF Judge

\* A session moves the row it holds, and goes on with it or lets it go.
LEMMA HolderKeepsLimits ==
  ASSUME LimitsInv, NEW t \in Trader, trader[t].pc \in {"approve", "place"},
         NEW s \in {"approved", "placed"}, s # trader[t].row.status,
         ledger' = To(trader[t].row, s),
         NEW next, trader' = [trader EXCEPT ![t] = next],
         \/ next = [pc |-> "free"]
         \/ next = [pc |-> "place", row |-> [trader[t].row EXCEPT !.status = s]] /\ s = "approved"
  PROVE  LimitsInv'
<1> DEFINE a == trader[t].row
           b == [a EXCEPT !.status = s]
<1>1. a \in LedgerRow /\ a \in DOMAIN ledger
  BY HeldIsThere DEF LimitsInv, TradersFine
<1>2. b \in LedgerRow /\ b.status = s /\ b.value = a.value /\ b # a /\ s \in RowStatus /\ s \in Authorized
  <2>1. s \in RowStatus /\ s \in Authorized
    BY DEF RowStatus, Authorized
  <2> QED
    BY <1>1, <2>1, StatusChanges
<1>3. /\ trader'[t] = next /\ \A u \in Trader \ {t} : trader'[u] = trader[u]
      /\ DOMAIN trader' = Trader
  BY DEF LimitsInv, TradersFine
<1>4. next.pc \in {"free", "place"} /\ (next.pc = "place" => next.row = b /\ s = "approved")
  OBVIOUS
<1> HIDE DEF b
<1>5. TradersFine'
  BY <1>2, <1>3, <1>4 DEF LimitsInv, TradersFine, Judging
<1>6. RowsFine'
  BY <1>1, <1>2, RowMovesFine DEF LimitsInv
<1>7. FineLedger /\ FineBag(ledger)
  BY DEF LimitsInv, RowsFine, FineLedger
<1>8. /\ PendingIn(ledger)' = PendingIn(ledger) - (IF a.status = "pending" THEN 1 ELSE 0)
      /\ UndecidedIn(ledger)' = UndecidedIn(ledger) - (IF a.status = "pending" THEN a.value ELSE 0)
      /\ ApprovedIn(ledger)' = ApprovedIn(ledger) + (IF a.status = "pending" THEN a.value ELSE 0)
  <2>1. /\ PendingIn(ledger') = PendingIn(ledger) - (IF a.status = "pending" THEN 1 ELSE 0)
        /\ UndecidedIn(ledger') = UndecidedIn(ledger) - (IF a.status = "pending" THEN a.value ELSE 0)
        /\ ApprovedIn(ledger') = ApprovedIn(ledger) + (IF a.status = "pending" THEN a.value ELSE 0)
    BY <1>1, <1>2, <1>7, TotalsMove
  <2> QED
    BY <2>1 DEF PendingIn, UndecidedIn, ApprovedIn
<1>9. RowsAreThere'
  <2>1. /\ Copies(ledger', a) = Copies(ledger, a) - 1 /\ Copies(ledger', b) = Copies(ledger, b) + 1
        /\ \A x : x # a /\ x # b => Copies(ledger', x) = Copies(ledger, x)
    BY <1>1, <1>2, <1>7, RowMoves DEF b
  <2>2. t \in Holders(a)
    BY DEF Holders
  <2>3. ASSUME NEW x
        PROVE  /\ Holders(x)' \subseteq Holders(x) \cup {t}
               /\ x = a => Holders(x)' \subseteq Holders(x) \ {t}
               /\ x # a /\ x # b => Holders(x)' \subseteq Holders(x)
    <3>1. ASSUME NEW u \in Holders(x)', u # t PROVE u \in Holders(x)
      BY <1>3, <3>1 DEF Holders
    <3>2. t \in Holders(x)' => x = b
      <4> HIDE DEF a
      <4> QED
        BY <1>3, <1>4 DEF Holders
    <3> QED
      BY <1>2, <3>1, <3>2
  <2>4. ASSUME NEW x \in LedgerRow PROVE Cardinality(Holders(x)') <= Copies(ledger', x)
    <3>1. /\ Cardinality(Holders(x)) <= Copies(ledger, x) /\ IsFiniteSet(Holders(x)) /\ Cardinality(Holders(x)) \in Nat
          /\ Copies(ledger, x) \in Nat
      BY <1>7, Holding DEF LimitsInv, RowsAreThere, Copies, FineBag, IsABag
    <3>2. /\ Holders(x)' \subseteq Holders(x) \cup {t}
          /\ x = a => Holders(x)' \subseteq Holders(x) \ {t} /\ t \in Holders(x)
          /\ x # a /\ x # b => Holders(x)' \subseteq Holders(x)
      BY <2>2, <2>3
    <3>3. IsFiniteSet(Holders(x)') /\ Cardinality(Holders(x)') <= Cardinality(Holders(x)) + 1
      BY <3>1, <3>2, SizeFollows
    <3>4. Cardinality(Holders(x)') \in Nat
      BY <3>3, FS_CardinalityType
    <3> HIDE DEF a
    <3>5. CASE x = a
      <4>1. Cardinality(Holders(x)') <= Cardinality(Holders(x)) - 1
        BY <3>1, <3>2, <3>5, SizeFollows
      <4> QED
        BY <2>1, <3>1, <3>4, <3>5, <4>1
    <3>6. CASE x = b
      BY <2>1, <3>1, <3>3, <3>4, <3>6
    <3>7. CASE x # a /\ x # b
      <4>1. Cardinality(Holders(x)') <= Cardinality(Holders(x))
        BY <3>1, <3>2, <3>7, SizeFollows
      <4>2. Copies(ledger', x) = Copies(ledger, x)
        BY <2>1, <3>7
      <4> QED
        BY <3>1, <3>4, <4>1, <4>2
    <3> QED
      BY <3>5, <3>6, <3>7
  <2> QED
    BY <2>4 DEF RowsAreThere, Copies
<1>10. Cardinality(Hopeful') <= Cardinality(Hopeful) /\ Cardinality(Hopeful) \in Nat /\ Cardinality(Hopeful') \in Nat
  <2>1. Hopeful' \subseteq Hopeful /\ Hopeful \subseteq Trader
    BY <1>3, <1>4 DEF Hopeful, Judging
  <2> QED
    BY <2>1, RulesAssumption, FS_Subset, FS_CardinalityType
<1>11. SumOver(InMind', Trader) = SumOver(InMind, Trader) /\ SumOver(InMind, Trader) \in Nat
  <2>1. /\ SumOver(InMind, Trader) \in Nat
        /\ SumOver(InMind', Trader) = (SumOver(InMind, Trader) - InMind[t]) + InMind'[t]
    BY <1>3, <1>5, MindMoves DEF LimitsInv
  <2>2. InMind[t] = 0 /\ InMind'[t] = 0
    BY <1>3, <1>4 DEF InMind, Judging
  <2> QED
    BY <2>1, <2>2
<1>12. PendingIn(ledger) \in Nat /\ UndecidedIn(ledger) \in Nat /\ ApprovedIn(ledger) \in Nat /\ a.value \in Nat
  BY <1>1, <1>7, TalliesTyped DEF LedgerRow
<1> QED
  BY <1>5, <1>6, <1>8, <1>9, <1>10, <1>11, <1>12, NoMoreWritten

\* The session approves the row it wrote.
LEMMA ApproveKeepsLimits ==
  ASSUME LimitsInv, NEW t \in Trader, Approve(t)
  PROVE  LimitsInv'
<1>1. /\ trader[t].pc = "approve" /\ ledger' = To(trader[t].row, "approved") /\ trader[t].row.status = "pending"
      /\ trader' = [trader EXCEPT ![t] = [pc |-> "place", row |-> [trader[t].row EXCEPT !.status = "approved"]]]
  BY DEF Approve, LimitsInv, TradersFine
<1> QED
  BY <1>1, HolderKeepsLimits

\* The session places the row it approved.
LEMMA PlaceKeepsLimits ==
  ASSUME LimitsInv, NEW t \in Trader, Place(t)
  PROVE  LimitsInv'
<1>1. /\ trader[t].pc = "place" /\ trader[t].row.status = "approved"
      /\ trader' = [trader EXCEPT ![t] = [pc |-> "free"]]
  BY DEF Place, LimitsInv, TradersFine
<1>2. CASE ledger' = To(trader[t].row, "placed")
  BY <1>1, <1>2, HolderKeepsLimits
<1>3. CASE UNCHANGED ledger
  <2>1. /\ TradersFine'
        /\ \A x : Holders(x)' \subseteq Holders(x) \ {t}
        /\ Cardinality(Hopeful') <= Cardinality(Hopeful)
        /\ SumOver(InMind', Trader) = SumOver(InMind, Trader) - InMind[t]
        /\ Cardinality(Hopeful) \in Nat /\ SumOver(InMind, Trader) \in Nat /\ InMind[t] \in Nat
        /\ Cardinality(Hopeful') \in Nat
    BY <1>1, SessionLetsGo
  <2>2. RowsFine'
    BY <1>3 DEF LimitsInv, RowsFine, FineLedger
  <2>3. RowsAreThere'
    BY <1>3, <2>1, FewerHolders DEF LimitsInv
  <2>4. PendingIn(ledger)' = PendingIn(ledger) /\ ApprovedIn(ledger)' = ApprovedIn(ledger) /\ UndecidedIn(ledger)' = UndecidedIn(ledger)
    BY <1>3 DEF PendingIn, ApprovedIn, UndecidedIn, Authorized
  <2>5. PendingIn(ledger) \in Nat /\ UndecidedIn(ledger) \in Nat /\ ApprovedIn(ledger) \in Nat
    BY TalliesTyped DEF LimitsInv, RowsFine
  <2> QED
    BY <2>1, <2>2, <2>3, <2>4, <2>5, NoMoreWritten
<1> QED
  BY <1>2, <1>3 DEF Place

\* No step breaks the invariant.
LEMMA RulesKeepLimits ==
  ASSUME LimitsInv, [RulesNext]_ruleVars
  PROVE  LimitsInv'
<1>2. \A a : InHand(a) = Cardinality(Holders(a))
  BY DEF InHand, Holders
<1>3. \A a \in DOMAIN ledger : a \in LedgerRow /\ Copies(ledger, a) = ledger[a] /\ ledger[a] \in Nat /\ ledger[a] > 0
  BY DEF Copies, LimitsInv, RowsFine, FineLedger, FineBag, IsABag
<1>4. CASE PersonDecides
  <2>1. PICK a \in DOMAIN ledger : /\ ledger[a] > InHand(a)
                                   /\ \/ a.status = "pending" /\ ledger' \in {To(a, "approved"), Without(a)}
                                      \/ a.status = "approved" /\ ledger' = To(a, "placed")
    BY <1>4 DEF PersonDecides, BagToSet
  <2>2. UNCHANGED trader /\ "approved" \in Authorized /\ "placed" \in Authorized
    BY <1>4 DEF PersonDecides, Authorized, RowStatus
  <2>3. Copies(ledger, a) > Cardinality(Holders(a))
    BY <1>2, <1>3, <2>1
  <2>4. CASE ledger' = Without(a) /\ a.status = "pending"
    BY <2>2, <2>3, <2>4, OthersKeepLimits
  <2>5. CASE \E s \in Authorized : s # a.status /\ ledger' = To(a, s)
    BY <2>2, <2>3, <2>5, OthersKeepLimits
  <2> QED
    BY <2>1, <2>2, <2>4, <2>5
<1>5. CASE OrderResolves
  <2>1. PICK a \in DOMAIN ledger : a.status = "placed" /\ (ledger' = To(a, "filled") \/ ledger' = To(a, "ended"))
    BY <1>5 DEF OrderResolves, Rows, BagToSet
  <2>2. UNCHANGED trader /\ "filled" \in Authorized /\ "ended" \in Authorized
    BY <1>5 DEF OrderResolves, Authorized, RowStatus
  <2>3. Holders(a) = {}
    BY <2>1 DEF Holders, LimitsInv, TradersFine
  <2>4. Copies(ledger, a) > Cardinality(Holders(a))
    BY <1>3, <2>1, <2>3, FS_EmptySet
  <2>5. \E s \in Authorized : s # a.status /\ ledger' = To(a, s)
    BY <2>1, <2>2
  <2> QED
    BY <2>2, <2>4, <2>5, OthersKeepLimits
<1>6. CASE UNCHANGED <<trader, ledger>>
  <2>1. TradersFine' /\ Hopeful' = Hopeful /\ InMind' = InMind /\ \A r : Holders(r)' = Holders(r)
    BY <1>6 DEF LimitsInv, TradersFine, Hopeful, InMind, Holders, Judging
  <2>2. RowsFine' /\ RowsAreThere'
    BY <1>6, <2>1 DEF LimitsInv, RowsFine, FineLedger, RowsAreThere, Copies
  <2>3. RoomLeft'
    BY <1>6, <2>1 DEF LimitsInv, RoomLeft, MostRows, PendingIn, UndecidedIn, ApprovedIn, Authorized
  <2> QED
    BY <2>1, <2>2, <2>3 DEF LimitsInv
<1>7. CASE Stop \/ (\E t \in Ticker : Cool(t)) \/ UNCHANGED ruleVars
  BY <1>6, <1>7 DEF Stop, Cool, ruleVars
<1> QED
  BY <1>4, <1>5, <1>7, ReadKeepsLimits, JudgeKeepsLimits, ApproveKeepsLimits, PlaceKeepsLimits DEF RulesNext

\* The invariant bounds what the ledger may hold.
LEMMA LimitsHold ==
  ASSUME LimitsInv
  PROVE  LimitsHoldUpToSessions
<1>1. Count({"pending"}) = PendingIn(ledger) /\ Dollars(Authorized) = ApprovedIn(ledger)
  BY PortfolioTotals DEF LimitsInv, RowsFine
<1>2. PendingIn(ledger) \in Nat /\ UndecidedIn(ledger) \in Nat /\ ApprovedIn(ledger) \in Nat
  BY TalliesTyped DEF LimitsInv, RowsFine
<1>3. Cardinality(Hopeful) \in Nat
  <2>1. Hopeful \subseteq Trader
    BY DEF Hopeful
  <2> QED
    BY <2>1, RulesAssumption, FS_Subset, FS_CardinalityType
<1>4. SumOver(InMind, Trader) \in Nat
  <2>1. \A u \in Trader : InMind[u] \in Nat
    BY RulesAssumption DEF LimitsInv, InMind, TradersFine
  <2> QED
    BY <2>1, RulesAssumption, SumNat
<1>5. MostRows \in Int /\ MaxPending \in Nat /\ MaxDaily + MostRows * MaxOrder \in Int /\ Cardinality(Trader) \in Nat
  <2>1. Cardinality(Trader) \in Nat
    BY RulesAssumption, FS_CardinalityType
  <2>2. MostRows \in Int /\ MaxOrder \in Nat /\ MaxDaily \in Nat /\ MaxPending \in Nat
    BY <2>1, RulesAssumption DEF MostRows
  <2> QED
    BY <2>1, <2>2
<1>6. /\ PendingIn(ledger) + Cardinality(Hopeful) <= MostRows
      /\ (ApprovedIn(ledger) + UndecidedIn(ledger)) + SumOver(InMind, Trader) <= MaxDaily + MostRows * MaxOrder
  BY DEF LimitsInv, RoomLeft
<1>7. Count({"pending"}) < MaxPending + Cardinality(Trader)
  BY <1>1, <1>2, <1>3, <1>5, <1>6 DEF MostRows
<1>8. Dollars(Authorized) <= MaxDaily + MostRows * MaxOrder
  BY <1>1, <1>2, <1>4, <1>5, <1>6
<1> QED
  BY <1>7, <1>8 DEF LimitsHoldUpToSessions, MostRows

\* The limits of pending approvals and of the day's dollars bend, for any
\* number of sessions, proposals and limits, by one entry for each further session
\* that read the same portfolio, and the dollars by one order for each entry that
\* may pend: both are read before the row is written, and every reader writes one.
THEOREM LimitsBend == RulesSpec => []LimitsHoldUpToSessions
<1>1. RulesInit => LimitsInv
  BY LimitsStart
<1>2. LimitsInv /\ [RulesNext]_ruleVars => LimitsInv'
  BY RulesKeepLimits
<1>3. LimitsInv => LimitsHoldUpToSessions
  BY LimitsHold
<1> QED
  BY <1>1, <1>2, <1>3, PTL DEF RulesSpec

-----------------------------------------------------------------------------
\* How many rows were written and are still there.
WrittenIn(L) == Tally(Ones(RowStatus), L)

\* What the limits do not ask for.
RulesKept ==
    /\ \A t \in Trader : trader[t].pc \in {"free", "judge", "approve", "place"}
    /\ WrittenIn(ledger) <= MaxRows
    /\ owned \in [Ticker -> Nat] /\ stopped \in BOOLEAN /\ cool \subseteq Ticker

\* A row that changes its status is still there, and one that leaves is not.
LEMMA WrittenFollows ==
  ASSUME FineLedger, NEW a \in DOMAIN ledger
  PROVE  /\ WrittenIn(ledger) \in Nat
         /\ \A s \in RowStatus : s # a.status => WrittenIn(To(a, s)) = WrittenIn(ledger)
         /\ WrittenIn(Without(a)) = WrittenIn(ledger) - 1
<1>1. WrittenIn(ledger) \in Nat /\ Ones(RowStatus) \in [LedgerRow -> Nat]
  BY TalliesOf, WeightsTyped DEF FineLedger, WrittenIn
<1>2. \A r \in LedgerRow : Ones(RowStatus)[r] = 1
  BY DEF Ones, LedgerRow
<1>3. a \in LedgerRow
  BY DEF FineLedger
<1>4. ASSUME NEW s \in RowStatus, s # a.status PROVE WrittenIn(To(a, s)) = WrittenIn(ledger)
  <2> DEFINE b == [a EXCEPT !.status = s]
             M == To(a, s)
  <2>1. b \in LedgerRow
    BY <1>3, <1>4, StatusChanges
  <2>2. \A W \in [LedgerRow -> Nat] : Tally(W, M) = (Tally(W, ledger) - W[a]) + W[b]
    BY <1>4, RowMoves
  <2> HIDE DEF b, M
  <2>3. Tally(Ones(RowStatus), M) = (Tally(Ones(RowStatus), ledger) - 1) + 1
    BY <1>1, <1>2, <1>3, <2>1, <2>2
  <2>4. WrittenIn(M) = WrittenIn(ledger)
    BY <1>1, <2>3 DEF WrittenIn
  <2> QED
    BY <2>4 DEF M
<1>5. WrittenIn(Without(a)) = WrittenIn(ledger) - 1
  <2> DEFINE M == Without(a)
  <2>1. \A W \in [LedgerRow -> Nat] : Tally(W, M) = Tally(W, ledger) - W[a]
    BY RowLeaves
  <2> HIDE DEF M
  <2>2. WrittenIn(M) = WrittenIn(ledger) - 1
    BY <1>1, <1>2, <1>3, <2>1 DEF WrittenIn
  <2> QED
    BY <2>2 DEF M
<1> QED
  BY <1>1, <1>4, <1>5

\* The rules begin with no rows.
LEMMA RulesKeptAtFirst ==
  ASSUME RulesInit
  PROVE  RulesKept
<1>1. DOMAIN ledger = {}
  BY DEF RulesInit, EmptyBag, SetToBag
<1>2. WrittenIn(ledger) = 0
  BY <1>1, SumOfNone DEF WrittenIn, Tally
<1>3. WrittenIn(ledger) <= MaxRows
  BY <1>2, RulesAssumption
<1>4. \A t \in Trader : trader[t].pc = "free"
  BY DEF RulesInit
<1>5. owned \in [Ticker -> Nat] /\ stopped \in BOOLEAN /\ cool \subseteq Ticker
  BY DEF RulesInit
<1> QED
  BY <1>3, <1>4, <1>5 DEF RulesKept

\* A session's own steps.
LEMMA SessionsKeepRules ==
  ASSUME LimitsInv, RulesKept, NEW t \in Trader, Read(t) \/ Judge(t) \/ Approve(t) \/ Place(t)
  PROVE  RulesKept'
<1>1. UNCHANGED <<owned, stopped, cool>>
  BY DEF Read, Judge, Approve, Place
<1>2. FineLedger /\ FineBag(ledger) /\ DOMAIN ledger \subseteq LedgerRow /\ DOMAIN trader = Trader
  BY DEF LimitsInv, RowsFine, FineLedger, TradersFine
<1>3. \A u \in Trader : trader'[u].pc \in {"free", "judge", "approve", "place"}
  <2>1. ASSUME NEW next, next.pc \in {"free", "judge", "approve", "place"}, trader' = [trader EXCEPT ![t] = next]
        PROVE  \A u \in Trader : trader'[u].pc \in {"free", "judge", "approve", "place"}
    BY <1>2, <2>1 DEF RulesKept
  <2>2. CASE Read(t)
    <3>1. PICK p \in Proposal[t] : trader' = [trader EXCEPT ![t] = [pc |-> "judge", proposal |-> p, pf |-> Portfolio]]
      BY <2>2 DEF Read
    <3>2. trader'[t].pc = "judge" /\ \A u \in Trader \ {t} : trader'[u] = trader[u]
      BY <1>2, <3>1
    <3> QED
      BY <3>2 DEF RulesKept
  <2>3. CASE Judge(t)
    <3> DEFINE p == trader[t].proposal
               next == IF p.asks THEN [pc |-> "free"] ELSE [pc |-> "approve", row |-> Row(p, "pending")]
    <3>1. trader' = [trader EXCEPT ![t] = [pc |-> "free"]] \/ trader' = [trader EXCEPT ![t] = next]
      BY <2>3 DEF Judge
    <3>2. next.pc \in {"free", "approve"}
      OBVIOUS
    <3> HIDE DEF next
    <3> QED
      BY <2>1, <3>1, <3>2
  <2>4. CASE Approve(t) \/ Place(t)
    BY <2>1, <2>4 DEF Approve, Place
  <2> QED
    BY <2>2, <2>3, <2>4
<1>4. WrittenIn(ledger') <= MaxRows
  <2>1. CASE ledger' = ledger
    BY <2>1 DEF RulesKept
  <2>2. CASE Judge(t) /\ ledger' # ledger
    <3> DEFINE r == Row(trader[t].proposal, "pending")
    <3>1. Count(RowStatus) < MaxRows /\ ledger' = ledger (+) SetToBag({r})
      BY <2>2 DEF Judge
    <3>2. trader[t].proposal \in Proposal[t]
      BY <2>2 DEF Judge, LimitsInv, TradersFine
    <3>3. r \in LedgerRow
      BY <3>2, RulesAssumption DEF Row, LedgerRow, RowStatus
    <3>4. Ones(RowStatus) \in [LedgerRow -> Nat] /\ Ones(RowStatus)[r] = 1
      BY <3>3, WeightsTyped DEF Ones, LedgerRow
    <3> HIDE DEF r
    <3>5. WrittenIn(ledger') = WrittenIn(ledger) + 1
      BY <1>2, <3>1, <3>3, <3>4, TallyOneMore DEF WrittenIn
    <3>6. Count(RowStatus) = WrittenIn(ledger)
      BY <1>2, CountIsTally DEF WrittenIn
    <3>7. WrittenIn(ledger) \in Nat /\ MaxRows \in Nat
      BY <1>2, TalliesOf, WeightsTyped, RulesAssumption DEF WrittenIn
    <3> QED
      BY <3>1, <3>5, <3>6, <3>7
  <2>3. CASE (Approve(t) \/ Place(t)) /\ ledger' # ledger
    <3>1. \E s \in {"approved", "placed"} : s # trader[t].row.status /\ ledger' = To(trader[t].row, s)
      BY <2>3 DEF Approve, Place, LimitsInv, TradersFine
    <3>2. trader[t].row \in DOMAIN ledger
      <4>1. trader[t].pc \in {"approve", "place"} /\ trader[t].row \in LedgerRow
        BY <2>3 DEF Approve, Place, LimitsInv, TradersFine
      <4> QED
        BY <4>1, HeldIsThere DEF LimitsInv
    <3>3. WrittenIn(ledger') = WrittenIn(ledger)
      BY <1>2, <3>1, <3>2, WrittenFollows DEF RowStatus
    <3> QED
      BY <3>3 DEF RulesKept
  <2> QED
    BY <2>1, <2>2, <2>3 DEF Read
<1> QED
  BY <1>1, <1>3, <1>4 DEF RulesKept, WrittenIn

\* The steps of people and the broker.
LEMMA OthersKeepRules ==
  ASSUME LimitsInv, RulesKept, PersonDecides \/ OrderResolves
  PROVE  RulesKept'
<1>1. FineLedger
  BY DEF LimitsInv, RowsFine
<1>2. PICK a \in DOMAIN ledger :
         /\ ledger' = Without(a) \/ (\E s \in RowStatus : s # a.status /\ ledger' = To(a, s))
         /\ owned' = owned \/ owned' = [owned EXCEPT ![a.on] = @ + a.value]
         /\ UNCHANGED <<trader, stopped, cool>>
  BY DEF PersonDecides, OrderResolves, Rows, BagToSet, RowStatus
<1>3. a.on \in Ticker /\ a.value \in Nat
  BY <1>1 DEF FineLedger, LedgerRow
<1>4. owned' \in [Ticker -> Nat]
  BY <1>2, <1>3 DEF RulesKept
<1>5. MaxRows \in Nat
  BY RulesAssumption
<1>6. WrittenIn(ledger') <= MaxRows
  BY <1>1, <1>2, <1>5, WrittenFollows DEF RulesKept
<1> QED
  BY <1>2, <1>4, <1>6 DEF RulesKept, WrittenIn

\* The ledger is a bag of rows of their types, never more of them than the bound,
\* and holdings are numbers, for any tickers, sessions and proposals.
THEOREM RulesTypesHold == RulesSpec => []RulesTypeOK
<1>1. RulesInit => LimitsInv /\ RulesKept
  BY LimitsStart, RulesKeptAtFirst
<1>2. LimitsInv /\ RulesKept /\ [RulesNext]_ruleVars => LimitsInv' /\ RulesKept'
  <2> SUFFICES ASSUME LimitsInv, RulesKept, [RulesNext]_ruleVars PROVE RulesKept'
    BY RulesKeepLimits
  <2>1. CASE Stop \/ (\E t \in Ticker : Cool(t)) \/ UNCHANGED ruleVars
    BY <2>1 DEF Stop, Cool, ruleVars, RulesKept, WrittenIn
  <2> QED
    BY <2>1, SessionsKeepRules, OthersKeepRules DEF RulesNext
<1>3. LimitsInv /\ RulesKept => RulesTypeOK
  <2> SUFFICES ASSUME LimitsInv, RulesKept PROVE RulesTypeOK
    OBVIOUS
  <2>1. FineLedger
    BY DEF LimitsInv, RowsFine
  <2>2. Count(RowStatus) = WrittenIn(ledger)
    BY <2>1, CountIsTally DEF WrittenIn
  <2> QED
    BY <2>1, <2>2 DEF RulesKept, RulesTypeOK, FineLedger, FineBag, LedgerRow, BagToSet
<1> QED
  BY <1>1, <1>2, <1>3, PTL DEF RulesSpec

-----------------------------------------------------------------------------
(* Debates.                                                                  *)

\* A view is added to those on record.
LEMMA AddView ==
  ASSUME NEW a \in Agent, NEW v, NEW w, NEW u, u = WithView(w, a, v)
  PROVE  /\ DOMAIN u = DOMAIN w \cup {a} /\ u[a] = v
         /\ \A x \in DOMAIN w : x # a => u[x] = w[x]
BY DEF WithView

\* What a debate may be asked.
LEMMA InputTyped ==
  ASSUME NEW i \in DeskInput
  PROVE  /\ i.side \in Side /\ i.proposal \in BOOLEAN /\ DOMAIN i.views \subseteq Agent
         /\ i.signal # "none" => i.signal \in Signal /\ i.side = IF Direction(i.signal) = "bearish" THEN "sell" ELSE "buy"
<1>1. CASE i \in HostInput
  BY <1>1, DebateAssumption
<1>2. ASSUME NEW sig \in Signal, i = SignalInput(sig)
      PROVE  /\ i.side \in Side /\ i.proposal \in BOOLEAN /\ DOMAIN i.views \subseteq Agent
             /\ i.signal # "none" => i.signal \in Signal /\ i.side = IF Direction(i.signal) = "bearish" THEN "sell" ELSE "buy"
  <2>1. i.side = (IF Direction(sig) = "bearish" THEN "sell" ELSE "buy") /\ i.proposal = FALSE /\ i.signal = sig
    BY <1>2 DEF SignalInput
  <2>2. DOMAIN i.views = {"market", "bull", "bear", "red"}
    BY <1>2 DEF SignalInput
  <2> QED
    BY <2>1, <2>2 DEF Side, Agent
<1> QED
  BY <1>1, <1>2 DEF DeskInput

\* The judge reads the views of the desk's agents and nothing else.
LEMMA JudgeSame ==
  ASSUME NEW v, NEW w, \A a \in Agent : (a \in DOMAIN v <=> a \in DOMAIN w) /\ (a \in DOMAIN v => v[a] = w[a])
  PROVE  RuleJudge(v) = RuleJudge(w)
<1>1. \A a \in {"market", "news", "bull", "bear"} : Lean(v, a) = Lean(w, a)
  BY DEF Lean, Agent
<1>2. "red" \in DOMAIN v /\ v["red"].confidence >= 70 <=> "red" \in DOMAIN w /\ w["red"].confidence >= 70
  BY DEF Agent
<1> QED
  BY <1>1, <1>2, Zenon DEF RuleJudge

\* The judge gives a verdict.
LEMMA JudgeTyped ==
  ASSUME NEW v
  PROVE  RuleJudge(v) \in Verdict
BY DEF RuleJudge, Verdict

\* A candidate's row.
IsRow(row) ==
    /\ row = [status |-> row.status, source |-> row.source, side |-> row.side, proposal |-> row.proposal,
              views |-> row.views, judge |-> row.judge, risk |-> row.risk]
    /\ row.status \in CandidateStatus /\ row.source \in Source /\ row.side \in Side /\ row.proposal \in BOOLEAN
    /\ DOMAIN row.views \subseteq Agent \cup {"scout"}
    /\ row.judge \in Verdict \cup {"none"}
    /\ row.risk \in {"none", "approved", "rejected"}

\* An analyst that writes, concludes or checks; one that trades; and a program
\* at work on a candidate of its own.
Busy == [pc : {"write", "conclude", "risk", "settle"}, on : Candidate, input : DeskInput, todo : SUBSET (1 .. 9)]
Trading == [pc : {"trade"}, on : Candidate, signal : Signal]
Running == [pc : {"opine", "review", "order", "approve"}, on : Candidate, source : Program,
            verdict : {"bullish", "bearish", "call", "put"}]
Job == (({Away} \cup Busy) \cup Trading) \cup Running

\* What the candidate of an analysis has on record so far.
Recorded(row, me) ==
    /\ row.source = "desk" /\ row.side = me.input.side /\ row.proposal = me.input.proposal
    /\ me.todo \subseteq Lines(me.input)
    /\ \A a \in DOMAIN row.views : a \in DOMAIN me.input.views /\ row.views[a] = me.input.views[a]
    /\ \A k \in 1 .. 9 : Script[k] \in Agent /\ Script[k] \in DOMAIN me.input.views =>
          k \in me.todo \/ Script[k] \in DOMAIN row.views
    /\ me.pc = "write" => 9 \in me.todo /\ row.judge = "none" /\ row.status \in {"discovered", "researching", "debating"}
    /\ me.pc # "write" => me.todo = {} /\ row.judge = RuleJudge(me.input.views) /\ row.status # "approved"
    /\ me.pc \in {"risk", "settle"} => row.judge \in Wanted(row.side)
    /\ me.pc = "settle" => row.risk \in {"approved", "rejected"}

\* A verdict on record is what the judge makes of the views on record, and an
\* approved candidate of the desk has the verdict its side asks for and a risk
\* manager's yes.
RowVerdict(row) ==
    /\ row.judge # "none" => RuleJudge(row.views) = row.judge
    /\ row.status = "approved" /\ row.source = "desk" =>
          row.judge \in Wanted(row.side) /\ (row.proposal => row.risk = "approved")

\* What a session trades on is approved, with the verdict its direction asks for.
TradeVerdict(row, me) ==
    /\ row.source = "desk" /\ row.status = "approved"
    /\ row.judge \in Backing(Direction(me.signal))

\* A board has an approved debate of the desk behind a direction.
Backed(b, direction) ==
    \E d \in Candidate : b[d].source = "desk" /\ b[d].status = "approved" /\ b[d].judge \in Backing(direction)

\* What the candidate of a program has on record so far.
OwnRow(row, me) ==
    /\ row.source = me.source /\ row.status # "approved" /\ row.judge = "none"
    /\ me.pc # "opine" => Speaker(me.source) \in DOMAIN row.views

\* A program approves what the broker took, and an option leg has its debate.
JobFine(me, taken1, b) ==
    /\ me.pc = "approve" => me.on \in taken1
    /\ me.source = "options-auto" => Backed(b, me.verdict)

\* An approved candidate of a program has its opinion and its order, and an
\* option leg's opinion has its debate.
OwnWord(c, row, taken1, b) ==
    /\ row.status = "approved" /\ row.source # "desk" => Speaker(row.source) \in DOMAIN row.views /\ c \in taken1
    /\ row.source = "options-auto" /\ "scout" \in DOMAIN row.views => Backed(b, row.views["scout"].verdict)

\* The inductive invariant of the debates: no two analysts are on a candidate.
DebateInv ==
    /\ DOMAIN board = Candidate /\ \A c \in Candidate : IsRow(board[c]) /\ RowVerdict(board[c])
    /\ \A c \in Candidate : OwnWord(c, board[c], ordered, board)
    /\ ordered \subseteq Candidate
    /\ analyst \in [Analyst -> Job]
    /\ \A s \in Analyst : analyst[s] # Away => board[analyst[s].on].status # "none"
    /\ \A s, u \in Analyst : s # u /\ analyst[s] # Away /\ analyst[u] # Away => analyst[s].on # analyst[u].on
    /\ \A s \in Analyst : analyst[s] \in Busy => Recorded(board[analyst[s].on], analyst[s])
    /\ \A s \in Analyst : analyst[s] \in Trading => TradeVerdict(board[analyst[s].on], analyst[s])
    /\ \A s \in Analyst : analyst[s] \in Running =>
          OwnRow(board[analyst[s].on], analyst[s]) /\ JobFine(analyst[s], ordered, board)

\* An analyst is away, busy, trading or running, and its pc tells which.
LEMMA Occupations ==
  ASSUME NEW me \in Job
  PROVE  /\ me = Away <=> me.pc = "idle"
         /\ me \in Trading <=> me.pc = "trade"
         /\ me \in Busy <=> me.pc \in {"write", "conclude", "risk", "settle"}
         /\ me \in Running <=> me.pc \in {"opine", "review", "order", "approve"}
         /\ me # Away => me.on \in Candidate
BY DEF Job, Away, Busy, Trading, Running

\* The four are apart.
LEMMA JobsApart ==
  /\ Away \notin Busy /\ Away \notin Trading /\ Away \notin Running
  /\ \A me \in Busy : me # Away /\ me \notin Trading /\ me \notin Running /\ me \in Job
  /\ \A me \in Trading : me # Away /\ me \notin Busy /\ me \notin Running /\ me \in Job
  /\ \A me \in Running : me # Away /\ me \notin Busy /\ me \notin Trading /\ me \in Job
BY DEF Job, Away, Busy, Trading, Running

\* A debate behind a direction stays: no one writes to an approved candidate.
LEMMA BackedStays ==
  ASSUME NEW c \in Candidate, NEW b, NEW b1, b[c].status # "approved",
         \A d \in Candidate : d # c => b1[d] = b[d],
         NEW direction, Backed(b, direction)
  PROVE  Backed(b1, direction)
<1>1. PICK d \in Candidate : b[d].source = "desk" /\ b[d].status = "approved" /\ b[d].judge \in Backing(direction)
  BY DEF Backed
<1>2. b1[d] = b[d]
  BY <1>1
<1> QED
  BY <1>1, <1>2 DEF Backed

\* An analyst writes into a candidate no other is on, and goes on with it or
\* leaves.
LEMMA AnalystMoves ==
  ASSUME DebateInv, NEW s \in Analyst, NEW c \in Candidate, board[c].status # "approved",
         \A u \in Analyst : u # s /\ analyst[u] # Away => analyst[u].on # c,
         NEW row, DOMAIN board' = Candidate, board'[c] = row, \A d \in Candidate : d # c => board'[d] = board[d],
         IsRow(row), RowVerdict(row), row.status # "none",
         ordered \subseteq ordered', ordered' \subseteq Candidate,
         OwnWord(c, row, ordered', board'),
         NEW me \in Job, analyst' = [analyst EXCEPT ![s] = me],
         me # Away => me.on = c,
         me \in Busy => Recorded(row, me),
         me \in Trading => TradeVerdict(row, me),
         me \in Running => OwnRow(row, me) /\ JobFine(me, ordered', board')
  PROVE  DebateInv'
<1>1. analyst' \in [Analyst -> Job] /\ analyst'[s] = me /\ \A u \in Analyst : u # s => analyst'[u] = analyst[u]
  BY DEF DebateInv
<1>2. ASSUME NEW u \in Analyst, u # s, analyst[u] # Away PROVE board'[analyst[u].on] = board[analyst[u].on] /\ analyst[u].on # c
  <2>1. analyst[u].on # c /\ analyst[u].on \in Candidate
    BY <1>2, Occupations DEF DebateInv
  <2> QED
    BY <2>1
<1>3. ASSUME NEW v, Backed(board, v) PROVE Backed(board', v)
  BY <1>3, BackedStays
<1>4. \A d \in Candidate : IsRow(board'[d]) /\ RowVerdict(board'[d])
  BY DEF DebateInv
<1>5. ASSUME NEW d \in Candidate PROVE OwnWord(d, board'[d], ordered', board')
  <2>1. CASE d = c
    BY <2>1
  <2>2. CASE d # c
    <3>1. OwnWord(d, board[d], ordered, board) /\ board'[d] = board[d]
      BY <2>2 DEF DebateInv
    <3>2. OwnWord(d, board[d], ordered', board')
      BY <1>3, <3>1 DEF OwnWord
    <3> QED
      BY <3>1, <3>2
  <2> QED
    BY <2>1, <2>2
<1>6. ASSUME NEW u \in Analyst, analyst'[u] # Away
      PROVE  /\ board'[analyst'[u].on].status # "none"
             /\ analyst'[u] \in Busy => Recorded(board'[analyst'[u].on], analyst'[u])
             /\ analyst'[u] \in Trading => TradeVerdict(board'[analyst'[u].on], analyst'[u])
             /\ analyst'[u] \in Running =>
                   OwnRow(board'[analyst'[u].on], analyst'[u]) /\ JobFine(analyst'[u], ordered', board')
  <2>1. CASE u = s
    BY <1>1, <1>6, <2>1
  <2>2. CASE u # s
    <3>1. analyst'[u] = analyst[u] /\ analyst[u] # Away
      BY <1>1, <1>6, <2>2
    <3>2. board'[analyst[u].on] = board[analyst[u].on]
      BY <1>2, <2>2, <3>1
    <3>3. JobFine(analyst[u], ordered, board) => JobFine(analyst[u], ordered', board')
      BY <1>3 DEF JobFine
    <3> QED
      BY <3>1, <3>2, <3>3 DEF DebateInv
  <2> QED
    BY <2>1, <2>2
<1>7. ASSUME NEW u \in Analyst, NEW v \in Analyst, u # v, analyst'[u] # Away, analyst'[v] # Away
      PROVE  analyst'[u].on # analyst'[v].on
  <2>1. CASE u = s
    BY <1>1, <1>2, <1>7, <2>1
  <2>2. CASE v = s
    BY <1>1, <1>2, <1>7, <2>2
  <2>3. CASE u # s /\ v # s
    BY <1>1, <1>7, <2>3 DEF DebateInv
  <2> QED
    BY <2>1, <2>2, <2>3
<1>8. Away \notin Busy /\ Away \notin Trading /\ Away \notin Running
  BY JobsApart
<1> QED
  BY <1>1, <1>4, <1>5, <1>6, <1>7, <1>8 DEF DebateInv

\* An analyst that has a candidate is alone on it; and so is one that finds a
\* new candidate.
LEMMA AloneOn ==
  ASSUME DebateInv, NEW s \in Analyst, NEW c \in Candidate,
         board[c].status = "none" \/ (analyst[s] # Away /\ analyst[s].on = c)
  PROVE  \A u \in Analyst : u # s /\ analyst[u] # Away => analyst[u].on # c
BY DEF DebateInv

\* A row is written.
LEMMA RowWritten ==
  ASSUME DebateInv, NEW c \in Candidate, NEW row, board' = [board EXCEPT ![c] = row]
  PROVE  DOMAIN board' = Candidate /\ board'[c] = row /\ \A d \in Candidate : d # c => board'[d] = board[d]
BY DEF DebateInv

\* A debate of the desk writes into its candidate.
LEMMA DeskWrites ==
  ASSUME DebateInv, NEW s \in Analyst, NEW c \in Candidate, board[c].status # "approved",
         board[c].status = "none" \/ (analyst[s] # Away /\ analyst[s].on = c),
         NEW row, board' = [board EXCEPT ![c] = row], UNCHANGED ordered,
         IsRow(row), RowVerdict(row), row.status # "none", row.source = "desk",
         NEW me \in Job, me \notin Running, analyst' = [analyst EXCEPT ![s] = me],
         me # Away => me.on = c,
         me \in Busy => Recorded(row, me),
         me \in Trading => TradeVerdict(row, me)
  PROVE  DebateInv'
<1>1. OwnWord(c, row, ordered', board')
  BY DEF OwnWord
<1>2. ordered \subseteq ordered' /\ ordered' \subseteq Candidate
  BY DEF DebateInv
<1>3. DOMAIN board' = Candidate /\ board'[c] = row /\ \A d \in Candidate : d # c => board'[d] = board[d]
  BY RowWritten
<1>4. \A u \in Analyst : u # s /\ analyst[u] # Away => analyst[u].on # c
  BY AloneOn
<1> QED
  BY <1>1, <1>2, <1>3, <1>4, AnalystMoves

\* A candidate is discovered.
LEMMA DiscoverKeeps ==
  ASSUME DebateInv, NEW s \in Analyst, NEW c \in Candidate, NEW input \in DeskInput, Discover(s, c, input)
  PROVE  DebateInv'
<1> DEFINE row == NewRow("desk", input.side, input.proposal)
           me == Writing(c, input, Lines(input))
<1>1. /\ board' = [board EXCEPT ![c] = row] /\ analyst' = [analyst EXCEPT ![s] = me]
      /\ board[c].status = "none" /\ UNCHANGED ordered
  BY DEF Discover
<1>2. /\ row.status = "discovered" /\ row.source = "desk" /\ row.side = input.side /\ row.proposal = input.proposal
      /\ row.views = <<>> /\ row.judge = "none" /\ row.risk = "none"
      /\ row = [status |-> row.status, source |-> row.source, side |-> row.side, proposal |-> row.proposal,
                views |-> row.views, judge |-> row.judge, risk |-> row.risk]
  <2>1. row = [status |-> "discovered", source |-> "desk", side |-> input.side, proposal |-> input.proposal,
               views |-> <<>>, judge |-> "none", risk |-> "none"]
    BY DEF NewRow
  <2> HIDE DEF row
  <2> QED
    BY <2>1
<1>3. IsRow(row) /\ RowVerdict(row)
  BY <1>2, InputTyped DEF IsRow, RowVerdict, CandidateStatus, Source
<1>40. 9 \in Lines(input)
  BY DEF Lines, Script, Agent
<1>41. me = [pc |-> "write", on |-> c, input |-> input, todo |-> Lines(input)]
  BY <1>40 DEF Writing
<1>4. me \in Busy
  BY <1>41 DEF Busy, Lines
<1>5. Recorded(row, me)
  <2>1. \A k \in 1 .. 9 : Script[k] \in Agent /\ Script[k] \in DOMAIN input.views => k \in me.todo
    BY <1>41 DEF Lines
  <2>2. 9 \in me.todo
    BY <1>40, <1>41
  <2>3. me.pc = "write" /\ me.input = input
    BY <1>41
  <2>4. DOMAIN row.views = {}
    BY <1>2
  <2>5. me.todo \subseteq Lines(me.input)
    BY <1>41
  <2> HIDE DEF row, me
  <2> QED
    BY <1>2, <2>1, <2>2, <2>3, <2>4, <2>5 DEF Recorded
<1>6. me.on = c
  BY <1>41
<1> HIDE DEF row, me
<1> QED
  BY <1>1, <1>2, <1>3, <1>4, <1>5, <1>6, JobsApart, DeskWrites

\* A row with one field changed.
LEMMA RowViews ==
  ASSUME NEW row, IsRow(row), NEW x
  PROVE  [row EXCEPT !.views = x] = [status |-> row.status, source |-> row.source, side |-> row.side, proposal |-> row.proposal,
                                     views |-> x, judge |-> row.judge, risk |-> row.risk]
BY DEF IsRow

\* The judge's verdict is recorded.
LEMMA RowJudge ==
  ASSUME NEW row, IsRow(row), NEW x
  PROVE  [row EXCEPT !.judge = x] = [status |-> row.status, source |-> row.source, side |-> row.side, proposal |-> row.proposal,
                                     views |-> row.views, judge |-> x, risk |-> row.risk]
BY DEF IsRow

\* The status changes.
LEMMA RowStatusChange ==
  ASSUME NEW row, IsRow(row), NEW x
  PROVE  [row EXCEPT !.status = x] = [status |-> x, source |-> row.source, side |-> row.side, proposal |-> row.proposal,
                                     views |-> row.views, judge |-> row.judge, risk |-> row.risk]
BY DEF IsRow

\* The risk manager's verdict is recorded.
LEMMA RowRisk ==
  ASSUME NEW row, IsRow(row), NEW x
  PROVE  [row EXCEPT !.risk = x] = [status |-> row.status, source |-> row.source, side |-> row.side, proposal |-> row.proposal,
                                     views |-> row.views, judge |-> row.judge, risk |-> x]
BY DEF IsRow

\* A line of the script is written.
LEMMA WriteKeeps ==
  ASSUME DebateInv, NEW s \in Analyst, Write(s)
  PROVE  DebateInv'
<1> DEFINE me == analyst[s]
           old == board[me.on]
<1>1. me \in Busy /\ me.pc = "write" /\ me # Away /\ me.on \in Candidate
  BY Occupations DEF Write, DebateInv
<1>2. /\ me.input \in DeskInput /\ me.todo \in SUBSET (1 .. 9)
      /\ me = [pc |-> me.pc, on |-> me.on, input |-> me.input, todo |-> me.todo]
  BY <1>1 DEF Busy
<1>3. IsRow(old) /\ RowVerdict(old) /\ Recorded(old, me) /\ old.status # "none"
  BY <1>1 DEF DebateInv
<1>4. /\ me.todo \subseteq Lines(me.input) /\ 9 \in me.todo /\ old.judge = "none" /\ old.status \in {"discovered", "researching", "debating"}
      /\ old.source = "desk" /\ old.side = me.input.side /\ old.proposal = me.input.proposal
      /\ \A a \in DOMAIN old.views : a \in DOMAIN me.input.views /\ old.views[a] = me.input.views[a]
      /\ \A k \in 1 .. 9 : Script[k] \in Agent /\ Script[k] \in DOMAIN me.input.views =>
            k \in me.todo \/ Script[k] \in DOMAIN old.views
  BY <1>1, <1>3 DEF Recorded
<1>5. PICK k \in me.todo :
        /\ \A j \in me.todo : k <= j
        /\ board' = [board EXCEPT ![me.on] = Recording(@, Script[k], me.input)]
        /\ analyst' = [analyst EXCEPT ![s] = Writing(me.on, me.input, me.todo \ {k})]
  BY DEF Write
<1> DEFINE item == Script[k]
           row == Recording(old, item, me.input)
           next == Writing(me.on, me.input, me.todo \ {k})
<1>6. board' = [board EXCEPT ![me.on] = row] /\ analyst' = [analyst EXCEPT ![s] = next] /\ UNCHANGED ordered
  BY <1>5 DEF Write
<1>7. /\ next \in Busy /\ next.on = me.on /\ next.input = me.input /\ next.todo = me.todo \ {k}
      /\ next.pc = IF me.todo \ {k} = {} THEN "conclude" ELSE "write"
  BY <1>1, <1>2, <1>5 DEF Busy, Writing
<1>8. k \in 1 .. 9 /\ item \in Agent \cup {"judge", "researching", "debating"}
      /\ (item = "judge" <=> k = 9)
  BY <1>2 DEF Script, Agent
<1>9. k # 9 => 9 \in next.todo /\ next.pc = "write"
  BY <1>4, <1>7
<1>10. k = 9 => next.todo = {} /\ next.pc = "conclude"
  <2>1. ASSUME k = 9, NEW j \in me.todo PROVE j = 9
    <3>1. 9 <= j /\ j \in 1 .. 9
      BY <1>2, <1>5, <2>1
    <3> QED
      BY <3>1
  <2>2. k = 9 => me.todo \ {k} = {}
    BY <2>1
  <2> HIDE DEF next
  <2> QED
    BY <1>7, <2>2
<1>11. IsRow(row) /\ RowVerdict(row) /\ row.status # "none" /\ Recorded(row, next)
  <2>1. CASE item \in Agent
    <3>1. row = [old EXCEPT !.views = WithView(@, item, me.input.views[item])] /\ k # 9
      BY <2>1, <1>8 DEF Agent, Recording
    <3> DEFINE views == WithView(old.views, item, me.input.views[item])
    <3>2. row = [status |-> old.status, source |-> old.source, side |-> old.side, proposal |-> old.proposal, views |-> views,
                 judge |-> old.judge, risk |-> old.risk]
      BY <1>3, <3>1, RowViews
    <3>3. item \in DOMAIN me.input.views
      BY <1>4, <2>1 DEF Lines
    <3>4. /\ DOMAIN views = DOMAIN old.views \cup {item} /\ views[item] = me.input.views[item]
          /\ \A a \in DOMAIN old.views : a # item => views[a] = old.views[a]
      <4> HIDE DEF item
      <4> QED
        BY DEF WithView
    <3> HIDE DEF row, next, views
    <3>5. IsRow(row) /\ RowVerdict(row) /\ row.status # "none"
      BY <1>3, <1>4, <2>1, <3>2, <3>4 DEF IsRow, RowVerdict
    <3>6. \A a \in DOMAIN row.views : a \in DOMAIN me.input.views /\ row.views[a] = me.input.views[a]
      BY <1>4, <3>2, <3>3, <3>4
    <3>7. \A j \in 1 .. 9 : Script[j] \in Agent /\ Script[j] \in DOMAIN me.input.views =>
             j \in next.todo \/ Script[j] \in DOMAIN row.views
      BY <1>4, <1>7, <3>2, <3>4, SMTT(30)
    <3> QED
      BY <1>4, <1>7, <1>9, <3>1, <3>2, <3>5, <3>6, <3>7, ZenonT(40) DEF Recorded
  <2>2. CASE item = "judge"
    <3>1. row = [old EXCEPT !.judge = RuleJudge(me.input.views)] /\ k = 9
      BY <2>2, <1>8 DEF Agent, Recording
    <3>2. row = [status |-> old.status, source |-> old.source, side |-> old.side, proposal |-> old.proposal, views |-> old.views,
                 judge |-> RuleJudge(me.input.views), risk |-> old.risk]
      BY <1>3, <3>1, RowJudge
    <3>3. me.todo = {9}
      BY <1>2, <1>5, <3>1
    <3>4. /\ \A a \in Agent : (a \in DOMAIN old.views <=> a \in DOMAIN me.input.views)
          /\ \A a \in Agent : a \in DOMAIN old.views => old.views[a] = me.input.views[a]
      <4>1. \A a \in Agent : \E j \in 1 .. 8 : Script[j] = a
        BY DEF Agent, Script
      <4> QED
        BY <1>4, <3>3, <4>1
    <3>5. RuleJudge(old.views) = RuleJudge(me.input.views)
      BY <3>4, JudgeSame
    <3> HIDE DEF row, next
    <3>6. IsRow(row) /\ RowVerdict(row) /\ row.status # "none"
      BY <1>3, <1>4, <3>2, <3>5, JudgeTyped DEF IsRow, RowVerdict
    <3>7. \A j \in 1 .. 9 : Script[j] \in Agent /\ Script[j] \in DOMAIN me.input.views =>
             j \in next.todo \/ Script[j] \in DOMAIN row.views
      BY <3>2, <3>4, SMTT(30)
    <3> QED
      BY <1>4, <1>7, <1>10, <3>1, <3>2, <3>6, <3>7 DEF Recorded
  <2>3. CASE item \in {"researching", "debating"}
    <3>1. row = [old EXCEPT !.status = item] /\ k # 9
      BY <2>3, <1>8 DEF Agent, Recording
    <3>2. row = [status |-> item, source |-> old.source, side |-> old.side, proposal |-> old.proposal, views |-> old.views,
                 judge |-> old.judge, risk |-> old.risk]
      BY <1>3, <3>1, RowStatusChange
    <3> HIDE DEF row, next
    <3>3. IsRow(row) /\ RowVerdict(row) /\ row.status # "none"
      BY <1>3, <1>4, <2>3, <3>2 DEF IsRow, RowVerdict, CandidateStatus
    <3>4. \A j \in 1 .. 9 : Script[j] \in Agent /\ Script[j] \in DOMAIN me.input.views =>
             j \in next.todo \/ Script[j] \in DOMAIN row.views
      <4>1. Script[k] \notin Agent
        BY <2>3 DEF Agent
      <4> QED
        BY <1>4, <1>7, <3>2, <4>1
    <3> QED
      BY <1>4, <1>7, <1>9, <2>3, <3>1, <3>2, <3>3, <3>4 DEF Recorded
  <2> QED
    BY <1>8, <2>1, <2>2, <2>3
<1> HIDE DEF row, next
<1>12. old.status # "approved"
  BY <1>4
<1>13. row.source = "desk"
  BY <1>11 DEF Recorded
<1> QED
  BY <1>1, <1>6, <1>7, <1>11, <1>12, <1>13, JobsApart, DeskWrites

\* A busy analyst, its candidate and what is on record of it.
LEMMA BusyRow ==
  ASSUME DebateInv, NEW s \in Analyst, analyst[s].pc \in {"write", "conclude", "risk", "settle"}
  PROVE  LET me == analyst[s]
             old == board[me.on]
         IN  /\ me \in Busy /\ me # Away /\ me.on \in Candidate /\ me.input \in DeskInput
             /\ me = [pc |-> me.pc, on |-> me.on, input |-> me.input, todo |-> me.todo]
             /\ IsRow(old) /\ RowVerdict(old) /\ Recorded(old, me) /\ old.status # "none"
             /\ old.status # "approved" /\ old.source = "desk"
<1> DEFINE me == analyst[s]
           old == board[me.on]
<1>1. me \in Busy /\ me # Away /\ me.on \in Candidate
  BY Occupations DEF DebateInv
<1>2. /\ me.input \in DeskInput
      /\ me = [pc |-> me.pc, on |-> me.on, input |-> me.input, todo |-> me.todo]
  BY <1>1 DEF Busy
<1>3. IsRow(old) /\ RowVerdict(old) /\ Recorded(old, me) /\ old.status # "none"
  BY <1>1 DEF DebateInv
<1>4. old.status # "approved" /\ old.source = "desk"
  BY <1>3 DEF Recorded
<1> QED
  BY <1>1, <1>2, <1>3, <1>4

\* A busy analyst in its next phase, its notes unchanged.
LEMMA PhaseChanges ==
  ASSUME NEW me \in Busy, NEW pc \in {"write", "conclude", "risk", "settle"}, NEW n, n = [me EXCEPT !.pc = pc]
  PROVE  n \in Busy /\ n.pc = pc /\ n.on = me.on /\ n.input = me.input /\ n.todo = me.todo
<1>1. n = [pc |-> pc, on |-> me.on, input |-> me.input, todo |-> me.todo]
  BY DEF Busy
<1> QED
  BY <1>1 DEF Busy

\* The debate is concluded.
LEMMA ConcludeKeeps ==
  ASSUME DebateInv, NEW s \in Analyst, Conclude(s)
  PROVE  DebateInv'
<1> DEFINE me == analyst[s]
           old == board[me.on]
           sideOk == RuleJudge(me.input.views) \in Wanted(me.input.side)
           next == IF ~sideOk THEN "rejected" ELSE IF me.input.proposal THEN "risk_review" ELSE "approved"
           row == [old EXCEPT !.status = next]
<1>1. me.pc = "conclude" /\ board' = [board EXCEPT ![me.on] = row] /\ UNCHANGED ordered
  BY DEF Conclude
<1>2. /\ me \in Busy /\ me # Away /\ me.on \in Candidate /\ me.input \in DeskInput
      /\ IsRow(old) /\ RowVerdict(old) /\ Recorded(old, me) /\ old.status # "none"
      /\ old.status # "approved" /\ old.source = "desk"
  BY <1>1, BusyRow
<1>3. /\ old.side = me.input.side /\ old.proposal = me.input.proposal
      /\ me.todo = {} /\ old.judge = RuleJudge(me.input.views)
  BY <1>1, <1>2 DEF Recorded
<1>4. row = [status |-> next, source |-> old.source, side |-> old.side, proposal |-> old.proposal, views |-> old.views,
             judge |-> old.judge, risk |-> old.risk]
  <2> HIDE DEF next
  <2> QED
    BY <1>2, RowStatusChange
<1>5. next \in {"rejected", "risk_review", "approved"} /\ (next # "rejected" => sideOk)
      /\ (next = "approved" => ~ me.input.proposal)
  BY <1>2, InputTyped
<1> HIDE DEF row, next
<1>6. IsRow(row) /\ RowVerdict(row) /\ row.status # "none" /\ row.source = "desk"
  BY <1>2, <1>3, <1>4, <1>5 DEF IsRow, RowVerdict, CandidateStatus
<1>7. CASE next = "risk_review"
  <2> DEFINE n == [me EXCEPT !.pc = "risk"]
  <2>1. analyst' = [analyst EXCEPT ![s] = n]
    BY <1>7 DEF Conclude, next, sideOk
  <2>2. n \in Busy /\ n.pc = "risk" /\ n.on = me.on /\ n.input = me.input /\ n.todo = me.todo
    BY <1>2, PhaseChanges
  <2> HIDE DEF n
  <2>3. Recorded(row, n)
    BY <1>1, <1>2, <1>3, <1>4, <1>5, <1>7, <2>2 DEF Recorded
  <2> QED
    BY <1>1, <1>2, <1>6, <2>1, <2>2, <2>3, JobsApart, DeskWrites
<1>8. CASE next # "risk_review"
  <2>1. Answered(s, next = "approved")
    BY <1>8 DEF Conclude, next, sideOk
  <2>2. CASE next = "approved" /\ me.input.signal # "none"
    <3> DEFINE n == [pc |-> "trade", on |-> me.on, signal |-> me.input.signal]
    <3>1. analyst' = [analyst EXCEPT ![s] = n]
      BY <2>1, <2>2 DEF Answered
    <3>2. me.input.signal \in Signal /\ me.input.side = IF Direction(me.input.signal) = "bearish" THEN "sell" ELSE "buy"
      BY <1>2, <2>2, InputTyped
    <3>3. n \in Trading /\ n.on = me.on /\ n.signal = me.input.signal
      BY <1>2, <3>2 DEF Trading
    <3> HIDE DEF n
    <3>4. TradeVerdict(row, n)
      BY <1>3, <1>4, <1>5, <1>6, <2>2, <3>2, <3>3 DEF TradeVerdict, Backing
    <3> QED
      BY <1>1, <1>2, <1>6, <3>1, <3>3, <3>4, JobsApart, DeskWrites
  <2>3. CASE ~(next = "approved" /\ me.input.signal # "none")
    <3>1. analyst' = [analyst EXCEPT ![s] = Away]
      BY <2>1, <2>3 DEF Answered
    <3>2. Away \in Job
      BY DEF Job
    <3> QED
      BY <1>1, <1>2, <1>6, <3>1, <3>2, JobsApart, DeskWrites
  <2> QED
    BY <2>2, <2>3
<1> QED
  BY <1>7, <1>8

\* The risk manager checks.
LEMMA CheckRiskKeeps ==
  ASSUME DebateInv, NEW s \in Analyst, CheckRisk(s)
  PROVE  DebateInv'
<1> DEFINE me == analyst[s]
           old == board[me.on]
           n == [me EXCEPT !.pc = "settle"]
<1>1. me.pc = "risk" /\ analyst' = [analyst EXCEPT ![s] = n] /\ UNCHANGED ordered
  BY DEF CheckRisk
<1>2. PICK says \in {"approved", "rejected"} : board' = [board EXCEPT ![me.on] = [old EXCEPT !.risk = says]]
  BY DEF CheckRisk
<1> DEFINE row == [old EXCEPT !.risk = says]
<1>3. /\ me \in Busy /\ me # Away /\ me.on \in Candidate /\ me.input \in DeskInput
      /\ IsRow(old) /\ RowVerdict(old) /\ Recorded(old, me) /\ old.status # "none"
      /\ old.status # "approved" /\ old.source = "desk"
  BY <1>1, BusyRow
<1>4. row = [status |-> old.status, source |-> old.source, side |-> old.side, proposal |-> old.proposal, views |-> old.views,
             judge |-> old.judge, risk |-> says]
  BY <1>3, RowRisk
<1>5. n \in Busy /\ n.pc = "settle" /\ n.on = me.on /\ n.input = me.input /\ n.todo = me.todo
  BY <1>3, PhaseChanges
<1>6. old.status # "approved"
  BY <1>3
<1>7. board' = [board EXCEPT ![me.on] = row]
  BY <1>2
<1> HIDE DEF row, n
<1>8. IsRow(row) /\ RowVerdict(row) /\ row.status # "none"
  BY <1>3, <1>4, <1>6, SMTT(30) DEF IsRow, RowVerdict
<1>9. Recorded(row, n)
  BY <1>1, <1>3, <1>4, <1>5 DEF Recorded
<1>10. row.source = "desk"
  BY <1>3, <1>4
<1> QED
  BY <1>1, <1>3, <1>5, <1>7, <1>8, <1>9, <1>10, JobsApart, DeskWrites

\* The candidate is approved or rejected.
LEMMA SettleKeeps ==
  ASSUME DebateInv, NEW s \in Analyst, Settle(s)
  PROVE  DebateInv'
<1> DEFINE me == analyst[s]
           old == board[me.on]
           row == [old EXCEPT !.status = old.risk]
<1>1. /\ me.pc = "settle" /\ analyst' = [analyst EXCEPT ![s] = Away] /\ board' = [board EXCEPT ![me.on] = row]
      /\ UNCHANGED ordered
  BY DEF Settle
<1>2. /\ me \in Busy /\ me # Away /\ me.on \in Candidate /\ me.input \in DeskInput
      /\ IsRow(old) /\ RowVerdict(old) /\ Recorded(old, me) /\ old.status # "none"
      /\ old.status # "approved" /\ old.source = "desk"
  BY <1>1, BusyRow
<1>3. row = [status |-> old.risk, source |-> old.source, side |-> old.side, proposal |-> old.proposal, views |-> old.views,
             judge |-> old.judge, risk |-> old.risk]
  BY <1>2, RowStatusChange
<1>4. old.risk \in {"approved", "rejected"} /\ old.judge \in Wanted(old.side)
  BY <1>1, <1>2 DEF Recorded
<1> HIDE DEF row
<1>5. IsRow(row) /\ RowVerdict(row) /\ row.status # "none" /\ row.source = "desk"
  BY <1>2, <1>3, <1>4 DEF IsRow, RowVerdict, CandidateStatus
<1>6. Away \in Job
  BY DEF Job
<1> QED
  BY <1>1, <1>2, <1>5, <1>6, JobsApart, DeskWrites

\* An analyst leaves, or dies.
LEMMA LeavingKeeps ==
  ASSUME DebateInv, NEW s \in Analyst, analyst' = [analyst EXCEPT ![s] = Away], UNCHANGED <<board, ordered>>
  PROVE  DebateInv'
<1>1. analyst'[s] = Away /\ \A u \in Analyst : u # s => analyst'[u] = analyst[u]
  BY DEF DebateInv
<1>2. Away \notin Busy /\ Away \notin Trading /\ Away \notin Running /\ Away \in Job
  BY JobsApart DEF Job
<1>3. analyst' \in [Analyst -> Job]
  BY <1>2 DEF DebateInv
<1>4. ASSUME NEW u \in Analyst, analyst'[u] # Away PROVE u # s /\ analyst'[u] = analyst[u] /\ analyst[u] # Away
  BY <1>1, <1>4
<1>5. board' = board /\ ordered' = ordered
  OBVIOUS
<1> QED
  BY <1>2, <1>3, <1>4, <1>5 DEF DebateInv

\* A program's next step, its candidate the same.
LEMMA ProgramPhase ==
  ASSUME NEW me \in Running, NEW pc \in {"opine", "review", "order", "approve"}, NEW n, n = [me EXCEPT !.pc = pc]
  PROVE  n \in Running /\ n.pc = pc /\ n.on = me.on /\ n.source = me.source /\ n.verdict = me.verdict
<1>1. n = [pc |-> pc, on |-> me.on, source |-> me.source, verdict |-> me.verdict]
  BY DEF Running
<1> QED
  BY <1>1 DEF Running

\* A program, its candidate and what is on record of it.
LEMMA RunningRow ==
  ASSUME DebateInv, NEW s \in Analyst, analyst[s].pc \in {"opine", "review", "order", "approve"}
  PROVE  LET me == analyst[s]
             old == board[me.on]
         IN  /\ me \in Running /\ me # Away /\ me.on \in Candidate /\ me.source \in Program
             /\ IsRow(old) /\ RowVerdict(old) /\ old.status # "none"
             /\ OwnRow(old, me) /\ OwnWord(me.on, old, ordered, board) /\ JobFine(me, ordered, board)
<1> DEFINE me == analyst[s]
<1>1. me \in Running /\ me # Away /\ me.on \in Candidate
  BY Occupations DEF DebateInv
<1>2. me.source \in Program
  BY <1>1 DEF Running
<1> QED
  BY <1>1, <1>2 DEF DebateInv

\* A program proposes a purchase; an option leg's has the session's debate.
LEMMA ProposeKeeps ==
  ASSUME DebateInv, NEW s \in Analyst, NEW c \in Candidate, NEW source \in Program,
         NEW verdict \in {"bullish", "bearish", "call", "put"}, Propose(s, c, source, verdict)
  PROVE  DebateInv'
<1> DEFINE row == NewRow(source, "buy", FALSE)
           me == [pc |-> "opine", on |-> c, source |-> source, verdict |-> verdict]
<1>1. /\ board' = [board EXCEPT ![c] = row] /\ analyst' = [analyst EXCEPT ![s] = me]
      /\ board[c].status = "none" /\ UNCHANGED ordered /\ MayPropose(s, source, verdict)
  BY DEF Propose
<1>2. row = [status |-> "discovered", source |-> source, side |-> "buy", proposal |-> FALSE,
             views |-> <<>>, judge |-> "none", risk |-> "none"]
  BY DEF NewRow
<1>3. /\ me \in Running /\ me.on = c /\ me.pc = "opine" /\ me.source = source /\ me.verdict = verdict
      /\ me \in Job
  BY DEF Running, Job
<1> HIDE DEF row, me
<1>4. IsRow(row) /\ RowVerdict(row) /\ row.status = "discovered" /\ OwnRow(row, me)
  <2>1. source \in Source /\ DOMAIN row.views = {}
    BY <1>2 DEF Source
  <2> QED
    BY <1>2, <1>3, <2>1 DEF IsRow, RowVerdict, OwnRow, CandidateStatus, Side
<1>5. source = "options-auto" => Backed(board, verdict)
  <2> SUFFICES ASSUME source = "options-auto" PROVE Backed(board, verdict)
    OBVIOUS
  <2>1. analyst[s].pc = "trade" /\ verdict = Direction(analyst[s].signal)
    BY <1>1 DEF MayPropose
  <2>2. analyst[s].on \in Candidate /\ TradeVerdict(board[analyst[s].on], analyst[s])
    BY <2>1, Occupations DEF DebateInv, Away
  <2> QED
    BY <2>1, <2>2 DEF Backed, TradeVerdict
<1>6. DOMAIN board' = Candidate /\ board'[c] = row /\ \A d \in Candidate : d # c => board'[d] = board[d]
  BY <1>1, RowWritten
<1>7. source = "options-auto" => Backed(board', verdict)
  <2>1. board[c].status # "approved"
    BY <1>1
  <2> QED
    BY <1>5, <1>6, <2>1, BackedStays
<1>8. JobFine(me, ordered', board')
  BY <1>3, <1>7 DEF JobFine
<1>9. OwnWord(c, row, ordered', board')
  BY <1>2, <1>4 DEF OwnWord
<1>10. \A u \in Analyst : u # s /\ analyst[u] # Away => analyst[u].on # c
  BY <1>1, AloneOn
<1>11. ordered \subseteq ordered' /\ ordered' \subseteq Candidate
  BY <1>1 DEF DebateInv
<1> QED
  BY <1>1, <1>3, <1>4, <1>6, <1>8, <1>9, <1>10, <1>11, JobsApart, AnalystMoves

\* A program records its opinion.
LEMMA OpineKeeps ==
  ASSUME DebateInv, NEW s \in Analyst, Opine(s)
  PROVE  DebateInv'
<1> DEFINE me == analyst[s]
           old == board[me.on]
           views == WithView(old.views, Speaker(me.source), OwnView(me))
           row == [old EXCEPT !.views = views]
           pc == IF me.source = "overnight-rule" THEN "order" ELSE "review"
           n == [me EXCEPT !.pc = pc]
<1>1. /\ me.pc = "opine" /\ UNCHANGED ordered
      /\ board' = [board EXCEPT ![me.on] = row] /\ analyst' = [analyst EXCEPT ![s] = n]
  BY DEF Opine
<1>2. /\ me \in Running /\ me # Away /\ me.on \in Candidate /\ me.source \in Program
      /\ IsRow(old) /\ RowVerdict(old) /\ old.status # "none"
      /\ OwnRow(old, me) /\ OwnWord(me.on, old, ordered, board) /\ JobFine(me, ordered, board)
  BY <1>1, RunningRow
<1>3. n \in Running /\ n.pc = pc /\ n.on = me.on /\ n.source = me.source /\ n.verdict = me.verdict
  BY <1>2, ProgramPhase
<1>4. row = [status |-> old.status, source |-> old.source, side |-> old.side, proposal |-> old.proposal,
             views |-> views, judge |-> old.judge, risk |-> old.risk]
  <2> HIDE DEF views
  <2> QED
    BY <1>2, RowViews
<1>5. /\ DOMAIN views = DOMAIN old.views \cup {Speaker(me.source)}
      /\ views[Speaker(me.source)] = OwnView(me)
      /\ \A a \in DOMAIN old.views : a # Speaker(me.source) => views[a] = old.views[a]
  BY DEF WithView
<1>6. /\ old.source = me.source /\ old.status # "approved" /\ old.judge = "none"
      /\ Speaker(me.source) \in Agent \cup {"scout"} /\ OwnView(me).verdict = me.verdict
      /\ me.source = "options-auto" => Speaker(me.source) = "scout" /\ Backed(board, me.verdict)
  BY <1>2 DEF OwnRow, JobFine, Speaker, OwnView, Agent
<1> HIDE DEF views, row, n, old
<1>7. IsRow(row) /\ RowVerdict(row) /\ row.status # "none"
  BY <1>2, <1>4, <1>5, <1>6 DEF IsRow, RowVerdict
<1>8. OwnRow(row, n)
  BY <1>3, <1>4, <1>5, <1>6 DEF OwnRow
<1>9. DOMAIN board' = Candidate /\ board'[me.on] = row /\ \A d \in Candidate : d # me.on => board'[d] = board[d]
  BY <1>1, <1>2, RowWritten
<1>10. me.source = "options-auto" => Backed(board', me.verdict)
  BY <1>2, <1>6, <1>9, BackedStays DEF old
<1>11. OwnWord(me.on, row, ordered', board')
  BY <1>4, <1>5, <1>6, <1>10 DEF OwnWord
<1>12. JobFine(n, ordered', board')
  BY <1>3, <1>10 DEF JobFine, pc
<1>13. \A u \in Analyst : u # s /\ analyst[u] # Away => analyst[u].on # me.on
  BY <1>2, AloneOn
<1>14. ordered \subseteq ordered' /\ ordered' \subseteq Candidate
  BY <1>1 DEF DebateInv
<1>15. board[me.on].status # "approved"
  BY <1>6 DEF old
<1> QED
  BY <1>1, <1>2, <1>3, <1>7, <1>8, <1>9, <1>11, <1>12, <1>13, <1>14, <1>15, JobsApart, AnalystMoves

\* A program leaves its candidate for review.
LEMMA ToReviewKeeps ==
  ASSUME DebateInv, NEW s \in Analyst, ToReview(s)
  PROVE  DebateInv'
<1> DEFINE me == analyst[s]
           old == board[me.on]
           row == [old EXCEPT !.status = "risk_review"]
           n == [me EXCEPT !.pc = "order"]
<1>1. /\ me.pc = "review" /\ UNCHANGED ordered
      /\ board' = [board EXCEPT ![me.on] = row] /\ analyst' = [analyst EXCEPT ![s] = n]
  BY DEF ToReview
<1>2. /\ me \in Running /\ me # Away /\ me.on \in Candidate /\ me.source \in Program
      /\ IsRow(old) /\ RowVerdict(old) /\ old.status # "none"
      /\ OwnRow(old, me) /\ OwnWord(me.on, old, ordered, board) /\ JobFine(me, ordered, board)
  BY <1>1, RunningRow
<1>3. n \in Running /\ n.pc = "order" /\ n.on = me.on /\ n.source = me.source /\ n.verdict = me.verdict
  BY <1>2, ProgramPhase
<1>4. row = [status |-> "risk_review", source |-> old.source, side |-> old.side, proposal |-> old.proposal,
             views |-> old.views, judge |-> old.judge, risk |-> old.risk]
  BY <1>2, RowStatusChange
<1>5. old.source = me.source /\ old.status # "approved" /\ old.judge = "none" /\ Speaker(me.source) \in DOMAIN old.views
  BY <1>1, <1>2 DEF OwnRow
<1> HIDE DEF row, n, old
<1>6. IsRow(row) /\ RowVerdict(row) /\ row.status = "risk_review" /\ OwnRow(row, n)
  BY <1>2, <1>3, <1>4, <1>5 DEF IsRow, RowVerdict, OwnRow, CandidateStatus
<1>7. DOMAIN board' = Candidate /\ board'[me.on] = row /\ \A d \in Candidate : d # me.on => board'[d] = board[d]
  BY <1>1, <1>2, RowWritten
<1>8. board[me.on].status # "approved"
  BY <1>5 DEF old
<1>9. ASSUME NEW v, Backed(board, v) PROVE Backed(board', v)
  BY <1>2, <1>7, <1>8, <1>9, BackedStays
<1>10. OwnWord(me.on, row, ordered', board')
  BY <1>2, <1>4, <1>6, <1>9 DEF OwnWord
<1>11. JobFine(n, ordered', board')
  BY <1>2, <1>3, <1>9 DEF JobFine
<1>12. \A u \in Analyst : u # s /\ analyst[u] # Away => analyst[u].on # me.on
  BY <1>2, AloneOn
<1>13. ordered \subseteq ordered' /\ ordered' \subseteq Candidate
  BY <1>1 DEF DebateInv
<1> QED
  BY <1>1, <1>2, <1>3, <1>6, <1>7, <1>8, <1>10, <1>11, <1>12, <1>13, JobsApart, AnalystMoves

\* The broker takes a program's order, whether it learns of it or not.
LEMMA OrderKeeps ==
  ASSUME DebateInv, NEW s \in Analyst, Order(s)
  PROVE  DebateInv'
<1> DEFINE me == analyst[s]
           old == board[me.on]
<1>1. me.pc = "order" /\ ordered' = ordered \cup {me.on} /\ UNCHANGED board
  BY DEF Order
<1>2. /\ me \in Running /\ me # Away /\ me.on \in Candidate /\ me.source \in Program
      /\ IsRow(old) /\ RowVerdict(old) /\ old.status # "none"
      /\ OwnRow(old, me) /\ OwnWord(me.on, old, ordered, board) /\ JobFine(me, ordered, board)
  BY <1>1, RunningRow
<1>3. PICK n \in {[me EXCEPT !.pc = "approve"], Away} : analyst' = [analyst EXCEPT ![s] = n]
  BY DEF Order
<1>4. n # Away => n \in Running /\ n.pc = "approve" /\ n.on = me.on /\ n.source = me.source /\ n.verdict = me.verdict
  BY <1>2, ProgramPhase
<1>5. n \in Job /\ n \notin Busy /\ n \notin Trading /\ (n \in Running => n # Away)
  BY <1>4, JobsApart DEF Job
<1>6. DOMAIN board' = Candidate /\ board'[me.on] = old /\ \A d \in Candidate : d # me.on => board'[d] = board[d]
  BY <1>1 DEF DebateInv
<1>7. board' = board
  BY <1>1
<1>8. OwnWord(me.on, old, ordered', board')
  BY <1>1, <1>2, <1>7 DEF OwnWord
<1>9. n \in Running => OwnRow(old, n) /\ JobFine(n, ordered', board')
  BY <1>1, <1>2, <1>4, <1>5, <1>7 DEF OwnRow, JobFine
<1>10. old.status # "approved"
  BY <1>2 DEF OwnRow
<1>11. \A u \in Analyst : u # s /\ analyst[u] # Away => analyst[u].on # me.on
  BY <1>2, AloneOn
<1>12. ordered \subseteq ordered' /\ ordered' \subseteq Candidate
  BY <1>1, <1>2 DEF DebateInv
<1> QED
  BY <1>2, <1>3, <1>4, <1>5, <1>6, <1>8, <1>9, <1>10, <1>11, <1>12, AnalystMoves

\* A program approves its candidate.
LEMMA MarkApprovedKeeps ==
  ASSUME DebateInv, NEW s \in Analyst, MarkApproved(s)
  PROVE  DebateInv'
<1> DEFINE me == analyst[s]
           old == board[me.on]
           row == [old EXCEPT !.status = "approved"]
<1>1. /\ me.pc = "approve" /\ UNCHANGED ordered
      /\ board' = [board EXCEPT ![me.on] = row] /\ analyst' = [analyst EXCEPT ![s] = Away]
  BY DEF MarkApproved
<1>2. /\ me \in Running /\ me # Away /\ me.on \in Candidate /\ me.source \in Program
      /\ IsRow(old) /\ RowVerdict(old) /\ old.status # "none"
      /\ OwnRow(old, me) /\ OwnWord(me.on, old, ordered, board) /\ JobFine(me, ordered, board)
  BY <1>1, RunningRow
<1>3. row = [status |-> "approved", source |-> old.source, side |-> old.side, proposal |-> old.proposal,
             views |-> old.views, judge |-> old.judge, risk |-> old.risk]
  BY <1>2, RowStatusChange
<1>4. /\ old.source = me.source /\ old.status # "approved" /\ old.judge = "none" /\ Speaker(me.source) \in DOMAIN old.views
      /\ me.source # "desk" /\ me.on \in ordered
  BY <1>1, <1>2 DEF OwnRow, JobFine, Program
<1> HIDE DEF row, old
<1>5. IsRow(row) /\ RowVerdict(row) /\ row.status = "approved"
  BY <1>2, <1>3, <1>4 DEF IsRow, RowVerdict, CandidateStatus
<1>6. DOMAIN board' = Candidate /\ board'[me.on] = row /\ \A d \in Candidate : d # me.on => board'[d] = board[d]
  BY <1>1, <1>2, RowWritten
<1>7. board[me.on].status # "approved"
  BY <1>4 DEF old
<1>8. ASSUME NEW v, Backed(board, v) PROVE Backed(board', v)
  BY <1>2, <1>6, <1>7, <1>8, BackedStays
<1>9. OwnWord(me.on, row, ordered', board')
  BY <1>1, <1>2, <1>3, <1>4, <1>8 DEF OwnWord
<1>10. \A u \in Analyst : u # s /\ analyst[u] # Away => analyst[u].on # me.on
  BY <1>2, AloneOn
<1>11. ordered \subseteq ordered' /\ ordered' \subseteq Candidate /\ Away \in Job
  BY <1>1 DEF DebateInv, Job
<1>12. row.status # "none" /\ Away \notin Busy /\ Away \notin Trading /\ Away \notin Running
  BY <1>5, JobsApart
<1>13. analyst' = [analyst EXCEPT ![s] = Away] /\ me.on \in Candidate
  BY <1>1, <1>2
<1> QED
  BY <1>5, <1>6, <1>7, <1>9, <1>10, <1>11, <1>12, <1>13, AnalystMoves

\* No step breaks the invariant.
LEMMA DebateKeeps ==
  ASSUME DebateInv, [DebateNext]_debateVars
  PROVE  DebateInv'
<1>1. ASSUME NEW s \in Analyst, BreaksOff(s) \/ NextTicker(s) \/ GivesUp(s) PROVE DebateInv'
  BY <1>1, LeavingKeeps DEF BreaksOff, NextTicker, GivesUp, Answered
<1>2. CASE UNCHANGED debateVars
  <2>1. board' = board /\ analyst' = analyst /\ ordered' = ordered
    BY <1>2 DEF debateVars
  <2> QED
    BY <2>1 DEF DebateInv
<1>3. ASSUME NEW s \in Analyst, ProgramNext(s) PROVE DebateInv'
  BY <1>1, <1>3, ProposeKeeps, OpineKeeps, ToReviewKeeps, OrderKeeps, MarkApprovedKeeps DEF ProgramNext
<1>4. ASSUME NEW s \in Analyst, NEW c \in Candidate, NEW input \in DeskInput, Discover(s, c, input) PROVE DebateInv'
  BY <1>4, DiscoverKeeps
<1>5. ASSUME NEW s \in Analyst, Write(s) \/ Conclude(s) \/ CheckRisk(s) \/ Settle(s) PROVE DebateInv'
  BY <1>5, WriteKeeps, ConcludeKeeps, CheckRiskKeeps, SettleKeeps
<1> QED
  BY <1>1, <1>2, <1>3, <1>4, <1>5 DEF DebateNext

\* The desk begins with an empty board.
LEMMA DebateStarts ==
  ASSUME DebateInit
  PROVE  DebateInv
<1>1. Blank = [status |-> "none", source |-> "desk", side |-> "buy", proposal |-> FALSE,
               views |-> <<>>, judge |-> "none", risk |-> "none"]
  BY DEF Blank
<1>2. IsRow(Blank) /\ RowVerdict(Blank) /\ Blank.status = "none" /\ Blank.source = "desk"
  BY <1>1 DEF IsRow, RowVerdict, CandidateStatus, Side, Source
<1>3. Away \notin Busy /\ Away \notin Trading /\ Away \notin Running /\ Away \in Job
  BY JobsApart DEF Job
<1>4. \A c \in Candidate : OwnWord(c, board[c], ordered, board)
  BY <1>2 DEF DebateInit, OwnWord
<1> QED
  BY <1>2, <1>3, <1>4 DEF DebateInit, DebateInv

\* Every verdict on the board is what the judge makes of the views recorded with
\* it, and an approval of the desk has the verdict of its side and the risk
\* manager's yes; an approval of a program has the program's opinion and an order
\* at the broker; and what a session trades on, its option leg's candidate
\* included, is a debate of the desk that is on record and approved: for any
\* number of processes, programs, candidates and debates, wherever a process dies.
THEOREM DebatesAreOnRecord == DebateSpec => []VerdictsAreOnRecord
<1>1. DebateInit => DebateInv
  BY DebateStarts
<1>2. DebateInv /\ [DebateNext]_debateVars => DebateInv'
  BY DebateKeeps
<1>3. DebateInv => VerdictsAreOnRecord
  <2> SUFFICES ASSUME DebateInv PROVE VerdictsAreOnRecord
    OBVIOUS
  <2>1. ASSUME NEW s \in Analyst, analyst[s].pc = "trade" PROVE TradeVerdict(board[analyst[s].on], analyst[s])
    BY <2>1, Occupations DEF DebateInv
  <2>2. \A c \in Candidate : RowVerdict(board[c]) /\ OwnWord(c, board[c], ordered, board)
    BY DEF DebateInv
  <2> QED
    BY <2>1, <2>2 DEF VerdictsAreOnRecord, RowVerdict, OwnWord, Backed, TradeVerdict
<1> QED
  BY <1>1, <1>2, <1>3, PTL DEF DebateSpec

\* The board and the analysts keep their types.
THEOREM DebateTypesHold == DebateSpec => []DebateTypeOK
<1>1. DebateInit => DebateInv
  BY DebateStarts
<1>2. DebateInv /\ [DebateNext]_debateVars => DebateInv'
  BY DebateKeeps
<1>3. DebateInv => DebateTypeOK
  <2> SUFFICES ASSUME DebateInv PROVE DebateTypeOK
    OBVIOUS
  <2>1. \A c \in Candidate : IsRow(board[c])
    BY DEF DebateInv
  <2>2. ASSUME NEW s \in Analyst
        PROVE  analyst[s].pc \in {"idle", "write", "conclude", "risk", "settle", "trade",
                                  "opine", "review", "order", "approve"}
    BY DEF DebateInv, Job, Away, Busy, Trading, Running
  <2> QED
    BY <2>1, <2>2 DEF DebateTypeOK, IsRow, DebateInv
<1> QED
  BY <1>1, <1>2, <1>3, PTL DEF DebateSpec

-----------------------------------------------------------------------------
(* Options.                                                                  *)

\* A contract that is held on one of its last days.
Ending(c) == lots[c] > 0 /\ Dte(c) <= MaxDte

\* What today's passes offered, or could not offer.
Dealt == (offered \cup excused) \cup unread

\* What rests at the broker: of today, purchases of contracts far from their
\* last days, and one sale at most of what is held of a contract.
AsksFine ==
    /\ \A a \in working :
          /\ window = "open" /\ a.on \in OptionContract
          /\ a.side = "buy" => Dte(a.on) >= MinDte
          /\ a.side = "sell" => a.lots <= lots[a.on]
    /\ \A a, b \in working : a.side = "sell" /\ b.side = "sell" /\ a.on = b.on => a = b

\* What a program is about to buy is far from its last days.
BuyersFine ==
    \A b \in Buyer : buyer[b].pc \in {"count", "place"} =>
        buyer[b].ask \in Ask /\ buyer[b].ask.side = "buy" /\ Dte(buyer[b].ask.on) >= MinDte

\* What ends is still on the pass's list, or has been dealt with; after a pass of
\* the open window all of it has.
PassFine ==
    /\ \A row \in pass.todo : row.lots > 0
    /\ pass.pc = "pass" /\ window = "open" => \A c \in OptionContract : Ending(c) => c \in Left \cup Dealt
    /\ window = "open" /\ passed => \A c \in OptionContract : Ending(c) => c \in Dealt

\* The inductive invariant of the options desk.
OptionsInv == OptionsTypeOK /\ AsksFine /\ BuyersFine /\ PassFine /\ LastDaysAreOffered

\* The desk begins with nothing held.
LEMMA OptionsStart ==
  ASSUME OptionsInit
  PROVE  OptionsInv
<1>1. 0 \in 0 .. LastDay /\ 0 \in 0 .. MaxBroken
  BY ChainAssumption
<1>2. OptionsTypeOK
  BY <1>1 DEF OptionsInit, OptionsTypeOK, Quiet
<1> QED
  BY <1>2 DEF OptionsInit, OptionsInv, AsksFine, BuyersFine, PassFine, LastDaysAreOffered

\* What the constants are.
LEMMA Constants ==
  /\ MaxDte \in Nat /\ MinDte \in Nat /\ MaxDte < MinDte /\ Spread \in Nat /\ Spread > 0
  /\ Bid \subseteq Nat /\ MaxPremium \in Nat /\ MaxContracts \in Nat /\ MaxBroken \in Nat /\ LastDay \in Nat
  /\ Expires \in [OptionContract -> Nat]
BY ChainAssumption

\* The program's own steps that leave the broker alone.
LEMMA ScoutKeeps ==
  ASSUME OptionsInv, NEW b \in Buyer, Scout(b)
  PROVE  OptionsInv'
<1>0. PICK c \in OptionContract :
        /\ Eligible(c)
        /\ \E n \in {Sized(AskOf(c)), LegSized(AskOf(c))} :
              /\ n >= 1
              /\ buyer' = [buyer EXCEPT ![b] =
                    [pc |-> "count", ask |-> [side |-> "buy", on |-> c, lots |-> n, limit |-> AskOf(c)]]]
  BY DEF Scout, QuoteChain
<1>1. PICK n \in {Sized(AskOf(c)), LegSized(AskOf(c))} :
        /\ n >= 1
        /\ buyer' = [buyer EXCEPT ![b] =
              [pc |-> "count", ask |-> [side |-> "buy", on |-> c, lots |-> n, limit |-> AskOf(c)]]]
  BY <1>0
<1> DEFINE ask == [side |-> "buy", on |-> c, lots |-> n, limit |-> AskOf(c)]
<1>2. /\ UNCHANGED <<today, window, halted, bid, lots, basis, working, taken, pass, passed, broken, offered, excused, unread>>
  BY DEF Scout, books, records
<1>3. AskOf(c) \in Nat /\ AskOf(c) > 0
  <2>1. bid[c] \in Nat
    <3>1. bid[c] \in Bid
      BY DEF OptionsInv, OptionsTypeOK
    <3> QED
      BY <3>1, Constants
  <2>2. Spread \in Nat /\ Spread > 0
    BY Constants
  <2> QED
    BY <2>1, <2>2 DEF AskOf
<1>4. n \in Nat \ {0}
  <2>1. MaxPremium \div AskOf(c) \in Nat
    BY <1>3, Constants
  <2> QED
    BY <1>1, <2>1, Constants DEF Sized, LegSized
<1>5. ask \in Ask /\ ask.side = "buy" /\ Dte(ask.on) >= MinDte
  BY <1>0, <1>3, <1>4 DEF Ask, Eligible
<1> HIDE DEF ask
<1>6. OptionsTypeOK'
  <2>1. buyer' \in [Buyer -> [pc : {"quiet", "count", "place", "done"}, ask : Ask \cup {Quiet}]]
    BY <1>1, <1>5 DEF OptionsInv, OptionsTypeOK, ask
  <2> QED
    BY <1>2, <2>1 DEF OptionsInv, OptionsTypeOK, Ask, PassRow
<1>7. BuyersFine'
  BY <1>1, <1>2, <1>5 DEF OptionsInv, OptionsTypeOK, BuyersFine, Dte, ask, Ask
<1>8. AsksFine' /\ PassFine' /\ LastDaysAreOffered'
  BY <1>2 DEF OptionsInv, AsksFine, PassFine, LastDaysAreOffered, Ending, Dealt, Left, Dte
<1> QED
  BY <1>6, <1>7, <1>8 DEF OptionsInv

\* The broker takes an order of today, or leaves its books as they are.
LEMMA BooksKeep ==
  ASSUME OptionsInv, UNCHANGED <<today, window>>, NEW ask,
         \/ UNCHANGED books
         \/ /\ Take(ask) /\ ask \in Ask /\ window = "open"
            /\ ask.side = "buy" => Dte(ask.on) >= MinDte
  PROVE  /\ AsksFine' /\ UNCHANGED <<lots, basis>> /\ \A a \in working' : a \in Ask
         /\ \A c : (Ending(c)' <=> Ending(c))
<1>1. CASE UNCHANGED books
  BY <1>1 DEF books, OptionsInv, OptionsTypeOK, AsksFine, Dte, Ending
<1>2. CASE /\ Take(ask) /\ ask \in Ask /\ window = "open"
           /\ ask.side = "buy" => Dte(ask.on) >= MinDte
  <2>1. /\ working' = working \cup {ask} /\ UNCHANGED <<lots, basis>>
        /\ ask.side = "sell" => SaleOf(ask.on) = {} /\ ask.lots <= lots[ask.on]
    BY <1>2 DEF Take, BrokerTakes
  <2>2. \A a \in working' : a \in Ask
    BY <1>2, <2>1 DEF OptionsInv, OptionsTypeOK
  <2>3. ask.on \in OptionContract
    BY <1>2 DEF Ask
  <2>4. ASSUME NEW a \in working', NEW b \in working', a.side = "sell", b.side = "sell", a.on = b.on
        PROVE  a = b
    <3>1. \A x \in working : ~(ask.side = "sell" /\ x.side = "sell" /\ x.on = ask.on)
      BY <2>1 DEF SaleOf
    <3> QED
      BY <2>1, <2>4, <3>1 DEF OptionsInv, AsksFine
  <2>5. AsksFine'
    BY <1>2, <2>1, <2>3, <2>4 DEF OptionsInv, AsksFine, Dte
  <2> QED
    BY <2>1, <2>2, <2>5 DEF Ending, Dte
<1> QED
  BY <1>1, <1>2

\* Failures are counted.
LEMMA BreaksTyped ==
  ASSUME OptionsInv, Breaks \/ UNCHANGED broken
  PROVE  broken' \in 0 .. MaxBroken
BY Constants DEF Breaks, OptionsInv, OptionsTypeOK

\* A program counts what is held.
LEMMA CountHeldKeeps ==
  ASSUME OptionsInv, NEW b \in Buyer, CountHeld(b)
  PROVE  OptionsInv'
<1>1. /\ UNCHANGED <<today, window, halted, bid, lots, basis, working, taken, pass, passed, offered, excused, unread>>
      /\ Breaks \/ UNCHANGED broken
  BY DEF CountHeld, books, records
<1>2. \E pc \in {"done", "place"} : buyer' = [buyer EXCEPT ![b].pc = pc]
  BY DEF CountHeld
<1>3. buyer[b].pc = "count"
  BY DEF CountHeld
<1>4. PICK pc \in {"done", "place"} : buyer' = [buyer EXCEPT ![b].pc = pc]
  BY <1>2
<1>5. OptionsTypeOK'
  <2>1. buyer' \in [Buyer -> [pc : {"quiet", "count", "place", "done"}, ask : Ask \cup {Quiet}]]
    BY <1>4 DEF OptionsInv, OptionsTypeOK
  <2> QED
    BY <1>1, <2>1, BreaksTyped DEF OptionsInv, OptionsTypeOK, Ask, PassRow
<1>6. BuyersFine'
  BY <1>1, <1>3, <1>4 DEF OptionsInv, OptionsTypeOK, BuyersFine, Dte, Ask
<1>7. AsksFine' /\ PassFine' /\ LastDaysAreOffered'
  BY <1>1 DEF OptionsInv, AsksFine, PassFine, LastDaysAreOffered, Ending, Dealt, Left, Dte
<1> QED
  BY <1>5, <1>6, <1>7 DEF OptionsInv

\* A program places its order.
LEMMA OpenKeeps ==
  ASSUME OptionsInv, NEW b \in Buyer, Open(b)
  PROVE  OptionsInv'
<1>1. /\ UNCHANGED <<today, window, halted, bid, pass, passed, offered, excused, unread>>
      /\ buyer' = [buyer EXCEPT ![b].pc = "done"] /\ buyer[b].pc = "place"
  BY DEF Open, records
<1>2. buyer[b].ask \in Ask /\ buyer[b].ask.side = "buy" /\ Dte(buyer[b].ask.on) >= MinDte
  BY <1>1 DEF OptionsInv, BuyersFine
<1>3. UNCHANGED books \/ (Take(buyer[b].ask) /\ window = "open")
  BY DEF Open, OrderRaises, Stopped
<1>4. Breaks \/ UNCHANGED broken
  BY DEF Open, OrderRaises
<1>5. /\ AsksFine' /\ UNCHANGED <<lots, basis>> /\ \A a \in working' : a \in Ask
      /\ \A c : (Ending(c)' <=> Ending(c))
  BY <1>1, <1>2, <1>3, BooksKeep
<1>6. OptionsTypeOK'
  <2>1. buyer' \in [Buyer -> [pc : {"quiet", "count", "place", "done"}, ask : Ask \cup {Quiet}]]
    BY <1>1 DEF OptionsInv, OptionsTypeOK
  <2> QED
    BY <1>1, <1>4, <1>5, <2>1, BreaksTyped DEF OptionsInv, OptionsTypeOK, Ask, PassRow
<1>7. BuyersFine'
  BY <1>1 DEF OptionsInv, OptionsTypeOK, BuyersFine, Dte, Ask
<1>8. PassFine' /\ LastDaysAreOffered'
  BY <1>1, <1>5 DEF OptionsInv, PassFine, LastDaysAreOffered, Dealt, Left, Ending, Dte
<1> QED
  BY <1>5, <1>6, <1>7, <1>8 DEF OptionsInv

-----------------------------------------------------------------------------
\* The guard lists every contract that is held, those that end among them.
LEMMA StartPassKeeps ==
  ASSUME OptionsInv, StartPass
  PROVE  OptionsInv'
<1> DEFINE rowOf(c) == [on |-> c, lots |-> lots[c], cost |-> basis[c]]
           mine == {d \in OptionContract : lots[d] > 0}
<1>1. /\ UNCHANGED <<today, window, halted, bid, lots, basis, working, taken, buyer, passed, broken, offered, excused, unread>>
      /\ pass' = [pc |-> "pass", todo |-> {rowOf(c) : c \in mine}]
  BY DEF StartPass, books, records
<1>2. \A c \in OptionContract : lots[c] \in Nat /\ basis[c] \in Nat
  BY DEF OptionsInv, OptionsTypeOK
<1>3. /\ \A row \in pass'.todo : row \in PassRow /\ row.lots > 0
      /\ \A c \in mine : \E row \in pass'.todo : row.on = c
      /\ pass'.pc = "pass"
  <2>1. pass'.todo = {rowOf(c) : c \in mine} /\ pass'.pc = "pass"
    BY <1>1
  <2>2. \A c \in mine : rowOf(c) \in PassRow /\ rowOf(c).lots > 0 /\ rowOf(c).on = c
    BY <1>2 DEF PassRow
  <2> QED
    BY <2>1, <2>2
<1>4. OptionsTypeOK'
  <2>1. pass' \in [pc : {"quiet", "pass"}, todo : SUBSET PassRow]
    BY <1>1, <1>3
  <2> QED
    BY <1>1, <2>1 DEF OptionsInv, OptionsTypeOK, Ask, PassRow
<1>5. AsksFine' /\ BuyersFine' /\ LastDaysAreOffered'
  BY <1>1 DEF OptionsInv, AsksFine, BuyersFine, LastDaysAreOffered, Dte, Ask
<1>6. PassFine'
  <2>1. \A c \in OptionContract : Ending(c)' => c \in mine
    BY <1>1 DEF Ending
  <2>2. \A c \in mine : c \in Left'
    BY <1>3 DEF Left
  <2>3. window' = "open" /\ passed' => \A c \in OptionContract : Ending(c)' => c \in Dealt'
    BY <1>1 DEF OptionsInv, PassFine, Ending, Dte, Dealt
  <2> HIDE DEF mine
  <2> QED
    BY <1>3, <2>1, <2>2, <2>3 DEF PassFine
<1> QED
  BY <1>4, <1>5, <1>6 DEF OptionsInv

\* A pass that has nothing left has dealt with all that ends.
LEMMA EndPassKeeps ==
  ASSUME OptionsInv, EndPass
  PROVE  OptionsInv'
<1>1. /\ UNCHANGED <<today, window, halted, bid, lots, basis, working, taken, buyer, broken, offered, excused, unread>>
      /\ pass' = [pc |-> "quiet", todo |-> {}] /\ passed' = (window = "open")
      /\ pass.pc = "pass" /\ pass.todo = {}
  BY DEF EndPass, PassDone, books, records
<1>2. OptionsTypeOK'
  BY <1>1 DEF OptionsInv, OptionsTypeOK, Ask, PassRow
<1>3. AsksFine' /\ BuyersFine' /\ LastDaysAreOffered'
  BY <1>1 DEF OptionsInv, AsksFine, BuyersFine, LastDaysAreOffered, Dte, Ask
<1>4. PassFine'
  BY <1>1 DEF OptionsInv, PassFine, Ending, Dte, Dealt, Left
<1> QED
  BY <1>2, <1>3, <1>4 DEF OptionsInv

\* A row of the list is dealt with, or what is left is excused.
LEMMA GuardKeeps ==
  ASSUME OptionsInv, GuardContract
  PROVE  OptionsInv'
<1>1. UNCHANGED <<today, window, halted, bid, buyer>> /\ pass.pc = "pass"
  BY DEF GuardContract
<1>2. PICK row \in pass.todo :
        LET c == row.on
            sale == [side |-> "sell", on |-> c, lots |-> row.lots, limit |-> bid[c]]
            holds == Decide(Dte(c), bid[c] * row.lots, row.cost) = "HOLD"
            blocked == SaleBlocked(c, row.lots)
            next == pass' = [pass EXCEPT !.todo = @ \ {row}] /\ UNCHANGED passed
        IN  \/ holds /\ next /\ UNCHANGED <<books, broken, records>>
            \/ /\ ~holds /\ blocked
               /\ next /\ excused' = excused \cup {c}
               /\ UNCHANGED <<books, broken, offered, unread>>
            \/ /\ ~holds /\ next /\ unread' = unread \cup {c}
               /\ UNCHANGED <<books, broken, offered, excused>>
            \/ /\ ~holds /\ ~blocked /\ Take(sale)
               /\ next /\ offered' = offered \cup {c}
               /\ UNCHANGED <<broken, excused, unread>>
            \/ /\ ~holds /\ ~blocked /\ OrderRaises(sale)
               /\ PassDone /\ excused' = excused \cup Left /\ UNCHANGED <<offered, unread>>
            \/ /\ Breaks /\ PassDone
               /\ excused' = excused \cup Left /\ UNCHANGED <<books, offered, unread>>
  BY DEF GuardContract
<1> DEFINE c == row.on
           sale == [side |-> "sell", on |-> c, lots |-> row.lots, limit |-> bid[c]]
           holds == Decide(Dte(c), bid[c] * row.lots, row.cost) = "HOLD"
           blocked == SaleBlocked(c, row.lots)
           next == pass' = [pass EXCEPT !.todo = @ \ {row}] /\ UNCHANGED passed
<1>3. row \in PassRow /\ row.lots > 0 /\ c \in OptionContract /\ row.lots \in Nat /\ bid[c] \in Nat
  <2>1. row \in PassRow /\ row.lots > 0
    BY DEF OptionsInv, OptionsTypeOK, PassFine
  <2>2. c \in OptionContract /\ row.lots \in Nat
    BY <2>1 DEF PassRow
  <2>3. bid[c] \in Bid
    BY <2>2 DEF OptionsInv, OptionsTypeOK
  <2> QED
    BY <2>1, <2>2, <2>3, Constants
<1>4. sale \in Ask /\ sale.side = "sell"
  BY <1>3 DEF Ask
<1>5. UNCHANGED books \/ (Take(sale) /\ ~blocked)
  <2> HIDE DEF sale, blocked, holds, next, c
  <2> QED
    BY <1>2 DEF OrderRaises, books, sale, blocked, holds, next, c
<1>6. ~blocked => window = "open"
  BY DEF SaleBlocked, Stopped
<1>7. /\ AsksFine' /\ UNCHANGED <<lots, basis>> /\ \A a \in working' : a \in Ask
      /\ \A d : (Ending(d)' <=> Ending(d))
  <2> HIDE DEF sale, blocked
  <2> QED
    BY <1>1, <1>4, <1>5, <1>6, BooksKeep
<1>8. Breaks \/ UNCHANGED broken
  BY <1>2 DEF OrderRaises
<1>9. Ending(c) => ~holds
  BY DEF Ending, Decide
<1>10. \/ /\ next /\ offered \subseteq offered' /\ excused \subseteq excused' /\ unread \subseteq unread'
          /\ offered' \subseteq offered \cup {c} /\ excused' \subseteq excused \cup {c}
          /\ unread' \subseteq unread \cup {c}
          /\ ~holds => c \in (offered' \cup excused') \cup unread'
       \/ PassDone /\ excused' = excused \cup Left /\ offered' = offered /\ unread' = unread
  <2> HIDE DEF sale, blocked, holds, next, c
  <2> QED
    BY <1>2 DEF records, sale, blocked, holds, next, c
<1>11. pass \in [pc : {"quiet", "pass"}, todo : SUBSET PassRow] /\ Left \subseteq OptionContract
  BY DEF OptionsInv, OptionsTypeOK, Left, PassRow
<1> HIDE DEF sale, blocked, holds
<1>12. CASE /\ next /\ offered \subseteq offered' /\ excused \subseteq excused' /\ unread \subseteq unread'
            /\ offered' \subseteq offered \cup {c} /\ excused' \subseteq excused \cup {c}
            /\ unread' \subseteq unread \cup {c}
            /\ ~holds => c \in (offered' \cup excused') \cup unread'
  <2>1. pass' \in [pc : {"quiet", "pass"}, todo : SUBSET PassRow] /\ pass'.pc = "pass" /\ pass'.todo = pass.todo \ {row}
        /\ passed' = passed
    BY <1>1, <1>11, <1>12
  <2> HIDE DEF c, next
  <2>2. offered' \subseteq OptionContract /\ excused' \subseteq OptionContract /\ unread' \subseteq OptionContract
    BY <1>3, <1>12 DEF OptionsInv, OptionsTypeOK
  <2>3. OptionsTypeOK'
    BY <1>1, <1>7, <1>8, <2>1, <2>2, BreaksTyped DEF OptionsInv, OptionsTypeOK, Ask, PassRow
  <2>4. BuyersFine' /\ LastDaysAreOffered'
    BY <1>1, <1>7, <1>12 DEF OptionsInv, BuyersFine, LastDaysAreOffered, Dte, Ask
  <2>5. Left \subseteq Left' \cup {c}
    BY <2>1 DEF Left, c
  <2>6. \A d \in OptionContract : Ending(d)' => Ending(d) /\ (d = c => d \in Dealt')
    BY <1>7, <1>9, <1>12 DEF Dealt
  <2>7. Dealt \subseteq Dealt'
    BY <1>12 DEF Dealt
  <2>8. PassFine'
    BY <1>1, <1>7, <2>1, <2>5, <2>6, <2>7 DEF OptionsInv, PassFine
  <2> QED
    BY <1>7, <2>3, <2>4, <2>8 DEF OptionsInv
<1>13. CASE PassDone /\ excused' = excused \cup Left /\ offered' = offered /\ unread' = unread
  <2>1. pass' = [pc |-> "quiet", todo |-> {}] /\ passed' = (window = "open")
    BY <1>13 DEF PassDone
  <2> HIDE DEF c, next
  <2>2. offered' \subseteq OptionContract /\ excused' \subseteq OptionContract /\ unread' \subseteq OptionContract
    BY <1>11, <1>13 DEF OptionsInv, OptionsTypeOK
  <2>3. OptionsTypeOK'
    BY <1>1, <1>7, <1>8, <2>1, <2>2, BreaksTyped DEF OptionsInv, OptionsTypeOK, Ask, PassRow
  <2>4. BuyersFine' /\ LastDaysAreOffered'
    BY <1>1, <1>7, <1>13 DEF OptionsInv, BuyersFine, LastDaysAreOffered, Dte, Ask
  <2>5. PassFine'
    BY <1>1, <1>7, <1>13, <2>1 DEF OptionsInv, PassFine, Dealt, Left
  <2> QED
    BY <1>7, <2>3, <2>4, <2>5 DEF OptionsInv
<1> QED
  BY <1>10, <1>12, <1>13

-----------------------------------------------------------------------------
\* A sale leaves a cost basis that is not negative.
LEMMA BasisLeft ==
  ASSUME NEW n \in Nat \ {0}, NEW h \in Nat, n <= h, NEW w \in Nat
  PROVE  w - n * (w \div h) \in Nat
<1> DEFINE q == w \div h
<1>1. q \in Nat /\ h * q <= w
  OBVIOUS
<1> HIDE DEF q
<1>2. n * q <= h * q /\ n * q \in Nat
  BY <1>1
<1>3. h * q \in Nat
  BY <1>1
<1>4. w - n * q \in Nat
  BY <1>1, <1>2, <1>3
<1> QED
  BY <1>4 DEF q

\* A fill brings no contract into its last days: purchases stop before them.
LEMMA FillAskKeeps ==
  ASSUME OptionsInv, NEW a \in working, FillAsk(a)
  PROVE  OptionsInv'
<1>1. /\ UNCHANGED <<today, window, halted, bid, taken, buyer, pass, passed, broken, offered, excused, unread>>
      /\ working' = working \ {a}
  BY DEF FillAsk, records
<1> DEFINE c == a.on
           more == IF a.side = "buy" THEN lots[c] + a.lots ELSE lots[c] - a.lots
           cost == IF a.side = "buy" THEN basis[c] + a.lots * a.limit
                   ELSE IF more = 0 THEN 0 ELSE basis[c] - a.lots * (basis[c] \div lots[c])
<1>2. a \in Ask /\ c \in OptionContract /\ a.lots \in Nat \ {0} /\ a.limit \in Nat /\ a.side \in {"buy", "sell"}
  <2>1. a \in Ask
    BY DEF OptionsInv, OptionsTypeOK
  <2> QED
    BY <2>1 DEF Ask
<1>3. lots \in [OptionContract -> Nat] /\ basis \in [OptionContract -> Nat] /\ lots[c] \in Nat /\ basis[c] \in Nat
  BY <1>2 DEF OptionsInv, OptionsTypeOK
<1>4. lots' = [lots EXCEPT ![c] = more]
  BY DEF FillAsk
<1>5. lots'[c] = more
  BY <1>2, <1>3, <1>4
<1>6. basis' = [basis EXCEPT ![c] = cost]
  BY <1>5 DEF FillAsk
<1>7. a.side = "sell" => a.lots <= lots[c]
  BY DEF OptionsInv, AsksFine
<1>8. more \in Nat
  BY <1>2, <1>3, <1>7
<1>9. cost \in Nat
  <2>1. CASE a.side = "buy"
    <3>1. a.lots * a.limit \in Nat
      BY <1>2
    <3> QED
      BY <1>3, <2>1, <3>1
  <2>2. CASE a.side = "sell"
    <3>1. basis[c] - a.lots * (basis[c] \div lots[c]) \in Nat
      BY <1>2, <1>3, <1>7, <2>2, BasisLeft
    <3> QED
      BY <2>2, <3>1
  <2> QED
    BY <1>2, <2>1, <2>2
<1> HIDE DEF cost
<1>10. OptionsTypeOK'
  <2>1. lots' \in [OptionContract -> Nat] /\ basis' \in [OptionContract -> Nat]
    <3> HIDE DEF more, c
    <3> QED
      BY <1>3, <1>4, <1>6, <1>8, <1>9
  <2> QED
    BY <1>1, <2>1 DEF OptionsInv, OptionsTypeOK, Ask, PassRow
<1>11. \A d \in OptionContract : Ending(d)' => Ending(d)
  <2> SUFFICES ASSUME NEW d \in OptionContract, Ending(d)' PROVE Ending(d)
    OBVIOUS
  <2>1. CASE d # c
    BY <1>1, <1>3, <1>4, <2>1 DEF Ending, Dte
  <2>2. CASE d = c /\ a.side = "buy"
    <3>1. Dte(c) >= MinDte /\ Dte(c) \in Int
      <4>1. today \in Nat /\ Expires[c] \in Nat
        BY <1>2, Constants DEF OptionsInv, OptionsTypeOK
      <4> QED
        BY <2>2, <4>1 DEF OptionsInv, AsksFine, Dte
    <3>2. ~(Dte(c) <= MaxDte)
      BY <3>1, Constants
    <3> QED
      BY <1>1, <2>2, <3>2 DEF Ending, Dte
  <2>3. CASE d = c /\ a.side = "sell"
    <3>1. lots[c] > 0
      BY <1>2, <1>3, <1>7, <2>3
    <3> QED
      BY <1>1, <2>3, <3>1 DEF Ending, Dte
  <2> QED
    BY <1>2, <2>1, <2>2, <2>3
<1>12. AsksFine'
  <2>1. ASSUME NEW x \in working', x.side = "sell" PROVE x.lots <= lots'[x.on]
    <3>1. x \in working /\ x # a /\ x.lots <= lots[x.on] /\ x \in Ask
      BY <1>1, <2>1 DEF OptionsInv, OptionsTypeOK, AsksFine
    <3>2. x.on \in OptionContract /\ x.lots \in Nat
      BY <3>1 DEF Ask
    <3>3. CASE x.on # c
      BY <1>3, <1>4, <3>1, <3>2, <3>3
    <3>4. CASE x.on = c
      <4>1. a.side = "buy"
        BY <1>2, <2>1, <3>1, <3>4 DEF OptionsInv, AsksFine
      <4> QED
        BY <1>2, <1>3, <1>5, <3>1, <3>2, <3>4, <4>1
    <3> QED
      BY <3>3, <3>4
  <2> QED
    BY <1>1, <2>1 DEF OptionsInv, AsksFine, Dte
<1>13. BuyersFine'
  BY <1>1 DEF OptionsInv, BuyersFine, Dte, Ask
<1>14. window = "open"
  BY DEF OptionsInv, AsksFine
<1>15. PassFine'
  BY <1>1, <1>11 DEF OptionsInv, PassFine, Dealt, Left
<1>16. LastDaysAreOffered'
  BY <1>1, <1>14 DEF LastDaysAreOffered
<1> QED
  BY <1>10, <1>12, <1>13, <1>15, <1>16 DEF OptionsInv

\* Quotes change.
LEMMA QuoteKeeps ==
  ASSUME OptionsInv, NEW c \in OptionContract, Quote(c)
  PROVE  OptionsInv'
<1>1. UNCHANGED <<today, window, halted, lots, basis, working, taken, buyer, pass, passed, broken, offered, excused, unread>>
  BY DEF Quote, books, records
<1>2. bid' \in [OptionContract -> Bid]
  BY DEF Quote, OptionsInv, OptionsTypeOK
<1>3. OptionsTypeOK'
  BY <1>1, <1>2 DEF OptionsInv, OptionsTypeOK, Ask, PassRow
<1> QED
  BY <1>1, <1>3 DEF OptionsInv, AsksFine, BuyersFine, PassFine, LastDaysAreOffered, Ending, Dealt, Left, Dte, Ask

\* The window closes only after a pass.
LEMMA MoveWindowKeeps ==
  ASSUME OptionsInv, MoveWindow
  PROVE  OptionsInv'
<1>1. /\ UNCHANGED <<today, halted, bid, lots, basis, taken, buyer, pass, broken, offered, excused, unread>>
      /\ pass.pc = "quiet" /\ passed' = FALSE
      /\ \/ window = "before" /\ window' = "open" /\ UNCHANGED working
         \/ window = "open" /\ passed /\ window' = "after" /\ working' = {}
  BY DEF MoveWindow, records
<1>2. OptionsTypeOK'
  BY <1>1 DEF OptionsInv, OptionsTypeOK, Ask, PassRow
<1>3. working' = {}
  BY <1>1 DEF OptionsInv, AsksFine
<1>4. AsksFine'
  BY <1>3 DEF AsksFine
<1>5. BuyersFine'
  BY <1>1 DEF OptionsInv, BuyersFine, Dte, Ask
<1>6. PassFine'
  BY <1>1 DEF OptionsInv, PassFine
<1>7. LastDaysAreOffered'
  BY <1>1 DEF OptionsInv, PassFine, LastDaysAreOffered, Ending, Dealt, Dte
<1> QED
  BY <1>2, <1>4, <1>5, <1>6, <1>7 DEF OptionsInv

\* The day begins with nothing resting.
LEMMA NextDayKeeps ==
  ASSUME OptionsInv, NextDay
  PROVE  OptionsInv'
<1>1. /\ window = "after" /\ pass.pc = "quiet" /\ window' = "before" /\ offered' = {} /\ excused' = {} /\ unread' = {}
      /\ UNCHANGED <<halted, bid, working, taken, buyer, pass, passed, broken>>
      /\ \A b \in Buyer : buyer[b].pc \in {"quiet", "done"}
  BY DEF NextDay
<1>2. working = {}
  BY <1>1 DEF OptionsInv, AsksFine
<1>3. today' \in 0 .. LastDay
  BY Constants DEF NextDay, OptionsInv, OptionsTypeOK
<1>4. lots' \in [OptionContract -> Nat] /\ basis' \in [OptionContract -> Nat]
  BY DEF NextDay, OptionsInv, OptionsTypeOK
<1>5. OptionsTypeOK'
  BY <1>1, <1>3, <1>4 DEF OptionsInv, OptionsTypeOK, Ask, PassRow
<1>6. AsksFine' /\ BuyersFine' /\ LastDaysAreOffered'
  BY <1>1, <1>2 DEF AsksFine, BuyersFine, LastDaysAreOffered
<1>7. PassFine'
  BY <1>1 DEF OptionsInv, PassFine
<1> QED
  BY <1>5, <1>6, <1>7 DEF OptionsInv

\* The operator's stop.
LEMMA HaltKeeps ==
  ASSUME OptionsInv, Halt
  PROVE  OptionsInv'
<1>1. /\ UNCHANGED <<today, window, bid, lots, basis, working, taken, buyer, pass, passed, broken, offered, excused, unread>>
      /\ halted' \in BOOLEAN
  BY DEF Halt, books, records
<1>2. OptionsTypeOK'
  BY <1>1 DEF OptionsInv, OptionsTypeOK, Ask, PassRow
<1> QED
  BY <1>1, <1>2 DEF OptionsInv, AsksFine, BuyersFine, PassFine, LastDaysAreOffered, Ending, Dealt, Left, Dte, Ask

\* A step of nothing.
LEMMA OptionsStutters ==
  ASSUME OptionsInv, UNCHANGED optionVars
  PROVE  OptionsInv'
<1>1. UNCHANGED <<today, window, halted, bid, lots, basis, working, taken, buyer, pass, passed, broken, offered, excused, unread>>
  BY DEF optionVars
<1>2. OptionsTypeOK'
  BY <1>1 DEF OptionsInv, OptionsTypeOK, Ask, PassRow
<1> QED
  BY <1>1, <1>2 DEF OptionsInv, AsksFine, BuyersFine, PassFine, LastDaysAreOffered, Ending, Dealt, Left, Dte, Ask

\* The invariant holds.
LEMMA OptionsKept == OptionsSpec => []OptionsInv
<1>1. OptionsInv /\ [OptionsNext]_optionVars => OptionsInv'
  <2> SUFFICES ASSUME OptionsInv, [OptionsNext]_optionVars PROVE OptionsInv'
    OBVIOUS
  <2>1. ASSUME NEW b \in Buyer, Scout(b) \/ CountHeld(b) \/ Open(b) PROVE OptionsInv'
    BY <2>1, ScoutKeeps, CountHeldKeeps, OpenKeeps
  <2>2. CASE StartPass
    BY <2>2, StartPassKeeps
  <2>3. CASE GuardContract
    BY <2>3, GuardKeeps
  <2>4. CASE EndPass
    BY <2>4, EndPassKeeps
  <2>5. ASSUME NEW a \in working, FillAsk(a) PROVE OptionsInv'
    BY <2>5, FillAskKeeps
  <2>6. ASSUME NEW c \in OptionContract, Quote(c) PROVE OptionsInv'
    BY <2>6, QuoteKeeps
  <2>7. CASE MoveWindow
    BY <2>7, MoveWindowKeeps
  <2>8. CASE NextDay
    BY <2>8, NextDayKeeps
  <2>9. CASE Halt
    BY <2>9, HaltKeeps
  <2>10. CASE UNCHANGED optionVars
    BY <2>10, OptionsStutters
  <2> QED
    BY <2>1, <2>2, <2>3, <2>4, <2>5, <2>6, <2>7, <2>8, <2>9, <2>10 DEF OptionsNext
<1> QED
  BY <1>1, OptionsStart, PTL DEF OptionsSpec

\* On each of its last days a contract that is held was offered for sale, or a
\* pass met what keeps it from selling, a quote it could not read among it: for any
\* chain, bids, day count and number of buyers and failures, a pass that an error
\* ended among them.
THEOREM LastDaysAreCovered == OptionsSpec => []LastDaysAreOffered
<1>1. OptionsInv => LastDaysAreOffered
  BY DEF OptionsInv
<1> QED
  BY <1>1, OptionsKept, PTL

\* Lots and basis stay natural numbers: a sale never exceeds what is held when
\* it fills, nor takes more basis than there is.
THEOREM OptionsTypesHold == OptionsSpec => []OptionsTypeOK
<1>1. OptionsInv => OptionsTypeOK
  BY DEF OptionsInv
<1> QED
  BY <1>1, OptionsKept, PTL

-----------------------------------------------------------------------------
(* The simulated broker.                                                     *)

\* Prices, fees and scales.
LEMMA Money ==
  /\ StartCash \in Nat /\ Scale \in Nat \ {0} /\ Slip \in Nat /\ Scale - Slip \in Nat
  /\ ShareFee \in Nat /\ ContractFee \in Nat /\ Multiplier \in Nat /\ MaxStray \in Nat
BY MoneyAssumption

\* What is asked for; brackets are of shares.
LEMMA Asked ==
  ASSUME NEW q \in Request
  PROVE  /\ q.on \in Instrument /\ q.side \in {"buy", "sell"} /\ q.lots \in Nat
         /\ q.limit \in Nat /\ q.target \in Nat /\ q.stop \in Nat
         /\ q.target # NoPrice => q.on \in Symbol /\ q.on \notin Contract
         /\ q # NoRequest
<1>1. q \in [on : Instrument, side : {"buy", "sell"}, lots : Nat, limit : Nat, target : Nat, stop : Nat]
  BY RequestAssumption
<1>2. q.on \in Contract => q.target = NoPrice
  BY RequestAssumption
<1> QED
  BY <1>1, <1>2, RequestAssumption DEF Instrument

\* The lesser and the greater of two numbers is one.
LEMMA MinMax ==
  ASSUME NEW a \in Nat, NEW b \in Nat
  PROVE  Min({a, b}) \in Nat /\ Max({a, b}) \in Nat
<1>1. \E x \in {a, b} : \A y \in {a, b} : x <= y
  OBVIOUS
<1>2. \E x \in {a, b} : \A y \in {a, b} : x >= y
  OBVIOUS
<1>3. Min({a, b}) \in {a, b}
  BY <1>1 DEF Min
<1>4. Max({a, b}) \in {a, b}
  BY <1>2 DEF Max
<1> QED
  BY <1>3, <1>4

\* What is charged and paid is a number.
LEMMA FeeTyped ==
  ASSUME NEW q \in Request
  PROVE  Fee(q) \in Nat /\ Size(q) \in Nat
<1>1. q.lots \in Nat /\ ShareFee \in Nat /\ ContractFee \in Nat /\ Multiplier \in Nat
  BY Asked, Money
<1>2. q.lots * ShareFee \in Nat /\ q.lots * ContractFee \in Nat /\ q.lots * Multiplier \in Nat
  BY <1>1
<1> QED
  BY <1>1, <1>2 DEF Fee, Size

\* A fill has a price.
LEMMA PriceTyped ==
  ASSUME NEW q \in Request, quote \in [Instrument -> [bid : Nat, ask : Nat, intrinsic : Nat]]
  PROVE  FillPrice(q) \in Nat
<1>1. quote[q.on].ask \in Nat /\ quote[q.on].bid \in Nat /\ q.limit \in Nat
  BY Asked
<1>2. Scale + Slip \in Nat /\ Scale - Slip \in Nat /\ Scale \in Nat
  BY Money
<1> DEFINE low == quote[q.on].bid * (Scale - Slip)
           high == quote[q.on].ask * (Scale + Slip)
           limit == q.limit * Scale
<1>3. low \in Nat /\ high \in Nat /\ limit \in Nat
  BY <1>1, <1>2
<1>4. Touch(q) = IF q.side = "buy" THEN high ELSE low
  BY DEF Touch
<1> HIDE DEF low, high
<1>5. Touch(q) \in Nat
  BY <1>3, <1>4
<1>6. Min({limit, Touch(q)}) \in Nat /\ Max({limit, Touch(q)}) \in Nat
  <2> HIDE DEF limit
  <2> QED
    BY <1>3, <1>5, MinMax
<1> QED
  BY <1>5, <1>6 DEF FillPrice

-----------------------------------------------------------------------------
\* The sums of the books, of any orders.
Done(o, way) == {r \in Review : o[r].status = "filled" /\ o[r].request.side = way}
Gone(o) == {r \in Review : o[r].bracket \in {"stop", "target"}}

\* What orders and exits are worth and are charged, and what settlements paid.
Worths(o) == [r \in Review |-> Size(o[r].request) * o[r].price]
Charges(o) == [r \in Review |-> Fee(o[r].request)]
ExitWorths(o) == [r \in Review |-> o[r].request.lots * LegPrice(o[r].request, o[r].bracket) * Scale]
Paid(s) == [c \in Contract |-> s[c].proceeds]

\* The sums of the books.
Spent(o) == SumOver(Worths(o), Done(o, "buy"))
Earned(o) == SumOver(Worths(o), Done(o, "sell"))
Fees(o) == SumOver(Charges(o), Done(o, "buy") \cup Done(o, "sell"))
ExitFees(o) == SumOver(Charges(o), Gone(o))
ExitPaid(o) == SumOver(ExitWorths(o), Gone(o))
PaidOut(s) == SumOver(Paid(s), Contract)

\* The equation of the books, over their sums.
Balance(money, o, s, lost) ==
    money + Spent(o) + Fees(o) + ExitFees(o) = StartCash + Earned(o) + ExitPaid(o) + PaidOut(s) + lost

\* An order that was placed stands for a request, and has a bracket only when
\* it is filled and asked for one.
RowFine(x) ==
    /\ x.status = "none" => x = NotPlaced
    /\ x.status # "none" => x.request \in Request
    /\ x.bracket # "none" => x.status = "filled" /\ x.request.target # NoPrice

OrdersFine(o) ==
    /\ o \in [Review -> Placed]
    /\ \A r \in Review : RowFine(o[r])
    /\ IsFiniteSet({r \in Review : o[r].status # "none"})

\* Every order with a bracket is on the book, once.
BookFine(b, o) ==
    /\ b \in Seq(Review)
    /\ \A i \in 1 .. Len(b) : o[b[i]].bracket # "none"
    /\ \A i, j \in 1 .. Len(b) : b[i] = b[j] => i = j
    /\ \A r \in Review : o[r].bracket = "open" => \E i \in 1 .. Len(b) : b[i] = r

\* The inductive invariant of the simulated broker.
BrokerInv ==
    /\ TypeOK
    /\ OrdersFine(order)
    /\ BookFine(book, order)
    /\ Balance(cash, order, settled, stray)

\* The sums are over finitely many numbers.
LEMMA SetsOfOrders ==
  ASSUME NEW o, OrdersFine(o)
  PROVE  /\ IsFiniteSet(Done(o, "buy")) /\ IsFiniteSet(Done(o, "sell")) /\ IsFiniteSet(Gone(o))
         /\ IsFiniteSet(Done(o, "buy") \cup Done(o, "sell"))
         /\ \A r \in Done(o, "buy") \cup Done(o, "sell") : Worths(o)[r] \in Nat /\ Charges(o)[r] \in Nat
         /\ \A r \in Gone(o) : Charges(o)[r] \in Nat /\ ExitWorths(o)[r] \in Nat
<1> DEFINE P == {r \in Review : o[r].status # "none"}
<1>1. IsFiniteSet(P)
  BY DEF OrdersFine
<1>2. Done(o, "buy") \subseteq P /\ Done(o, "sell") \subseteq P /\ Gone(o) \subseteq P
  BY DEF Done, Gone, OrdersFine, RowFine
<1>3. ASSUME NEW r \in P PROVE o[r].request \in Request /\ o[r].price \in Nat /\ r \in Review
  BY DEF OrdersFine, RowFine, Placed
<1>4. ASSUME NEW r \in P PROVE Worths(o)[r] \in Nat /\ Charges(o)[r] \in Nat
  <2>1. Size(o[r].request) \in Nat /\ Fee(o[r].request) \in Nat /\ o[r].price \in Nat
    BY <1>3, FeeTyped
  <2>2. Size(o[r].request) * o[r].price \in Nat
    BY <2>1
  <2> QED
    BY <2>1, <2>2 DEF Worths, Charges
<1>5. ASSUME NEW r \in P PROVE ExitWorths(o)[r] \in Nat
  <2> DEFINE price == LegPrice(o[r].request, o[r].bracket)
  <2>1. price \in Nat /\ o[r].request.lots \in Nat /\ Scale \in Nat
    BY <1>3, Asked, Money DEF LegPrice
  <2> HIDE DEF price
  <2>2. o[r].request.lots * price \in Nat
    BY <2>1
  <2>3. (o[r].request.lots * price) * Scale \in Nat
    BY <2>1, <2>2
  <2> QED
    BY <2>3 DEF ExitWorths, price
<1> HIDE DEF P
<1>6. IsFiniteSet(Done(o, "buy")) /\ IsFiniteSet(Done(o, "sell")) /\ IsFiniteSet(Gone(o))
  BY <1>1, <1>2, FS_Subset
<1> QED
  BY <1>2, <1>4, <1>5, <1>6, FS_Union

\* The sums are numbers.
LEMMA SumsTyped ==
  ASSUME NEW o, OrdersFine(o)
  PROVE  /\ Spent(o) \in Int /\ Earned(o) \in Int /\ Fees(o) \in Int
         /\ ExitFees(o) \in Int /\ ExitPaid(o) \in Int
<1>1. /\ \A r \in Done(o, "buy") \cup Done(o, "sell") : Worths(o)[r] \in Int /\ Charges(o)[r] \in Int
      /\ \A r \in Gone(o) : Charges(o)[r] \in Int /\ ExitWorths(o)[r] \in Int
  <2>1. \A n \in Nat : n \in Int
    OBVIOUS
  <2> QED
    BY <2>1, SetsOfOrders, Zenon
<1>2. SumOver(Worths(o), Done(o, "buy")) \in Int
  BY <1>1, SetsOfOrders, SumType
<1>3. SumOver(Worths(o), Done(o, "sell")) \in Int
  BY <1>1, SetsOfOrders, SumType
<1>4. SumOver(Charges(o), Done(o, "buy") \cup Done(o, "sell")) \in Int
  BY <1>1, SetsOfOrders, SumType
<1>5. SumOver(Charges(o), Gone(o)) \in Int /\ SumOver(ExitWorths(o), Gone(o)) \in Int
  BY <1>1, SetsOfOrders, SumType
<1> QED
  BY <1>2, <1>3, <1>4, <1>5 DEF Spent, Earned, Fees, ExitFees, ExitPaid

\* So is what settlements paid.
LEMMA PaidTyped ==
  ASSUME NEW s \in [Contract -> [lots : Nat, proceeds : Nat]]
  PROVE  PaidOut(s) \in Int /\ \A c \in Contract : Paid(s)[c] \in Nat
<1>1. \A c \in Contract : Paid(s)[c] \in Nat
  BY DEF Paid
<1>2. \A c \in Contract : Paid(s)[c] \in Int
  BY <1>1
<1> QED
  BY <1>1, <1>2, MarketAssumption, SumType DEF PaidOut

\* Sums of orders that agree where it matters.
LEMMA SumsAreSame ==
  ASSUME NEW o, NEW p, Done(p, "buy") = Done(o, "buy"), Done(p, "sell") = Done(o, "sell"), Gone(p) = Gone(o),
         \A r \in (Done(o, "buy") \cup Done(o, "sell")) \cup Gone(o) :
            p[r].request = o[r].request /\ p[r].price = o[r].price /\ p[r].bracket = o[r].bracket
  PROVE  /\ Spent(p) = Spent(o) /\ Earned(p) = Earned(o) /\ Fees(p) = Fees(o)
         /\ ExitFees(p) = ExitFees(o) /\ ExitPaid(p) = ExitPaid(o)
<1>1. (Done(o, "buy") \cup Done(o, "sell")) \cup Gone(o) \subseteq Review
  BY DEF Done, Gone
<1>2. \A r \in (Done(o, "buy") \cup Done(o, "sell")) \cup Gone(o) :
         Worths(p)[r] = Worths(o)[r] /\ Charges(p)[r] = Charges(o)[r] /\ ExitWorths(p)[r] = ExitWorths(o)[r]
  BY <1>1 DEF Worths, Charges, ExitWorths
<1>3. SumOver(Worths(p), Done(o, "buy")) = SumOver(Worths(o), Done(o, "buy"))
  BY <1>2, SumSame
<1>4. SumOver(Worths(p), Done(o, "sell")) = SumOver(Worths(o), Done(o, "sell"))
  BY <1>2, SumSame
<1>5. SumOver(Charges(p), Done(o, "buy") \cup Done(o, "sell")) = SumOver(Charges(o), Done(o, "buy") \cup Done(o, "sell"))
  BY <1>2, SumSame
<1>6. SumOver(Charges(p), Gone(o)) = SumOver(Charges(o), Gone(o))
  BY <1>2, SumSame
<1>7. SumOver(ExitWorths(p), Gone(o)) = SumOver(ExitWorths(o), Gone(o))
  BY <1>2, SumSame
<1> QED
  BY <1>3, <1>4, <1>5, <1>6, <1>7 DEF Spent, Earned, Fees, ExitFees, ExitPaid

\* An order is placed, or changes, among finitely many.
LEMMA OrderWritten ==
  ASSUME NEW o, OrdersFine(o), NEW r \in Review, NEW x \in Placed, RowFine(x)
  PROVE  OrdersFine([o EXCEPT ![r] = x])
<1> DEFINE p == [o EXCEPT ![r] = x]
           S == {u \in Review : o[u].status # "none"}
           T == {u \in Review : p[u].status # "none"}
<1>1. p \in [Review -> Placed]
  BY DEF OrdersFine
<1>2. \A u \in Review : RowFine(p[u])
  BY DEF OrdersFine
<1>3. IsFiniteSet(T)
  <2>1. T \subseteq S \cup {r}
    BY DEF OrdersFine
  <2>2. IsFiniteSet(S \cup {r})
    <3>1. IsFiniteSet(S)
      BY DEF OrdersFine
    <3> HIDE DEF S
    <3> QED
      BY <3>1, FS_AddElement
  <2> HIDE DEF S, T
  <2> QED
    BY <2>1, <2>2, FS_Subset
<1> QED
  BY <1>1, <1>2, <1>3 DEF OrdersFine

\* An order that is filled neither before nor after changes no sum.
LEMMA NotExecuted ==
  ASSUME NEW o, OrdersFine(o), NEW r \in Review, NEW x \in Placed, RowFine(x),
         o[r].status # "filled", x.status # "filled", NEW p, p = [o EXCEPT ![r] = x]
  PROVE  /\ Spent(p) = Spent(o) /\ Earned(p) = Earned(o) /\ Fees(p) = Fees(o)
         /\ ExitFees(p) = ExitFees(o) /\ ExitPaid(p) = ExitPaid(o)
<1>1. \A u \in Review : u # r => p[u] = o[u]
  BY DEF OrdersFine
<1>2. p[r] = x
  BY DEF OrdersFine
<1>3. x.bracket = "none" /\ o[r].bracket = "none"
  BY DEF OrdersFine, RowFine
<1>4. Done(p, "buy") = Done(o, "buy") /\ Done(p, "sell") = Done(o, "sell") /\ Gone(p) = Gone(o)
  BY <1>1, <1>2, <1>3 DEF Done, Gone
<1>5. r \notin (Done(o, "buy") \cup Done(o, "sell")) \cup Gone(o)
  BY <1>3 DEF Done, Gone
<1>6. \A u \in (Done(o, "buy") \cup Done(o, "sell")) \cup Gone(o) : p[u] = o[u]
  BY <1>1, <1>5 DEF Done, Gone
<1> QED
  BY <1>4, <1>6, SumsAreSame

\* An order that is filled is added to the sums of its side, with its fee.
LEMMA IsExecuted ==
  ASSUME NEW o, OrdersFine(o), NEW r \in Review, NEW x \in Placed, RowFine(x),
         o[r].status = "none", x.status = "filled", x.bracket \in {"none", "open"}, NEW p, p = [o EXCEPT ![r] = x]
  PROVE  /\ x.request.side = "buy" => Spent(p) = Spent(o) + Size(x.request) * x.price /\ Earned(p) = Earned(o)
         /\ x.request.side = "sell" => Earned(p) = Earned(o) + Size(x.request) * x.price /\ Spent(p) = Spent(o)
         /\ Fees(p) = Fees(o) + Fee(x.request)
         /\ ExitFees(p) = ExitFees(o) /\ ExitPaid(p) = ExitPaid(o)
<1>0. OrdersFine(p) /\ x.request \in Request
  BY OrderWritten DEF RowFine
<1>1. \A u \in Review : u # r => p[u] = o[u]
  BY DEF OrdersFine
<1>2. p[r] = x
  BY DEF OrdersFine
<1>3. o[r].bracket = "none"
  BY DEF OrdersFine, RowFine
<1>4. r \notin Done(o, "buy") /\ r \notin Done(o, "sell") /\ r \notin Gone(o)
  BY <1>3 DEF Done, Gone
<1>5. Gone(p) = Gone(o)
  BY <1>1, <1>2, <1>3 DEF Gone
<1>6. ASSUME NEW way PROVE Done(p, way) = IF x.request.side = way THEN Done(o, way) \cup {r} ELSE Done(o, way)
  BY <1>1, <1>2 DEF Done
<1>7. \A u \in (Done(o, "buy") \cup Done(o, "sell")) \cup Gone(o) :
         Worths(p)[u] = Worths(o)[u] /\ Charges(p)[u] = Charges(o)[u] /\ ExitWorths(p)[u] = ExitWorths(o)[u]
  <2>1. \A u \in (Done(o, "buy") \cup Done(o, "sell")) \cup Gone(o) : p[u] = o[u] /\ u \in Review
    BY <1>1, <1>4 DEF Done, Gone
  <2> QED
    BY <2>1 DEF Worths, Charges, ExitWorths
<1>8. Worths(p)[r] = Size(x.request) * x.price /\ Charges(p)[r] = Fee(x.request)
  BY <1>2 DEF Worths, Charges
<1>9. /\ \A u \in Done(p, "buy") \cup Done(p, "sell") : Worths(p)[u] \in Int /\ Charges(p)[u] \in Int
      /\ IsFiniteSet(Done(o, "buy")) /\ IsFiniteSet(Done(o, "sell")) /\ IsFiniteSet(Done(o, "buy") \cup Done(o, "sell"))
  <2>1. \A n \in Nat : n \in Int
    OBVIOUS
  <2> QED
    BY <1>0, <2>1, SetsOfOrders, Zenon
<1>10. ExitFees(p) = ExitFees(o) /\ ExitPaid(p) = ExitPaid(o)
  <2>1. \A u \in Gone(o) : Charges(p)[u] = Charges(o)[u] /\ ExitWorths(p)[u] = ExitWorths(o)[u]
    BY <1>7
  <2>2. SumOver(Charges(p), Gone(o)) = SumOver(Charges(o), Gone(o))
    BY <2>1, SumSame
  <2>3. SumOver(ExitWorths(p), Gone(o)) = SumOver(ExitWorths(o), Gone(o))
    BY <2>1, SumSame
  <2> QED
    BY <1>5, <2>2, <2>3 DEF ExitFees, ExitPaid
<1>11. ASSUME NEW way \in {"buy", "sell"}
       PROVE  SumOver(Worths(p), Done(p, way)) = IF x.request.side = way THEN SumOver(Worths(o), Done(o, way)) + Worths(p)[r]
                                                 ELSE SumOver(Worths(o), Done(o, way))
  <2>1. SumOver(Worths(p), Done(o, way)) = SumOver(Worths(o), Done(o, way))
    <3>1. \A u \in Done(o, way) : Worths(p)[u] = Worths(o)[u]
      BY <1>7
    <3> QED
      BY <3>1, SumSame
  <2>2. CASE x.request.side = way
    <3>1. Done(p, way) = Done(o, way) \cup {r}
      BY <1>6, <2>2
    <3>2. \A u \in Done(o, way) \cup {r} : Worths(p)[u] \in Int
      BY <1>9, <3>1
    <3>3. IsFiniteSet(Done(o, way)) /\ r \notin Done(o, way)
      BY <1>4, <1>9
    <3>4. SumOver(Worths(p), Done(o, way) \cup {r}) = SumOver(Worths(p), Done(o, way)) + Worths(p)[r]
      BY <3>2, <3>3, SumAdds
    <3> QED
      BY <2>1, <2>2, <3>1, <3>4
  <2>3. CASE x.request.side # way
    BY <1>6, <2>1, <2>3
  <2> QED
    BY <2>2, <2>3
<1>12. Fees(p) = Fees(o) + Fee(x.request)
  <2> DEFINE S == Done(o, "buy") \cup Done(o, "sell")
  <2>1. x.request.side \in {"buy", "sell"}
    BY <1>0, Asked
  <2>2. Done(p, "buy") \cup Done(p, "sell") = S \cup {r} /\ r \notin S
    BY <1>4, <1>6, <2>1
  <2>3. SumOver(Charges(p), S) = SumOver(Charges(o), S)
    <3>1. \A u \in S : Charges(p)[u] = Charges(o)[u]
      BY <1>7
    <3> HIDE DEF S
    <3> QED
      BY <3>1, SumSame
  <2>4. IsFiniteSet(S) /\ \A u \in S \cup {r} : Charges(p)[u] \in Int
    BY <1>9, <2>2
  <2>5. SumOver(Charges(p), S \cup {r}) = SumOver(Charges(p), S) + Charges(p)[r]
    <3> HIDE DEF S
    <3> QED
      BY <2>2, <2>4, SumAdds, ZenonT(40)
  <2>6. Fees(p) = SumOver(Charges(p), S \cup {r}) /\ Fees(o) = SumOver(Charges(o), S)
    BY <2>2 DEF Fees
  <2> HIDE DEF S
  <2> QED
    BY <1>8, <2>3, <2>5, <2>6
<1> QED
  BY <1>8, <1>10, <1>11, <1>12 DEF Spent, Earned

-----------------------------------------------------------------------------
\* The season starts with nothing on the books.
LEMMA BrokerStart ==
  ASSUME Init
  PROVE  BrokerInv
<1>1. order = [r \in Review |-> NotPlaced] /\ book = <<>>
  BY DEF Init
<1>2. NotPlaced \in Placed
  BY DEF NotPlaced, Placed, Status, Bracket
<1>3. OrdersFine(order)
  <2>1. {r \in Review : order[r].status # "none"} = {}
    BY <1>1 DEF NotPlaced
  <2>2. IsFiniteSet({r \in Review : order[r].status # "none"})
    BY <2>1, FS_EmptySet
  <2>3. RowFine(NotPlaced)
    BY DEF NotPlaced, RowFine
  <2> QED
    BY <1>1, <1>2, <2>2, <2>3 DEF OrdersFine
<1>4. BookFine(book, order)
  BY <1>1 DEF BookFine, NotPlaced
<1>5. TypeOK
  <2>1. quote \in [Instrument -> [bid : Nat, ask : Nat, intrinsic : Nat]]
    <3>1. \A p \in Mark : Marked(p) \in [bid : Nat, ask : Nat, intrinsic : Nat]
      BY MarketAssumption DEF Marked
    <3>2. OptionQuote \subseteq [bid : Nat, ask : Nat, intrinsic : Nat]
      BY MarketAssumption
    <3> QED
      BY <3>1, <3>2 DEF Init
  <2>2. cash \in Int /\ strays \in 0 .. MaxStray /\ stray \in Int
    BY Money DEF Init
  <2>3. order \in [Review -> Placed] /\ book \in Seq(Review)
    BY <1>1, <1>2
  <2> QED
    BY <2>1, <2>2, <2>3 DEF Init, TypeOK
<1>6. Balance(cash, order, settled, stray)
  <2>1. Done(order, "buy") = {} /\ Done(order, "sell") = {} /\ Gone(order) = {}
    BY <1>1 DEF Done, Gone, NotPlaced
  <2>2. Spent(order) = 0 /\ Earned(order) = 0 /\ Fees(order) = 0 /\ ExitFees(order) = 0 /\ ExitPaid(order) = 0
    BY <2>1, SumOfNone DEF Spent, Earned, Fees, ExitFees, ExitPaid
  <2>3. PaidOut(settled) = 0
    <3>1. \A c \in Contract : Paid(settled)[c] = 0
      BY DEF Init, Paid
    <3>2. \A c \in Contract : Paid(settled)[c] \in Int
      BY <3>1
    <3>3. SumOver(Paid(settled), Contract) = SumOver(Paid(settled), {})
      BY <3>1, <3>2, MarketAssumption, SumSkipsZeros
    <3> QED
      BY <3>3, SumOfNone DEF PaidOut
  <2> QED
    BY <2>2, <2>3, Money DEF Balance, Init
<1> QED
  BY <1>3, <1>4, <1>5, <1>6 DEF BrokerInv

\* A review moves nothing.
LEMMA ReviewOrderKeeps ==
  ASSUME BrokerInv, NEW r \in Review, NEW q \in Request, ReviewOrder(r, q)
  PROVE  BrokerInv'
<1>1. UNCHANGED <<cash, held, quote, order, book, stray, strays, settled>>
  BY DEF ReviewOrder, history
<1>2. TypeOK'
  BY <1>1 DEF ReviewOrder, BrokerInv, TypeOK
<1> QED
  BY <1>1, <1>2 DEF BrokerInv

\* A filled bracket is appended to the book.
LEMMA BookGrows ==
  ASSUME NEW o, OrdersFine(o), NEW b, BookFine(b, o), NEW r \in Review, o[r].status = "none",
         NEW x \in Placed, x.bracket \in {"none", "open"}
  PROVE  BookFine(IF x.bracket = "open" THEN Append(b, r) ELSE b, [o EXCEPT ![r] = x])
<1> DEFINE p == [o EXCEPT ![r] = x]
           d == IF x.bracket = "open" THEN Append(b, r) ELSE b
<1>1. b \in Seq(Review) /\ Len(b) \in Nat /\ \A i \in 1 .. Len(b) : b[i] \in Review
  BY DEF BookFine
<1>2. \A i \in 1 .. Len(b) : b[i] # r
  BY DEF BookFine, OrdersFine, RowFine
<1>3. \A u \in Review : p[u] = IF u = r THEN x ELSE o[u]
  BY DEF OrdersFine
<1> HIDE DEF p
<1>4. CASE x.bracket = "open"
  <2>1. d = Append(b, r)
    BY <1>4
  <2> HIDE DEF d
  <2>2. /\ d \in Seq(Review) /\ Len(d) = Len(b) + 1 /\ d[Len(b) + 1] = r
        /\ \A i \in 1 .. Len(b) : d[i] = b[i]
    BY <1>1, <2>1
  <2>3. \A i \in 1 .. Len(d) : p[d[i]].bracket # "none"
    BY <1>1, <1>2, <1>3, <1>4, <2>2 DEF BookFine
  <2>4. \A i, j \in 1 .. Len(d) : d[i] = d[j] => i = j
    BY <1>1, <1>2, <2>2 DEF BookFine
  <2>5. \A u \in Review : p[u].bracket = "open" => \E i \in 1 .. Len(d) : d[i] = u
    BY <1>1, <1>3, <2>2 DEF BookFine
  <2> QED
    BY <2>2, <2>3, <2>4, <2>5 DEF BookFine, p, d
<1>5. CASE x.bracket = "none"
  <2>1. d = b
    BY <1>5
  <2> QED
    BY <1>1, <1>2, <1>3, <1>5, <2>1 DEF BookFine, p
<1> QED
  BY <1>4, <1>5

\* An order that rests moves nothing.
LEMMA RestKeeps ==
  ASSUME BrokerInv, NEW r \in Review, NEW q \in Request, Rest(r, q)
  PROVE  BrokerInv'
<1> DEFINE x == [request |-> q, status |-> "queued", price |-> 0, bracket |-> "none"]
<1>1. UNCHANGED <<cash, held, quote, reviewed, book, stray, strays, settled>> /\ order' = [order EXCEPT ![r] = x]
      /\ order[r] = NotPlaced
  BY DEF Rest, Accepts, history
<1>2. x \in Placed /\ RowFine(x) /\ x.status # "filled" /\ x.bracket = "none"
  BY DEF Placed, Status, Bracket, RowFine
<1>3. order[r].status = "none"
  BY <1>1 DEF NotPlaced
<1> HIDE DEF x
<1>4. OrdersFine(order)
  BY DEF BrokerInv
<1>5. OrdersFine(order')
  BY <1>1, <1>2, <1>4, OrderWritten
<1>6. BookFine(book, order')
  BY <1>1, <1>2, <1>3, <1>4, BookGrows DEF BrokerInv
<1>7. TypeOK'
  BY <1>1, <1>5 DEF BrokerInv, TypeOK, OrdersFine
<1>8. Balance(cash, order', settled, stray)
  <2>1. /\ Spent(order') = Spent(order) /\ Earned(order') = Earned(order) /\ Fees(order') = Fees(order)
        /\ ExitFees(order') = ExitFees(order) /\ ExitPaid(order') = ExitPaid(order)
    BY <1>1, <1>2, <1>3, <1>4, NotExecuted, ZenonT(40)
  <2> QED
    BY <2>1 DEF Balance, BrokerInv
<1>9. OrdersFine(order)' /\ BookFine(book, order)' /\ Balance(cash, order, settled, stray)'
  BY <1>1, <1>5, <1>6, <1>8
<1> QED
  BY <1>7, <1>9 DEF BrokerInv

\* Nor does its cancellation.
LEMMA CancelOrderKeeps ==
  ASSUME BrokerInv, NEW r \in Review, CancelOrder(r)
  PROVE  BrokerInv'
<1> DEFINE x == [order[r] EXCEPT !.status = "cancelled"]
<1>1. UNCHANGED <<cash, held, quote, reviewed, book, stray, strays, settled>> /\ order' = [order EXCEPT ![r] = x]
      /\ order[r].status = "queued"
  BY DEF CancelOrder, history
<1>2. OrdersFine(order) /\ order[r] \in Placed /\ RowFine(order[r])
  BY DEF BrokerInv, OrdersFine
<1>3. x \in Placed /\ x.status = "cancelled" /\ x.bracket = order[r].bracket /\ x.request = order[r].request
  BY <1>2 DEF Placed, Status
<1>4. order[r].bracket = "none" /\ order[r].request \in Request
  BY <1>1, <1>2 DEF RowFine
<1> HIDE DEF x
<1>5. RowFine(x)
  BY <1>3, <1>4 DEF RowFine
<1>6. OrdersFine(order')
  BY <1>1, <1>2, <1>3, <1>5, OrderWritten
<1>7. BookFine(book, order')
  <2>1. \A u \in Review : order'[u].bracket = order[u].bracket
    BY <1>1, <1>2, <1>3 DEF OrdersFine
  <2>2. BookFine(book, order) /\ \A i \in 1 .. Len(book) : book[i] \in Review
    BY DEF BrokerInv, BookFine
  <2> QED
    BY <2>1, <2>2 DEF BookFine
<1>8. TypeOK'
  BY <1>1, <1>6 DEF BrokerInv, TypeOK, OrdersFine
<1>9. Balance(cash, order', settled, stray)
  <2>1. /\ Spent(order') = Spent(order) /\ Earned(order') = Earned(order) /\ Fees(order') = Fees(order)
        /\ ExitFees(order') = ExitFees(order) /\ ExitPaid(order') = ExitPaid(order)
    BY <1>1, <1>2, <1>3, <1>5, NotExecuted
  <2> QED
    BY <2>1 DEF Balance, BrokerInv
<1>10. OrdersFine(order)' /\ BookFine(book, order)' /\ Balance(cash, order, settled, stray)'
  BY <1>1, <1>6, <1>7, <1>9
<1> QED
  BY <1>8, <1>10 DEF BrokerInv

\* The order of a fill.
LEMMA FillWritten ==
  ASSUME BrokerInv, NEW r \in Review, NEW q \in Request, Accepts(r, q), Filled(r, q)
  PROVE  /\ order' = [order EXCEPT ![r] = order'[r]]
         /\ order'[r] \in Placed /\ RowFine(order'[r]) /\ order[r].status = "none"
         /\ order'[r].request = q /\ order'[r].status = "filled" /\ order'[r].price = FillPrice(q)
         /\ order'[r].bracket = (IF q.target # NoPrice THEN "open" ELSE "none")
<1> DEFINE x == [request |-> q, status |-> "filled", price |-> FillPrice(q),
                bracket |-> IF q.target # NoPrice THEN "open" ELSE "none"]
<1>1. order' = [order EXCEPT ![r] = x] /\ order'[r] = x
  BY DEF Filled, BrokerInv, OrdersFine
<1>2. FillPrice(q) \in Nat
  BY PriceTyped DEF BrokerInv, TypeOK
<1>3. x \in Placed /\ RowFine(x)
  BY <1>2 DEF Placed, Status, Bracket, RowFine
<1>4. order[r].status = "none"
  BY DEF Accepts, NotPlaced
<1>5. x.request = q /\ x.status = "filled" /\ x.price = FillPrice(q)
      /\ x.bracket = (IF q.target # NoPrice THEN "open" ELSE "none")
  OBVIOUS
<1> HIDE DEF x
<1> QED
  BY <1>1, <1>3, <1>4, <1>5

\* A purchase costs its worth and its fee.
LEMMA BuyKeeps ==
  ASSUME BrokerInv, NEW r \in Review, NEW q \in Request, Buy(r, q)
  PROVE  BrokerInv'
<1> DEFINE x == order'[r]
           worth == Size(q) * FillPrice(q)
<1>1. /\ UNCHANGED <<quote, reviewed, stray, strays, settled>> /\ q.side = "buy"
      /\ cash' = cash - (worth + Fee(q)) /\ held' = [held EXCEPT ![q.on] = @ + q.lots]
      /\ book' = IF q.target # NoPrice THEN Append(book, r) ELSE book
  BY DEF Buy, history
<1>2. /\ order' = [order EXCEPT ![r] = x] /\ x \in Placed /\ RowFine(x) /\ order[r].status = "none"
      /\ x.request = q /\ x.status = "filled" /\ x.price = FillPrice(q)
      /\ x.bracket = (IF q.target # NoPrice THEN "open" ELSE "none")
  BY FillWritten DEF Buy
<1> HIDE DEF x
<1>3. OrdersFine(order) /\ OrdersFine(order')
  BY <1>2, OrderWritten DEF BrokerInv
<1>4. BookFine(book', order')
  <2>1. x.bracket \in {"none", "open"} /\ (x.bracket = "open" <=> q.target # NoPrice)
    BY <1>2
  <2>2. book' = IF x.bracket = "open" THEN Append(book, r) ELSE book
    BY <1>1, <2>1
  <2> QED
    BY <1>2, <1>3, <2>1, <2>2, BookGrows DEF BrokerInv
<1>5. worth \in Nat /\ Fee(q) \in Nat
  <2>1. Size(q) \in Nat /\ FillPrice(q) \in Nat /\ Fee(q) \in Nat
    BY FeeTyped, PriceTyped DEF BrokerInv, TypeOK
  <2> QED
    BY <2>1
<1>6. Balance(cash', order', settled, stray)
  <2>1. /\ Spent(order') = Spent(order) + worth /\ Earned(order') = Earned(order)
        /\ Fees(order') = Fees(order) + Fee(q)
        /\ ExitFees(order') = ExitFees(order) /\ ExitPaid(order') = ExitPaid(order)
    <3>1. x.bracket \in {"none", "open"} /\ x.request.side = "buy"
      BY <1>1, <1>2
    <3>2. /\ Spent(order') = Spent(order) + Size(x.request) * x.price /\ Earned(order') = Earned(order)
          /\ Fees(order') = Fees(order) + Fee(x.request)
          /\ ExitFees(order') = ExitFees(order) /\ ExitPaid(order') = ExitPaid(order)
      BY <1>2, <1>3, <3>1, IsExecuted
    <3> QED
      BY <1>2, <3>2
  <2>2. /\ Spent(order) \in Int /\ Fees(order) \in Int /\ ExitFees(order) \in Int /\ cash \in Int
        /\ Earned(order) \in Int /\ ExitPaid(order) \in Int
    BY <1>3, SumsTyped DEF BrokerInv, TypeOK
  <2>3. Balance(cash, order, settled, stray)
    BY DEF BrokerInv
  <2> HIDE DEF worth
  <2> QED
    BY <1>1, <1>5, <2>1, <2>2, <2>3, SMTT(30) DEF Balance
<1>7. TypeOK'
  <2>1. held' \in [Instrument -> Nat]
    <3>1. q.on \in Instrument /\ q.lots \in Nat /\ held \in [Instrument -> Nat]
      BY Asked DEF BrokerInv, TypeOK
    <3> QED
      BY <1>1, <3>1
  <2>2. cash' \in Int
    <3>1. cash \in Int
      BY DEF BrokerInv, TypeOK
    <3> HIDE DEF worth
    <3> QED
      BY <1>1, <1>5, <3>1
  <2>3. order' \in [Review -> Placed] /\ book' \in Seq(Review)
    BY <1>3, <1>4 DEF OrdersFine, BookFine
  <2> QED
    BY <1>1, <2>1, <2>2, <2>3 DEF BrokerInv, TypeOK
<1>8. OrdersFine(order)' /\ BookFine(book, order)' /\ Balance(cash, order, settled, stray)'
  BY <1>1, <1>3, <1>4, <1>6
<1> QED
  BY <1>7, <1>8 DEF BrokerInv

\* A sale brings its worth less its fee, and is of what is held.
LEMMA SellKeeps ==
  ASSUME BrokerInv, NEW r \in Review, NEW q \in Request, Sell(r, q)
  PROVE  BrokerInv'
<1> DEFINE x == order'[r]
           worth == Size(q) * FillPrice(q)
<1>1. /\ UNCHANGED <<quote, reviewed, book, stray, strays, settled>> /\ q.side = "sell" /\ held[q.on] >= q.lots
      /\ cash' = cash + worth - Fee(q) /\ held' = [held EXCEPT ![q.on] = @ - q.lots]
  BY DEF Sell, Covered, history
<1>2. /\ order' = [order EXCEPT ![r] = x] /\ x \in Placed /\ RowFine(x) /\ order[r].status = "none"
      /\ x.request = q /\ x.status = "filled" /\ x.price = FillPrice(q)
      /\ x.bracket = (IF q.target # NoPrice THEN "open" ELSE "none")
  BY FillWritten DEF Sell
<1> HIDE DEF x
<1>3. OrdersFine(order) /\ OrdersFine(order')
  BY <1>2, OrderWritten DEF BrokerInv
<1>4. q.target = NoPrice /\ x.bracket = "none"
  BY <1>1, <1>2, RequestAssumption
<1>5. BookFine(book', order')
  BY <1>1, <1>2, <1>3, <1>4, BookGrows DEF BrokerInv
<1>6. worth \in Nat /\ Fee(q) \in Nat
  <2>1. Size(q) \in Nat /\ FillPrice(q) \in Nat /\ Fee(q) \in Nat
    BY FeeTyped, PriceTyped DEF BrokerInv, TypeOK
  <2> QED
    BY <2>1
<1>7. Balance(cash', order', settled, stray)
  <2>1. /\ Earned(order') = Earned(order) + worth /\ Spent(order') = Spent(order)
        /\ Fees(order') = Fees(order) + Fee(q)
        /\ ExitFees(order') = ExitFees(order) /\ ExitPaid(order') = ExitPaid(order)
    <3>1. x.bracket \in {"none", "open"} /\ x.request.side = "sell"
      BY <1>1, <1>2, <1>4
    <3>2. /\ Earned(order') = Earned(order) + Size(x.request) * x.price /\ Spent(order') = Spent(order)
          /\ Fees(order') = Fees(order) + Fee(x.request)
          /\ ExitFees(order') = ExitFees(order) /\ ExitPaid(order') = ExitPaid(order)
      BY <1>2, <1>3, <3>1, IsExecuted
    <3> QED
      BY <1>2, <3>2
  <2>2. /\ Spent(order) \in Int /\ Fees(order) \in Int /\ ExitFees(order) \in Int /\ cash \in Int
        /\ Earned(order) \in Int /\ ExitPaid(order) \in Int /\ stray \in Int /\ StartCash \in Int
        /\ PaidOut(settled) \in Int
    BY <1>3, SumsTyped, PaidTyped, Money DEF BrokerInv, TypeOK
  <2>3. Balance(cash, order, settled, stray)
    BY DEF BrokerInv
  <2>4. cash' = cash + worth - Fee(q)
    BY <1>1
  <2> HIDE DEF worth
  <2> QED
    BY <1>6, <2>1, <2>2, <2>3, <2>4 DEF Balance
<1>8. TypeOK'
  <2>1. held' \in [Instrument -> Nat]
    <3>1. q.on \in Instrument /\ q.lots \in Nat /\ held \in [Instrument -> Nat]
      BY Asked DEF BrokerInv, TypeOK
    <3> QED
      BY <1>1, <3>1
  <2>2. cash' \in Int
    <3>1. cash \in Int
      BY DEF BrokerInv, TypeOK
    <3> HIDE DEF worth
    <3> QED
      BY <1>1, <1>6, <3>1
  <2>3. order' \in [Review -> Placed] /\ book' \in Seq(Review)
    BY <1>3, <1>5 DEF OrdersFine, BookFine
  <2> QED
    BY <1>1, <2>1, <2>2, <2>3 DEF BrokerInv, TypeOK
<1>9. OrdersFine(order)' /\ BookFine(book, order)' /\ Balance(cash, order, settled, stray)'
  BY <1>1, <1>3, <1>5, <1>7
<1> QED
  BY <1>8, <1>9 DEF BrokerInv

\* Quotes move nothing.
LEMMA UpdateOptionQuotesKeeps ==
  ASSUME BrokerInv, NEW c \in Contract, NEW quoted \in OptionQuote, UpdateOptionQuotes(c, quoted)
  PROVE  BrokerInv'
<1>1. UNCHANGED <<cash, held, reviewed, order, book, stray, strays, settled>>
  BY DEF UpdateOptionQuotes, history
<1>2. quote' \in [Instrument -> [bid : Nat, ask : Nat, intrinsic : Nat]]
  BY MarketAssumption DEF UpdateOptionQuotes, BrokerInv, TypeOK
<1>3. TypeOK'
  BY <1>1, <1>2 DEF BrokerInv, TypeOK
<1> QED
  BY <1>1, <1>3 DEF BrokerInv

\* What settlements pay is what their records add up to.
LEMMA SettleExpiredKeeps ==
  ASSUME BrokerInv, NEW endDay, SettleExpired(endDay)
  PROVE  BrokerInv'
<1> DEFINE D == Due(endDay)
           F == [c \in D |-> Proceeds(c)]
           G == [c \in Contract |-> IF c \in D THEN Proceeds(c) ELSE 0]
<1>1. /\ UNCHANGED <<quote, reviewed, order, book, stray, strays>>
      /\ cash' = cash + MapThenSumSet(Proceeds, D)
      /\ held' = [i \in Instrument |-> IF i \in D THEN 0 ELSE held[i]]
      /\ settled' = [c \in Contract |->
            IF c \in D THEN [lots |-> settled[c].lots + held[c], proceeds |-> settled[c].proceeds + Proceeds(c)]
                       ELSE settled[c]]
  BY DEF SettleExpired
<1>2. D \subseteq Contract /\ IsFiniteSet(Contract) /\ IsFiniteSet(D)
  BY MarketAssumption, FS_Subset DEF Due
<1>3. MapThenSumSet(Proceeds, D) = SumOver(F, D)
  BY Zenon DEF SumOver, MapThenSumSet, MapThenFoldSet
<1>4. \A c \in Contract : Proceeds(c) \in Nat /\ held[c] \in Nat
  <2> TAKE c \in Contract
  <2>1. held[c] \in Nat /\ quote[c].intrinsic \in Nat
    BY DEF BrokerInv, TypeOK, Instrument
  <2>2. Multiplier \in Nat /\ Scale \in Nat
    BY Money
  <2>3. held[c] * quote[c].intrinsic \in Nat
    BY <2>1
  <2>4. (held[c] * quote[c].intrinsic) * Multiplier \in Nat
    BY <2>2, <2>3
  <2>5. ((held[c] * quote[c].intrinsic) * Multiplier) * Scale \in Nat
    BY <2>2, <2>4
  <2> QED
    BY <2>1, <2>5 DEF Proceeds
<1>5. settled \in [Contract -> [lots : Nat, proceeds : Nat]]
  BY DEF BrokerInv, TypeOK
<1>6. settled' \in [Contract -> [lots : Nat, proceeds : Nat]]
  BY <1>1, <1>4, <1>5
<1>7. \A c \in Contract : Paid(settled')[c] = Paid(settled)[c] + G[c]
  BY <1>1, <1>5 DEF Paid
<1>8. \A c \in Contract : G[c] \in Int /\ Paid(settled)[c] \in Int
  BY <1>4, <1>5, PaidTyped
<1>9. \A c \in Contract \ D : G[c] = 0
  OBVIOUS
<1>10. \A c \in D : G[c] = F[c]
  BY <1>2
<1> HIDE DEF D, F, G
<1>11. SumOver(G, Contract) = SumOver(F, D)
  <2>1. SumOver(G, Contract) = SumOver(G, D)
    BY <1>2, <1>8, <1>9, SumSkipsZeros
  <2>2. SumOver(G, D) = SumOver(F, D)
    BY <1>10, SumSame
  <2> QED
    BY <2>1, <2>2
<1>12. PaidOut(settled') = PaidOut(settled) + SumOver(G, Contract)
  <2> DEFINE H == Paid(settled')
             E == Paid(settled)
  <2>1. \A c \in Contract : E[c] \in Int /\ G[c] \in Int /\ H[c] = E[c] + G[c]
    BY <1>7, <1>8
  <2> HIDE DEF E, H
  <2>2. SumOver(H, Contract) = SumOver(E, Contract) + SumOver(G, Contract)
    BY <1>2, <2>1, SumPlus
  <2> QED
    BY <2>2 DEF PaidOut, E, H
<1>13. SumOver(G, Contract) \in Int
  BY <1>2, <1>8, SumType
<1>14. cash' = cash + SumOver(G, Contract)
  BY <1>1, <1>3, <1>11
<1>15. Balance(cash', order, settled', stray)
  <2>1. OrdersFine(order) /\ Balance(cash, order, settled, stray)
    BY DEF BrokerInv
  <2>2. /\ Spent(order) \in Int /\ Fees(order) \in Int /\ ExitFees(order) \in Int /\ cash \in Int
        /\ Earned(order) \in Int /\ ExitPaid(order) \in Int /\ stray \in Int /\ StartCash \in Int
        /\ PaidOut(settled) \in Int
    BY <1>5, <2>1, SumsTyped, PaidTyped, Money DEF BrokerInv, TypeOK
  <2> QED
    <3> DEFINE X == SumOver(G, Contract)
    <3>1. X \in Int /\ cash' = cash + X /\ PaidOut(settled') = PaidOut(settled) + X
      BY <1>12, <1>13, <1>14
    <3>2. cash + Spent(order) + Fees(order) + ExitFees(order)
            = StartCash + Earned(order) + ExitPaid(order) + PaidOut(settled) + stray
      BY <2>1 DEF Balance
    <3> HIDE DEF X
    <3>3. cash' + Spent(order) + Fees(order) + ExitFees(order)
            = StartCash + Earned(order) + ExitPaid(order) + PaidOut(settled') + stray
      BY <2>2, <3>1, <3>2
    <3> QED
      BY <3>3 DEF Balance
<1>16. TypeOK'
  <2>1. cash' \in Int
    BY <1>13, <1>14 DEF BrokerInv, TypeOK
  <2>2. held' \in [Instrument -> Nat]
    BY <1>1 DEF BrokerInv, TypeOK
  <2> QED
    BY <1>1, <1>6, <2>1, <2>2 DEF BrokerInv, TypeOK
<1>17. Balance(cash, order, settled, stray)'
  BY <1>1, <1>15
<1> QED
  BY <1>1, <1>16, <1>17 DEF BrokerInv

-----------------------------------------------------------------------------
\* The loop of update_marks: the recursive function the fold unfolds to.
IsSweep(g, mark, S) ==
    g = [s \in SUBSET S |-> IF s = {} THEN Unswept ELSE Turn(g[s \ {Max(s)}], book[Max(s)], mark)]

\* The fold over the book is that function's value at the whole of it.
LEMMA SweepIsChosen ==
  ASSUME NEW mark
  PROVE  Sweep(mark) = (CHOOSE g : IsSweep(g, mark, DOMAIN book))[DOMAIN book]
BY DEF Sweep, FoldLeft, MapThenFoldSet, IsSweep

\* A finite set of numbers has a largest one.
LEMMA MaxInside ==
  ASSUME NEW s \in SUBSET Int, IsFiniteSet(s), s # {}
  PROVE  Max(s) \in s /\ \A y \in s : Max(s) >= y
<1> DEFINE Good(T) == T # {} => \E x \in T : \A y \in T : x >= y
           Bad == {T \in SUBSET s : ~Good(T)}
<1>1. Bad = {}
  <2> SUFFICES ASSUME Bad # {} PROVE FALSE
    OBVIOUS
  <2>1. Bad \subseteq FiniteSubsetsOf(s)
    BY FS_Subset DEF FiniteSubsetsOf
  <2>2. PICK T \in Bad : \A U \in Bad : U \subseteq T => U = T
    <3> HIDE DEF Bad
    <3> QED
      BY <2>1, SmallestSet
  <2>3. T # {} /\ T \subseteq Int
    BY <2>2
  <2>4. PICK z \in T : TRUE
    BY <2>3
  <2>5. Good(T \ {z})
    <3>1. T \ {z} \in SUBSET s /\ T \ {z} \subseteq T /\ T \ {z} # T
      BY <2>2, <2>4
    <3>2. T \ {z} \notin Bad
      <4> HIDE DEF Bad
      <4> QED
        BY <2>2, <3>1
    <3> QED
      BY <3>1, <3>2
  <2>6. CASE T = {z}
    <3>1. \A y \in T : z >= y
      BY <2>3, <2>6
    <3> QED
      BY <2>2, <2>4, <3>1
  <2>7. CASE T # {z}
    <3>1. PICK x \in T \ {z} : \A y \in T \ {z} : x >= y
      BY <2>4, <2>5, <2>7
    <3>2. x \in Int /\ z \in Int
      BY <2>3, <2>4, <3>1
    <3>3. CASE x >= z
      <4>1. \A y \in T : x >= y
        BY <3>1, <3>3
      <4> QED
        BY <2>2, <3>1, <4>1
    <3>4. CASE z > x
      <4>1. \A y \in T : z >= y
        BY <2>3, <3>1, <3>2, <3>4
      <4> QED
        BY <2>2, <2>4, <4>1
    <3> QED
      BY <3>2, <3>3, <3>4
  <2> QED
    BY <2>6, <2>7
<1>2. \E x \in s : \A y \in s : x >= y
  BY <1>1
<1> QED
  BY <1>2 DEF Max

\* The recursions over two parts of the book agree on what these share.
LEMMA SweepsAgree ==
  ASSUME NEW D \in SUBSET Int, IsFiniteSet(D), NEW mark, NEW S \in SUBSET D, NEW T \in SUBSET D,
         NEW g, NEW h, IsSweep(g, mark, S), IsSweep(h, mark, T)
  PROVE  \A s \in SUBSET (S \cap T) : g[s] = h[s]
<1> DEFINE Bad == {s \in SUBSET (S \cap T) : g[s] # h[s]}
<1> SUFFICES ASSUME Bad # {} PROVE FALSE
  OBVIOUS
<1>1. Bad \subseteq FiniteSubsetsOf(D)
  BY FS_Subset DEF FiniteSubsetsOf
<1>2. PICK s \in Bad : \A u \in Bad : u \subseteq s => u = s
  <2> HIDE DEF Bad
  <2> QED
    BY <1>1, SmallestSet
<1>3. s # {}
  BY <1>2 DEF IsSweep
<1>4. Max(s) \in s
  <2>1. s \in SUBSET Int /\ IsFiniteSet(s)
    BY <1>2, FS_Subset
  <2> QED
    BY <1>3, <2>1, MaxInside
<1>5. s \ {Max(s)} \notin Bad /\ s \ {Max(s)} \in SUBSET (S \cap T)
  BY <1>2, <1>4
<1>6. g[s \ {Max(s)}] = h[s \ {Max(s)}]
  BY <1>5
<1>7. /\ g[s] = Turn(g[s \ {Max(s)}], book[Max(s)], mark)
      /\ h[s] = Turn(h[s \ {Max(s)}], book[Max(s)], mark)
  BY <1>2, <1>3 DEF IsSweep
<1> QED
  BY <1>2, <1>6, <1>7

\* The recursion comes down to the empty book.
LEMMA SweepExists ==
  ASSUME NEW D \in SUBSET Int, IsFiniteSet(D), NEW mark
  PROVE  \A S \in SUBSET D : \E g : IsSweep(g, mark, S)
<1> DEFINE Bad == {S \in SUBSET D : ~ \E g : IsSweep(g, mark, S)}
<1> SUFFICES ASSUME Bad # {} PROVE FALSE
  OBVIOUS
<1>1. Bad \subseteq FiniteSubsetsOf(D)
  BY FS_Subset DEF FiniteSubsetsOf
<1>2. PICK T \in Bad : \A U \in Bad : U \subseteq T => U = T
  <2> HIDE DEF Bad
  <2> QED
    BY <1>1, SmallestSet
<1> DEFINE swept(U) == CHOOSE g : IsSweep(g, mark, U)
           step(s) == IF s = {} THEN Unswept ELSE Turn(swept(s \ {Max(s)})[s \ {Max(s)}], book[Max(s)], mark)
           all == [s \in SUBSET T |-> step(s)]
<1>3. ASSUME NEW U \in SUBSET T, U # T PROVE IsSweep(swept(U), mark, U)
  BY <1>2, <1>3
<1>4. \A s \in SUBSET T : s # {} => Max(s) \in s
  <2>1. \A s \in SUBSET T : s \in SUBSET Int /\ IsFiniteSet(s)
    BY <1>2, FS_Subset
  <2> QED
    BY <2>1, MaxInside
<1>5. ASSUME NEW s \in SUBSET T, s # {} PROVE all[s \ {Max(s)}] = swept(s \ {Max(s)})[s \ {Max(s)}]
  <2> DEFINE U == s \ {Max(s)}
             V == U \ {Max(U)}
  <2>1. Max(s) \in s
    BY <1>4, <1>5
  <2>2. U \in SUBSET T /\ U # T
    BY <2>1
  <2>3. IsSweep(swept(U), mark, U)
    BY <1>3, <2>2
  <2>4. CASE U = {}
    <3>1. swept(U)[U] = Unswept
      BY <2>3, <2>4 DEF IsSweep
    <3> QED
      BY <2>4, <3>1
  <2>5. CASE U # {}
    <3>1. Max(U) \in U
      BY <1>4, <2>2, <2>5
    <3>2. V \in SUBSET T /\ V # T
      BY <2>2, <3>1
    <3>3. IsSweep(swept(V), mark, V)
      BY <1>3, <3>2
    <3>4. V \in SUBSET (U \cap V) /\ U \in SUBSET D /\ V \in SUBSET D
      BY <1>2, <2>2, <3>2
    <3>5. swept(U)[V] = swept(V)[V]
      <4> HIDE DEF swept, U, V
      <4> QED
        BY <2>3, <3>3, <3>4, SweepsAgree
    <3>6. swept(U)[U] = Turn(swept(U)[V], book[Max(U)], mark)
      <4> HIDE DEF swept
      <4> QED
        BY <2>3, <2>5 DEF IsSweep
    <3>7. all[U] = Turn(swept(V)[V], book[Max(U)], mark)
      <4> HIDE DEF swept
      <4> QED
        BY <2>2, <2>5
    <3> QED
      BY <3>5, <3>6, <3>7
  <2> QED
    BY <2>4, <2>5
<1>6. IsSweep(all, mark, T)
  <2>1. ASSUME NEW s \in SUBSET T
        PROVE  all[s] = IF s = {} THEN Unswept ELSE Turn(all[s \ {Max(s)}], book[Max(s)], mark)
    <3> HIDE DEF swept
    <3> QED
      BY <1>5
  <2> HIDE DEF all, swept, step
  <2>2. all = [s \in SUBSET T |-> all[s]]
    BY DEF all
  <2> QED
    BY <2>1, <2>2 DEF IsSweep
<1> QED
  BY <1>2, <1>6

\* The loop takes the brackets in turn.
LEMMA SweepSteps ==
  ASSUME book \in Seq(Review), NEW mark
  PROVE  \E g : /\ Sweep(mark) = g[1 .. Len(book)] /\ g[1 .. 0] = Unswept
                /\ \A k \in 1 .. Len(book) : g[1 .. k] = Turn(g[1 .. (k - 1)], book[k], mark)
<1> DEFINE D == 1 .. Len(book)
           g == CHOOSE f : IsSweep(f, mark, D)
<1>1. Len(book) \in Nat /\ DOMAIN book = D
  OBVIOUS
<1>2. IsFiniteSet(D) /\ D \in SUBSET Int
  BY <1>1, FS_Interval
<1>3. IsSweep(g, mark, D)
  <2> HIDE DEF D
  <2> QED
    BY <1>2, SweepExists
<1>4. Sweep(mark) = g[1 .. Len(book)]
  BY <1>1, SweepIsChosen
<1> HIDE DEF g
<1>5. g[1 .. 0] = Unswept
  <2>1. 1 .. 0 = {}
    OBVIOUS
  <2> QED
    BY <1>3, <2>1 DEF IsSweep
<1>6. ASSUME NEW k \in 1 .. Len(book) PROVE g[1 .. k] = Turn(g[1 .. (k - 1)], book[k], mark)
  <2>0. k \in Int /\ 1 <= k /\ k <= Len(book)
    BY <1>1
  <2>1. 1 .. k \in SUBSET D /\ 1 .. k # {} /\ 1 .. k \in SUBSET Int /\ k \in 1 .. k /\ k \in Int
    <3>1. \A j \in 1 .. k : j \in D
      BY <1>1, <2>0
    <3>2. k \in 1 .. k
      BY <2>0
    <3>3. 1 .. k \in SUBSET D
      <4> HIDE DEF D
      <4> QED
        BY <3>1
    <3>4. 1 .. k \in SUBSET Int
      BY <2>0
    <3>5. 1 .. k # {}
      BY <3>2
    <3> QED
      BY <2>0, <3>2, <3>3, <3>4, <3>5
  <2>2. IsFiniteSet(1 .. k)
    BY <2>1, FS_Interval
  <2>3. Max(1 .. k) \in 1 .. k /\ \A y \in 1 .. k : Max(1 .. k) >= y
    BY <2>1, <2>2, MaxInside
  <2>4. Max(1 .. k) = k
    BY <2>1, <2>3
  <2>5. (1 .. k) \ {k} = 1 .. (k - 1)
    BY <2>1
  <2>6. g[1 .. k] = Turn(g[(1 .. k) \ {Max(1 .. k)}], book[Max(1 .. k)], mark)
    <3> HIDE DEF D
    <3> QED
      BY <1>3, <2>1 DEF IsSweep
  <2> QED
    BY <2>4, <2>5, <2>6
<1> QED
  BY <1>4, <1>5, <1>6

-----------------------------------------------------------------------------
\* The leg a bracket is left by, and what it brings.
LegAt(mark, r) == Leg(order[r].request, mark[order[r].request.on])

Net(mark) == [r \in Review |->
    order[r].request.lots * LegPrice(order[r].request, LegAt(mark, r)) * Scale - Fee(order[r].request)]

\* The account in the loop, the brackets it was left by, and those the marks touch.
Account == [cash : Int, held : [Instrument -> Nat], exits : SUBSET (Review \X {"stop", "target"}),
            refused : BOOLEAN, stray : Int]

Out(a) == {r \in Review : \E leg : <<r, leg>> \in a.exits}

Hit(mark, r) == order[r].bracket = "open" /\ LegAt(mark, r) # "open"

\* What the loop has made of the account after k brackets: it was left only by
\* brackets that are hit, each once, and unless one was refused by all of them.
SweptTo(k, a, mark) ==
    /\ a \in Account
    /\ \A x \in a.exits : \E i \in 1 .. k : Hit(mark, book[i]) /\ x = <<book[i], LegAt(mark, book[i])>>
    /\ IsFiniteSet(Out(a))
    /\ a.cash = cash + SumOver(Net(mark), Out(a)) + a.stray
    /\ ~a.refused => a.stray = 0
    /\ ~a.refused => \A i \in 1 .. k : Hit(mark, book[i]) => <<book[i], LegAt(mark, book[i])>> \in a.exits

\* An order with a bracket is a filled purchase of shares.
LEMMA OnTheBook ==
  ASSUME BrokerInv, NEW r \in Review, order[r].bracket # "none"
  PROVE  /\ order[r].request \in Request /\ order[r].request.on \in Symbol /\ order[r].request.lots \in Nat
         /\ order[r].request.stop \in Nat /\ order[r].request.target \in Nat /\ order[r].status = "filled"
<1>1. RowFine(order[r])
  BY DEF BrokerInv, OrdersFine
<1>2. order[r].status = "filled" /\ order[r].request.target # NoPrice /\ order[r].request \in Request
  BY <1>1 DEF RowFine
<1> QED
  BY <1>2, Asked

\* What an exit brings is a number.
LEMMA NetTyped ==
  ASSUME BrokerInv, NEW mark, NEW r \in Review, order[r].bracket # "none"
  PROVE  /\ Net(mark)[r] \in Int /\ Charges(order)[r] \in Nat
         /\ order[r].request.lots * LegPrice(order[r].request, LegAt(mark, r)) * Scale \in Nat
<1> DEFINE price == LegPrice(order[r].request, LegAt(mark, r))
<1>1. price \in Nat /\ order[r].request.lots \in Nat /\ Scale \in Nat /\ Fee(order[r].request) \in Nat
  BY OnTheBook, Money, FeeTyped DEF LegPrice
<1> HIDE DEF price
<1>2. order[r].request.lots * price \in Nat
  BY <1>1
<1>3. (order[r].request.lots * price) * Scale \in Nat
  BY <1>1, <1>2
<1> QED
  BY <1>1, <1>3 DEF Net, Charges, price

\* The loop begins with the account as it is.
LEMMA SweepBegins ==
  ASSUME BrokerInv, NEW mark
  PROVE  SweptTo(0, Unswept, mark)
<1>1. Unswept \in Account
  BY DEF Unswept, Account, BrokerInv, TypeOK
<1>2. Out(Unswept) = {} /\ Unswept.exits = {}
  BY DEF Out, Unswept
<1>3. SumOver(Net(mark), Out(Unswept)) = 0 /\ IsFiniteSet(Out(Unswept))
  BY <1>2, SumOfNone, FS_EmptySet
<1>4. Unswept.cash = cash + 0 + 0 /\ Unswept.stray = 0
  BY DEF Unswept, BrokerInv, TypeOK
<1> QED
  BY <1>1, <1>2, <1>3, <1>4 DEF SweptTo

\* A bracket that exits adds what it brings.
LEMMA ExitAdds ==
  ASSUME BrokerInv, NEW mark, NEW k \in 1 .. Len(book), NEW a, SweptTo(k - 1, a, mark),
         NEW b, b.exits = a.exits \cup {<<book[k], LegAt(mark, book[k])>>}, Hit(mark, book[k])
  PROVE  /\ IsFiniteSet(Out(b))
         /\ SumOver(Net(mark), Out(a)) \in Int
         /\ SumOver(Net(mark), Out(b)) = SumOver(Net(mark), Out(a)) + Net(mark)[book[k]]
<1> DEFINE r == book[k]
<1>1. r \in Review
  BY DEF BrokerInv, BookFine
<1>2. \A x \in Out(a) : \E i \in 1 .. (k - 1) : x = book[i] /\ Hit(mark, book[i])
  BY DEF Out, SweptTo
<1>3. r \notin Out(a)
  <2>1. \A i \in 1 .. (k - 1) : book[i] # r
    BY DEF BrokerInv, BookFine
  <2> QED
    BY <1>2, <2>1
<1>4. Out(b) = Out(a) \cup {r}
  BY <1>1 DEF Out
<1>5. \A x \in Out(a) \cup {r} : Net(mark)[x] \in Int
  <2>1. \A x \in Out(a) \cup {r} : x \in Review /\ order[x].bracket = "open"
    BY <1>1, <1>2 DEF Hit, Out
  <2> QED
    BY <2>1, NetTyped
<1>6. IsFiniteSet(Out(a))
  BY DEF SweptTo
<1> HIDE DEF r
<1>7. SumOver(Net(mark), Out(a) \cup {r}) = SumOver(Net(mark), Out(a)) + Net(mark)[r]
  BY <1>3, <1>5, <1>6, SumAdds
<1>8. SumOver(Net(mark), Out(a)) \in Int
  BY <1>5, <1>6, SumType
<1>9. IsFiniteSet(Out(b))
  BY <1>4, <1>6, FS_AddElement
<1> QED
  BY <1>4, <1>7, <1>8, <1>9 DEF r

\* One turn of the loop.
LEMMA TurnKeeps ==
  ASSUME BrokerInv, NEW mark \in [Symbol -> Mark], NEW k \in 1 .. Len(book), NEW a, SweptTo(k - 1, a, mark)
  PROVE  SweptTo(k, Turn(a, book[k], mark), mark)
<1> DEFINE r == book[k]
           q == order[r].request
           leg == LegAt(mark, r)
           short == a.held[q.on] < q.lots
           net == q.lots * LegPrice(q, leg) * Scale - Fee(q)
           paid == [cash |-> a.cash + net, held |-> a.held, exits |-> a.exits,
                    refused |-> short, stray |-> IF short THEN net ELSE 0]
           b == Turn(a, r, mark)
<1>1. r \in Review /\ k \in Nat /\ k > 0
  BY DEF BrokerInv, BookFine
<1>2. a \in Account
  BY DEF SweptTo
<1>3. b = IF a.refused \/ ~Hit(mark, r) THEN a ELSE IF short THEN paid ELSE Leave(paid, r, q, leg)
  BY DEF Turn, LegAt, Hit
<1>4. 1 .. (k - 1) \subseteq 1 .. k /\ \A i \in 1 .. k : i \in 1 .. (k - 1) \/ i = k
  BY <1>1
<1> HIDE DEF b
<1>5. CASE a.refused \/ ~Hit(mark, r)
  <2>1. b = a
    BY <1>3, <1>5
  <2>2. \A x \in a.exits : \E i \in 1 .. k : Hit(mark, book[i]) /\ x = <<book[i], LegAt(mark, book[i])>>
    BY <1>4 DEF SweptTo
  <2>3. ~a.refused => \A i \in 1 .. k : Hit(mark, book[i]) => <<book[i], LegAt(mark, book[i])>> \in a.exits
    BY <1>4, <1>5 DEF SweptTo
  <2> QED
    BY <2>1, <2>2, <2>3 DEF SweptTo, b
<1>6. CASE ~a.refused /\ Hit(mark, r)
  <2>1. a.stray = 0 /\ a.cash = cash + SumOver(Net(mark), Out(a)) + a.stray
    BY <1>6 DEF SweptTo
  <2>2. order[r].bracket # "none" /\ net \in Int /\ Net(mark)[r] = net
    <3>1. order[r].bracket # "none"
      BY <1>6 DEF Hit
    <3>2. Net(mark)[r] = net
      BY <1>1 DEF Net
    <3>3. Net(mark)[r] \in Int
      BY <1>1, <3>1, NetTyped
    <3> QED
      BY <3>1, <3>2, <3>3
  <2>3. q.on \in Instrument /\ q.lots \in Nat
    BY <1>1, <2>2, OnTheBook DEF Instrument
  <2>4. leg \in {"stop", "target"}
    BY <1>6 DEF Hit, LegAt, Leg
  <2>5. /\ a = [cash |-> a.cash, held |-> a.held, exits |-> a.exits, refused |-> a.refused, stray |-> a.stray]
        /\ a.cash \in Int /\ a.held \in [Instrument -> Nat] /\ a.exits \subseteq Review \X {"stop", "target"}
    BY <1>2 DEF Account
  <2> HIDE DEF net, leg, q
  <2>6. CASE short
    <3>1. b = [cash |-> a.cash + net, held |-> a.held, exits |-> a.exits, refused |-> TRUE, stray |-> net]
      BY <1>3, <1>6, <2>6
    <3>2. b \in Account /\ b.refused = TRUE /\ b.exits = a.exits /\ b.cash = a.cash + net /\ b.stray = net
      BY <2>2, <2>5, <3>1 DEF Account
    <3>3. Out(b) = Out(a)
      BY <3>2 DEF Out
    <3>4. \A x \in b.exits : \E i \in 1 .. k : Hit(mark, book[i]) /\ x = <<book[i], LegAt(mark, book[i])>>
      BY <1>4, <3>2 DEF SweptTo
    <3>5. SumOver(Net(mark), Out(a)) \in Int
      <4>1. \A x \in Out(a) : x \in Review /\ order[x].bracket = "open"
        BY DEF Out, SweptTo, Hit
      <4>2. \A x \in Out(a) : Net(mark)[x] \in Int
        BY <4>1, NetTyped
      <4> QED
        BY <4>2, SumType DEF SweptTo
    <3>6. b.cash = cash + SumOver(Net(mark), Out(b)) + b.stray
      <4>1. cash \in Int
        BY DEF BrokerInv, TypeOK
      <4> QED
        BY <2>1, <2>2, <3>2, <3>3, <3>5, <4>1
    <3>7. IsFiniteSet(Out(b))
      BY <3>3 DEF SweptTo
    <3> QED
      BY <3>2, <3>4, <3>6, <3>7 DEF SweptTo, b
  <2>7. CASE ~short
    <3>1. b = [cash |-> a.cash + net, held |-> [a.held EXCEPT ![q.on] = @ - q.lots],
               exits |-> a.exits \cup {<<r, leg>>}, refused |-> FALSE, stray |-> 0]
      <4>1. b = Leave(paid, r, q, leg)
        BY <1>3, <1>6, <2>7
      <4>2. short = FALSE
        BY <2>7
      <4>3. /\ paid.cash = a.cash + net /\ paid.held = a.held /\ paid.exits = a.exits
            /\ paid.refused = FALSE /\ paid.stray = 0
        <5> HIDE DEF short
        <5> QED
          BY <4>2
      <4> HIDE DEF paid, short
      <4> QED
        BY <4>1, <4>3 DEF Leave
    <3>2. [a.held EXCEPT ![q.on] = @ - q.lots] \in [Instrument -> Nat]
      BY <2>3, <2>5, <2>7
    <3>3. a.exits \cup {<<r, leg>>} \subseteq Review \X {"stop", "target"}
      BY <1>1, <2>4, <2>5
    <3>4. b \in Account
      <4> HIDE DEF r
      <4> QED
        BY <2>2, <2>5, <3>1, <3>2, <3>3 DEF Account
    <3>5. b.refused = FALSE /\ b.exits = a.exits \cup {<<r, leg>>} /\ b.cash = a.cash + net /\ b.stray = 0
      BY <3>1
    <3>6. /\ IsFiniteSet(Out(b)) /\ SumOver(Net(mark), Out(a)) \in Int
          /\ SumOver(Net(mark), Out(b)) = SumOver(Net(mark), Out(a)) + Net(mark)[r]
      BY <1>6, <3>5, ExitAdds DEF leg
    <3>7. b.cash = cash + SumOver(Net(mark), Out(b)) + b.stray
      <4>1. cash \in Int
        BY DEF BrokerInv, TypeOK
      <4> QED
        BY <2>1, <2>2, <3>5, <3>6, <4>1
    <3>8. \A x \in b.exits : \E i \in 1 .. k : Hit(mark, book[i]) /\ x = <<book[i], LegAt(mark, book[i])>>
      <4>1. \A x \in a.exits : \E i \in 1 .. k : Hit(mark, book[i]) /\ x = <<book[i], LegAt(mark, book[i])>>
        BY <1>4 DEF SweptTo
      <4>2. k \in 1 .. k
        BY <1>1
      <4> QED
        BY <1>6, <3>5, <4>1, <4>2 DEF leg
    <3>9. \A i \in 1 .. k : Hit(mark, book[i]) => <<book[i], LegAt(mark, book[i])>> \in b.exits
      BY <1>4, <1>6, <3>5 DEF SweptTo, leg
    <3> QED
      BY <3>4, <3>5, <3>6, <3>7, <3>8, <3>9 DEF SweptTo, b
  <2> QED
    BY <2>6, <2>7
<1> QED
  BY <1>5, <1>6

\* The loop goes through the book, or to the exit it refuses.
LEMMA SweepEnds ==
  ASSUME BrokerInv, NEW mark \in [Symbol -> Mark]
  PROVE  SweptTo(Len(book), Sweep(mark), mark)
<1>1. book \in Seq(Review) /\ Len(book) \in Nat
  BY DEF BrokerInv, TypeOK
<1>2. PICK g : /\ Sweep(mark) = g[1 .. Len(book)] /\ g[1 .. 0] = Unswept
               /\ \A k \in 1 .. Len(book) : g[1 .. k] = Turn(g[1 .. (k - 1)], book[k], mark)
  BY <1>1, SweepSteps
<1> DEFINE Good(k) == SweptTo(k, g[1 .. k], mark)
           All == {k \in 0 .. Len(book) : \A j \in 0 .. k : Good(j)}
<1>3. 0 \in All
  <2>1. Good(0)
    BY <1>2, SweepBegins
  <2>2. 0 \in 0 .. Len(book) /\ \A j \in 0 .. 0 : j = 0
    BY <1>1
  <2> HIDE DEF Good
  <2> QED
    BY <2>1, <2>2
<1>4. All \in SUBSET Int /\ IsFiniteSet(All) /\ All # {}
  <2>1. All \subseteq 0 .. Len(book)
    OBVIOUS
  <2>2. IsFiniteSet(0 .. Len(book)) /\ 0 .. Len(book) \subseteq Int
    BY <1>1, FS_Interval
  <2> HIDE DEF All
  <2> QED
    BY <1>3, <2>1, <2>2, FS_Subset
<1> DEFINE m == Max(All)
<1>5. m \in All /\ \A y \in All : m >= y
  <2> HIDE DEF All
  <2> QED
    BY <1>4, MaxInside
<1> HIDE DEF m
<1>6. m \in Nat /\ m <= Len(book) /\ \A j \in 0 .. m : Good(j)
  BY <1>1, <1>5
<1> HIDE DEF Good
<1>7. CASE m < Len(book)
  <2>1. m + 1 \in 1 .. Len(book) /\ (m + 1) - 1 = m
    BY <1>1, <1>6, <1>7
  <2>2. Good(m)
    BY <1>6
  <2>3. Good(m + 1)
    <3>1. g[1 .. (m + 1)] = Turn(g[1 .. m], book[m + 1], mark)
      BY <1>2, <2>1
    <3>2. SweptTo((m + 1) - 1, g[1 .. m], mark)
      BY <2>1, <2>2 DEF Good
    <3>3. SweptTo(m + 1, Turn(g[1 .. m], book[m + 1], mark), mark)
      BY <2>1, <3>2, TurnKeeps
    <3> QED
      BY <3>1, <3>3 DEF Good
  <2>4. \A j \in 0 .. (m + 1) : j \in 0 .. m \/ j = m + 1
    BY <1>6
  <2>5. m + 1 \in All
    BY <1>1, <1>6, <1>7, <2>3, <2>4
  <2>6. m >= m + 1
    BY <1>5, <2>5
  <2> QED
    BY <1>6, <2>6
<1>8. CASE m = Len(book)
  <2>1. Good(Len(book))
    BY <1>6, <1>8
  <2> QED
    BY <1>2, <2>1 DEF Good
<1> QED
  BY <1>1, <1>6, <1>7, <1>8

\* What update_marks writes.
LEMMA MarksWritten ==
  ASSUME BrokerInv, NEW mark \in [Symbol -> Mark], UpdateMarks(mark), NEW a, a = Sweep(mark)
  PROVE  /\ SweptTo(Len(book), a, mark)
         /\ \A r \in Out(a) : r \in Review /\ Hit(mark, r) /\ LegAt(mark, r) \in {"stop", "target"}
         /\ \A r \in Review : order'[r] = IF r \in Out(a) THEN [order[r] EXCEPT !.bracket = LegAt(mark, r)]
                                           ELSE order[r]
         /\ order' \in [Review -> Placed]
         /\ \A r \in Review : /\ order'[r].status = order[r].status /\ order'[r].request = order[r].request
                              /\ order'[r].price = order[r].price
                              /\ order'[r].bracket = IF r \in Out(a) THEN LegAt(mark, r) ELSE order[r].bracket
<1>1. SweptTo(Len(book), a, mark)
  BY SweepEnds
<1>2. order' = [r \in Review |->
              IF \E leg \in Bracket : <<r, leg>> \in a.exits
              THEN [order[r] EXCEPT !.bracket = CHOOSE leg \in Bracket : <<r, leg>> \in a.exits]
              ELSE order[r]]
  BY DEF UpdateMarks
<1>3. a.exits \subseteq Review \X {"stop", "target"}
  BY <1>1 DEF SweptTo, Account
<1>4. \A r, leg : <<r, leg>> \in a.exits => Hit(mark, r) /\ leg = LegAt(mark, r)
  BY <1>1 DEF SweptTo
<1>5. \A r, leg : <<r, leg>> \in a.exits => leg \in Bracket /\ r \in Review /\ leg \in {"stop", "target"}
  BY <1>3 DEF Bracket
<1>6. \A r \in Out(a) : r \in Review /\ Hit(mark, r) /\ LegAt(mark, r) \in {"stop", "target"}
  BY <1>4, <1>5 DEF Out
<1>7. ASSUME NEW r \in Out(a)
      PROVE  (\E leg \in Bracket : <<r, leg>> \in a.exits)
             /\ (CHOOSE leg \in Bracket : <<r, leg>> \in a.exits) = LegAt(mark, r)
  <2>1. \E leg \in Bracket : <<r, leg>> \in a.exits
    BY <1>5 DEF Out
  <2>2. <<r, CHOOSE leg \in Bracket : <<r, leg>> \in a.exits>> \in a.exits
    BY <2>1
  <2> QED
    BY <1>4, <2>1, <2>2
<1>8. \A r \in Review : order'[r] = IF r \in Out(a) THEN [order[r] EXCEPT !.bracket = LegAt(mark, r)] ELSE order[r]
  BY <1>2, <1>7 DEF Out
<1>9. \A r \in Review : order[r] \in Placed
  BY DEF BrokerInv, TypeOK
<1>10. \A r \in Review : /\ order'[r].status = order[r].status /\ order'[r].request = order[r].request
                         /\ order'[r].price = order[r].price
                         /\ order'[r].bracket = IF r \in Out(a) THEN LegAt(mark, r) ELSE order[r].bracket
                         /\ order'[r] \in Placed
  <2> TAKE r \in Review
  <2>1. CASE r \notin Out(a)
    <3>1. order'[r] = order[r] /\ order[r] \in Placed
      BY <1>8, <1>9, <2>1
    <3> QED
      BY <2>1, <3>1, Zenon
  <2>2. CASE r \in Out(a)
    <3>1. order'[r] = [order[r] EXCEPT !.bracket = LegAt(mark, r)]
      BY <1>8, <2>2
    <3>2. LegAt(mark, r) \in Bracket
      BY <1>6, <2>2 DEF Bracket
    <3> QED
      BY <1>9, <2>2, <3>1, <3>2 DEF Placed
  <2> QED
    BY <2>1, <2>2
<1>11. order' \in [Review -> Placed]
  <2>1. order' = [r \in Review |-> order'[r]]
    BY <1>2
  <2>2. \A r \in Review : order'[r] \in Placed
    BY <1>10, Zenon
  <2> QED
    BY <2>1, <2>2, Zenon
<1> QED
  BY <1>1, <1>6, <1>8, <1>10, <1>11

\* The exits of one call in the sums of the books.
LEMMA ExitsBalance ==
  ASSUME BrokerInv, NEW mark \in [Symbol -> Mark], UpdateMarks(mark), NEW a, a = Sweep(mark), OrdersFine(order')
  PROVE  /\ Spent(order') = Spent(order) /\ Earned(order') = Earned(order) /\ Fees(order') = Fees(order)
         /\ ExitFees(order') \in Int /\ ExitPaid(order') \in Int /\ SumOver(Net(mark), Out(a)) \in Int
         /\ ExitPaid(order') - ExitFees(order') = ExitPaid(order) - ExitFees(order) + SumOver(Net(mark), Out(a))
<1> DEFINE o == order
           p == order'
<1>1. /\ \A r \in Out(a) : r \in Review /\ Hit(mark, r) /\ LegAt(mark, r) \in {"stop", "target"}
      /\ IsFiniteSet(Out(a))
  BY MarksWritten DEF SweptTo
<1>2. \A r \in Review : /\ p[r].status = o[r].status /\ p[r].request = o[r].request /\ p[r].price = o[r].price
                        /\ p[r].bracket = IF r \in Out(a) THEN LegAt(mark, r) ELSE o[r].bracket
  BY MarksWritten
<1> HIDE DEF p
<1>3. OrdersFine(o) /\ OrdersFine(p)
  BY DEF BrokerInv, p
<1>4. Done(p, "buy") = Done(o, "buy") /\ Done(p, "sell") = Done(o, "sell")
  BY <1>2 DEF Done
<1>5. Gone(p) = Gone(o) \cup Out(a) /\ Gone(o) \cap Out(a) = {}
  BY <1>1, <1>2 DEF Gone, Hit
<1>6. \A r \in Review : Worths(p)[r] = Worths(o)[r] /\ Charges(p)[r] = Charges(o)[r]
  BY <1>2 DEF Worths, Charges
<1>7. Spent(p) = Spent(o) /\ Earned(p) = Earned(o) /\ Fees(p) = Fees(o)
  <2>1. Done(o, "buy") \subseteq Review /\ Done(o, "sell") \subseteq Review
    BY DEF Done
  <2>2. SumOver(Worths(p), Done(o, "buy")) = SumOver(Worths(o), Done(o, "buy"))
    BY <1>6, <2>1, SumSame
  <2>3. SumOver(Worths(p), Done(o, "sell")) = SumOver(Worths(o), Done(o, "sell"))
    BY <1>6, <2>1, SumSame
  <2>4. \A r \in Done(o, "buy") \cup Done(o, "sell") : Charges(p)[r] = Charges(o)[r]
    BY <1>6, <2>1
  <2>5. SumOver(Charges(p), Done(o, "buy") \cup Done(o, "sell")) = SumOver(Charges(o), Done(o, "buy") \cup Done(o, "sell"))
    BY <2>4, SumSame
  <2> QED
    BY <1>4, <2>2, <2>3, <2>5 DEF Spent, Earned, Fees
<1>8. IsFiniteSet(Gone(o)) /\ Gone(o) \subseteq Review
  BY <1>3, SetsOfOrders DEF Gone
<1>9. \A r \in Gone(o) \cup Out(a) : Charges(p)[r] \in Int /\ ExitWorths(p)[r] \in Int
  <2>1. \A n \in Nat : n \in Int
    OBVIOUS
  <2> QED
    BY <1>3, <1>5, <2>1, SetsOfOrders, Zenon
<1>10. ExitFees(p) = ExitFees(o) + SumOver(Charges(p), Out(a))
  <2>1. SumOver(Charges(p), Gone(o) \cup Out(a)) = SumOver(Charges(p), Gone(o)) + SumOver(Charges(p), Out(a))
    BY <1>1, <1>5, <1>8, <1>9, SumSplits
  <2>2. SumOver(Charges(p), Gone(o)) = SumOver(Charges(o), Gone(o))
    <3>1. \A r \in Gone(o) : Charges(p)[r] = Charges(o)[r]
      BY <1>6, <1>8
    <3> QED
      BY <3>1, SumSame
  <2> QED
    BY <1>5, <2>1, <2>2 DEF ExitFees
<1>11. ExitPaid(p) = ExitPaid(o) + SumOver(ExitWorths(p), Out(a))
  <2>1. SumOver(ExitWorths(p), Gone(o) \cup Out(a)) = SumOver(ExitWorths(p), Gone(o)) + SumOver(ExitWorths(p), Out(a))
    BY <1>1, <1>5, <1>8, <1>9, SumSplits
  <2>2. SumOver(ExitWorths(p), Gone(o)) = SumOver(ExitWorths(o), Gone(o))
    <3>1. \A r \in Gone(o) : r \in Review /\ p[r].request = o[r].request /\ p[r].bracket = o[r].bracket
      BY <1>2, <1>5, <1>8
    <3>2. \A r \in Gone(o) : ExitWorths(p)[r] = ExitWorths(o)[r]
      BY <3>1 DEF ExitWorths
    <3> QED
      BY <3>2, SumSame
  <2> QED
    BY <1>5, <2>1, <2>2 DEF ExitPaid
<1>12. \A r \in Out(a) : /\ Charges(p)[r] \in Int /\ Net(mark)[r] \in Int
                         /\ ExitWorths(p)[r] = Net(mark)[r] + Charges(p)[r]
  <2> TAKE r \in Out(a)
  <2> DEFINE worth == o[r].request.lots * LegPrice(o[r].request, LegAt(mark, r)) * Scale
  <2>1. r \in Review /\ o[r].bracket # "none" /\ p[r].bracket = LegAt(mark, r) /\ p[r].request = o[r].request
    BY <1>1, <1>2 DEF Hit
  <2>2. ExitWorths(p)[r] = worth
    BY <2>1 DEF ExitWorths
  <2>3. Charges(p)[r] = Fee(o[r].request) /\ Charges(p)[r] = Charges(o)[r]
    BY <1>6, <2>1 DEF Charges
  <2>4. Net(mark)[r] = worth - Fee(o[r].request)
    BY <2>1 DEF Net
  <2>5. Net(mark)[r] \in Int /\ Charges(o)[r] \in Nat /\ worth \in Nat
    BY <2>1, NetTyped
  <2> DEFINE fee == Charges(p)[r]
  <2>6. fee \in Nat /\ Net(mark)[r] = worth - fee /\ worth \in Nat
    BY <2>3, <2>4, <2>5
  <2> HIDE DEF worth, fee
  <2>7. fee \in Int /\ Net(mark)[r] \in Int /\ worth = Net(mark)[r] + fee
    BY <2>6
  <2> QED
    BY <2>2, <2>7 DEF fee
<1>13. SumOver(ExitWorths(p), Out(a)) = SumOver(Net(mark), Out(a)) + SumOver(Charges(p), Out(a))
  <2>1. \A r \in Out(a) : /\ Net(mark)[r] \in Int /\ Charges(p)[r] \in Int
                          /\ ExitWorths(p)[r] = Net(mark)[r] + Charges(p)[r]
    BY <1>12
  <2> QED
    BY <1>1, <2>1, SumPlus
<1>14. SumOver(Net(mark), Out(a)) \in Int /\ SumOver(Charges(p), Out(a)) \in Int
  BY <1>1, <1>12, SumType
<1>15. ExitFees(o) \in Int /\ ExitPaid(o) \in Int /\ ExitFees(p) \in Int /\ ExitPaid(p) \in Int
  BY <1>3, SumsTyped
<1> QED
  BY <1>7, <1>10, <1>11, <1>13, <1>14, <1>15 DEF p

\* update_marks keeps the books.
LEMMA UpdateMarksKeeps ==
  ASSUME BrokerInv, NEW mark \in [Symbol -> Mark], UpdateMarks(mark)
  PROVE  BrokerInv'
<1> DEFINE a == Sweep(mark)
<1>1. /\ UNCHANGED <<reviewed, book, settled>>
      /\ a.refused => strays < MaxStray
      /\ quote' = [i \in Instrument |-> IF i \in Symbol THEN Marked(mark[i]) ELSE quote[i]]
      /\ cash' = a.cash /\ held' = a.held /\ stray' = stray + a.stray
      /\ strays' = IF a.refused THEN strays + 1 ELSE strays
  BY DEF UpdateMarks
<1>2. /\ SweptTo(Len(book), a, mark)
      /\ \A r \in Out(a) : r \in Review /\ Hit(mark, r) /\ LegAt(mark, r) \in {"stop", "target"}
      /\ order' \in [Review -> Placed]
      /\ \A r \in Review : /\ order'[r].status = order[r].status /\ order'[r].request = order[r].request
                           /\ order'[r].price = order[r].price
                           /\ order'[r].bracket = IF r \in Out(a) THEN LegAt(mark, r) ELSE order[r].bracket
  BY MarksWritten
<1> HIDE DEF a
<1>3. a \in Account /\ a.cash = cash + SumOver(Net(mark), Out(a)) + a.stray
  BY <1>2 DEF SweptTo
<1>4. a.cash \in Int /\ a.held \in [Instrument -> Nat] /\ a.refused \in BOOLEAN /\ a.stray \in Int
  BY <1>3 DEF Account
<1>5. OrdersFine(order')
  <2>1. \A r \in Review : RowFine(order'[r])
    <3> TAKE r \in Review
    <3>1. RowFine(order[r])
      BY DEF BrokerInv, OrdersFine
    <3>2. CASE r \in Out(a)
      <4>1. order[r].bracket = "open"
        BY <1>2, <3>2 DEF Hit
      <4> QED
        BY <1>2, <3>1, <4>1 DEF RowFine
    <3>3. CASE r \notin Out(a)
      <4>1. order'[r] = order[r]
        BY <3>3, MarksWritten DEF a
      <4> QED
        BY <3>1, <4>1
    <3> QED
      BY <3>2, <3>3
  <2>2. {r \in Review : order'[r].status # "none"} = {r \in Review : order[r].status # "none"}
    BY <1>2
  <2>3. IsFiniteSet({r \in Review : order[r].status # "none"})
    BY DEF BrokerInv, OrdersFine
  <2> QED
    BY <1>2, <2>1, <2>2, <2>3 DEF OrdersFine
<1>6. BookFine(book, order')
  <2>1. BookFine(book, order) /\ \A i \in 1 .. Len(book) : book[i] \in Review
    BY DEF BrokerInv, BookFine
  <2>2. \A r \in Review : /\ order[r].bracket # "none" => order'[r].bracket # "none"
                          /\ order'[r].bracket = "open" => order[r].bracket = "open"
    BY <1>2
  <2>3. \A i \in 1 .. Len(book) : order'[book[i]].bracket # "none"
    <3>1. \A i \in 1 .. Len(book) : book[i] \in Review /\ order[book[i]].bracket # "none"
      BY <2>1 DEF BookFine
    <3> QED
      BY <2>2, <3>1, Zenon
  <2>4. \A r \in Review : order'[r].bracket = "open" => \E i \in 1 .. Len(book) : book[i] = r
    <3>1. \A r \in Review : order[r].bracket = "open" => \E i \in 1 .. Len(book) : book[i] = r
      BY <2>1 DEF BookFine
    <3> QED
      BY <2>2, <3>1, Zenon
  <2> QED
    BY <2>1, <2>3, <2>4 DEF BookFine
<1>7. TypeOK'
  <2>1. quote' \in [Instrument -> [bid : Nat, ask : Nat, intrinsic : Nat]]
    <3>1. \A i \in Symbol : Marked(mark[i]) \in [bid : Nat, ask : Nat, intrinsic : Nat]
      <4>1. \A i \in Symbol : mark[i] \in Nat
        BY MarketAssumption
      <4> QED
        BY <4>1 DEF Marked
    <3>2. quote \in [Instrument -> [bid : Nat, ask : Nat, intrinsic : Nat]]
      BY DEF BrokerInv, TypeOK
    <3> QED
      BY <1>1, <3>1, <3>2
  <2>2. strays' \in 0 .. MaxStray
    BY <1>1, <1>4, Money DEF BrokerInv, TypeOK
  <2>3. cash' \in Int /\ stray' \in Int /\ held' \in [Instrument -> Nat]
    BY <1>1, <1>4 DEF BrokerInv, TypeOK
  <2> QED
    BY <1>1, <1>2, <2>1, <2>2, <2>3 DEF BrokerInv, TypeOK
<1>8. Balance(cash', order', settled, stray')
  <2>1. /\ Spent(order') = Spent(order) /\ Earned(order') = Earned(order) /\ Fees(order') = Fees(order)
        /\ ExitFees(order') \in Int /\ ExitPaid(order') \in Int /\ SumOver(Net(mark), Out(a)) \in Int
        /\ ExitPaid(order') - ExitFees(order') = ExitPaid(order) - ExitFees(order) + SumOver(Net(mark), Out(a))
    BY <1>5, ExitsBalance DEF a
  <2>2. /\ Spent(order) \in Int /\ Fees(order) \in Int /\ ExitFees(order) \in Int /\ cash \in Int
        /\ Earned(order) \in Int /\ ExitPaid(order) \in Int /\ stray \in Int /\ StartCash \in Int
        /\ PaidOut(settled) \in Int
    BY SumsTyped, PaidTyped, Money DEF BrokerInv, TypeOK
  <2>3. cash + Spent(order) + Fees(order) + ExitFees(order)
            = StartCash + Earned(order) + ExitPaid(order) + PaidOut(settled) + stray
    BY DEF BrokerInv, Balance
  <2> DEFINE X == SumOver(Net(mark), Out(a))
  <2>4. X \in Int /\ cash' = cash + X + a.stray /\ stray' = stray + a.stray
        /\ ExitPaid(order') - ExitFees(order') = ExitPaid(order) - ExitFees(order) + X
    BY <1>1, <1>3, <2>1
  <2> HIDE DEF X
  <2>5. cash' + Spent(order) + Fees(order) + ExitFees(order')
            = StartCash + Earned(order) + ExitPaid(order') + PaidOut(settled) + stray'
    BY <1>4, <2>1, <2>2, <2>3, <2>4
  <2> QED
    BY <2>1, <2>5 DEF Balance
<1>9. OrdersFine(order)' /\ BookFine(book, order)' /\ Balance(cash, order, settled, stray)'
  BY <1>1, <1>5, <1>6, <1>8
<1> QED
  BY <1>7, <1>9 DEF BrokerInv

-----------------------------------------------------------------------------
\* No step breaks the invariant.
LEMMA BrokerStep ==
  ASSUME BrokerInv, [Next]_vars
  PROVE  BrokerInv'
<1>1. ASSUME NEW r \in Review, NEW q \in Request, ReviewOrder(r, q) \/ Rest(r, q) \/ Buy(r, q) \/ Sell(r, q)
      PROVE  BrokerInv'
  BY <1>1, ReviewOrderKeeps, RestKeeps, BuyKeeps, SellKeeps
<1>2. ASSUME NEW r \in Review, CancelOrder(r) PROVE BrokerInv'
  BY <1>2, CancelOrderKeeps
<1>3. ASSUME NEW c \in Contract, NEW quoted \in OptionQuote, UpdateOptionQuotes(c, quoted) PROVE BrokerInv'
  BY <1>3, UpdateOptionQuotesKeeps
<1>4. ASSUME NEW mark \in [Symbol -> Mark], UpdateMarks(mark) PROVE BrokerInv'
  BY <1>4, UpdateMarksKeeps
<1>5. ASSUME NEW endDay \in {Expiry[c] : c \in Contract}, SettleExpired(endDay) PROVE BrokerInv'
  BY <1>5, SettleExpiredKeeps
<1>6. CASE UNCHANGED vars
  <2>1. UNCHANGED <<cash, held, quote, reviewed, order, book, stray, strays, settled>>
    BY <1>6 DEF vars
  <2>2. TypeOK'
    BY <2>1 DEF BrokerInv, TypeOK
  <2> QED
    BY <2>1, <2>2 DEF BrokerInv
<1> QED
  BY <1>1, <1>2, <1>3, <1>4, <1>5, <1>6 DEF Next

\* The invariant holds.
LEMMA BrokerHolds == Spec => []BrokerInv
BY BrokerStart, BrokerStep, PTL DEF Spec

\* Each sum of the property, its fold unfolded, is a sum of these theorems.
LEMMA WorthUnfolds ==
  ASSUME NEW S
  PROVE  MapThenSumSet(Worth, S) = SumOver([r \in S |-> Worth(r)], S)
BY Zenon DEF SumOver, MapThenSumSet, MapThenFoldSet

LEMMA ChargeUnfolds ==
  ASSUME NEW S
  PROVE  MapThenSumSet(Charge, S) = SumOver([r \in S |-> Charge(r)], S)
BY Zenon DEF SumOver, MapThenSumSet, MapThenFoldSet

LEMMA ExitWorthUnfolds ==
  ASSUME NEW S
  PROVE  MapThenSumSet(ExitWorth, S) = SumOver([r \in S |-> ExitWorth(r)], S)
BY Zenon DEF SumOver, MapThenSumSet, MapThenFoldSet

LEMMA SettlementUnfolds ==
  ASSUME NEW S
  PROVE  MapThenSumSet(Settlement, S) = SumOver([c \in S |-> Settlement(c)], S)
BY Zenon DEF SumOver, MapThenSumSet, MapThenFoldSet

\* The sums of the invariant are those of the property.
LEMMA SumsOfTheBooks ==
  ASSUME OrdersFine(order), settled \in [Contract -> [lots : Nat, proceeds : Nat]]
  PROVE  /\ MapThenSumSet(Worth, Executed("buy")) = Spent(order)
         /\ MapThenSumSet(Worth, Executed("sell")) = Earned(order)
         /\ MapThenSumSet(Charge, Executed("buy") \cup Executed("sell")) = Fees(order)
         /\ MapThenSumSet(Charge, Exited) = ExitFees(order)
         /\ MapThenSumSet(ExitWorth, Exited) = ExitPaid(order)
         /\ MapThenSumSet(Settlement, Contract) = PaidOut(settled)
<1>1. Executed("buy") = Done(order, "buy") /\ Executed("sell") = Done(order, "sell") /\ Exited = Gone(order)
  BY DEF Executed, Done, Exited, Gone
<1>2. Done(order, "buy") \subseteq Review /\ Done(order, "sell") \subseteq Review /\ Gone(order) \subseteq Review
  BY DEF Done, Gone
<1>3. ASSUME NEW S, S \subseteq Review
      PROVE  /\ MapThenSumSet(Worth, S) = SumOver(Worths(order), S)
             /\ MapThenSumSet(Charge, S) = SumOver(Charges(order), S)
             /\ MapThenSumSet(ExitWorth, S) = SumOver(ExitWorths(order), S)
  <2> DEFINE W == [r \in S |-> Worth(r)]
             C == [r \in S |-> Charge(r)]
             E == [r \in S |-> ExitWorth(r)]
  <2>1. MapThenSumSet(Worth, S) = SumOver(W, S)
    BY WorthUnfolds
  <2>2. MapThenSumSet(Charge, S) = SumOver(C, S)
    BY ChargeUnfolds
  <2>3. MapThenSumSet(ExitWorth, S) = SumOver(E, S)
    BY ExitWorthUnfolds
  <2>4. \A r \in S : W[r] = Worths(order)[r] /\ C[r] = Charges(order)[r] /\ E[r] = ExitWorths(order)[r]
    BY <1>3 DEF Worth, Worths, Charge, Charges, ExitWorth, ExitWorths
  <2> HIDE DEF W, C, E
  <2>5. /\ SumOver(W, S) = SumOver(Worths(order), S) /\ SumOver(C, S) = SumOver(Charges(order), S)
        /\ SumOver(E, S) = SumOver(ExitWorths(order), S)
    BY <2>4, SumSame
  <2> QED
    BY <2>1, <2>2, <2>3, <2>5
<1>4. MapThenSumSet(Settlement, Contract) = SumOver(Paid(settled), Contract)
  <2> DEFINE P == [c \in Contract |-> Settlement(c)]
  <2>1. ASSUME NEW S PROVE MapThenSumSet(Settlement, S) = SumOver([c \in S |-> Settlement(c)], S)
    BY SettlementUnfolds
  <2>2. Paid(settled) = P
    BY DEF Paid, Settlement
  <2> QED
    BY <2>1, <2>2
<1>5. Done(order, "buy") \cup Done(order, "sell") \subseteq Review
  BY <1>2
<1> QED
  BY <1>1, <1>2, <1>3, <1>4, <1>5 DEF Spent, Earned, Fees, ExitFees, ExitPaid, PaidOut

\* The simulator's cash is explained by its records, for any orders, quotes, fees
\* and slippage and any sequence of calls: every fill, exit and settlement counts
\* once, and what remains is the cash of exits that were refused after they had
\* been credited.
THEOREM BooksAlwaysBalance == Spec => []BooksBalance
<1>1. BrokerInv => BooksBalance
  <2> SUFFICES ASSUME BrokerInv PROVE BooksBalance
    OBVIOUS
  <2>1. OrdersFine(order) /\ settled \in [Contract -> [lots : Nat, proceeds : Nat]] /\ Balance(cash, order, settled, stray)
    BY DEF BrokerInv, TypeOK
  <2>2. /\ MapThenSumSet(Worth, Executed("buy")) = Spent(order)
        /\ MapThenSumSet(Worth, Executed("sell")) = Earned(order)
        /\ MapThenSumSet(Charge, Executed("buy") \cup Executed("sell")) = Fees(order)
        /\ MapThenSumSet(Charge, Exited) = ExitFees(order)
        /\ MapThenSumSet(ExitWorth, Exited) = ExitPaid(order)
        /\ MapThenSumSet(Settlement, Contract) = PaidOut(settled)
    BY <2>1, SumsOfTheBooks
  <2> QED
    BY <2>1, <2>2 DEF BooksBalance, Balance
<1> QED
  BY <1>1, BrokerHolds, PTL

\* Holdings never go below zero, prices and records keep their types.
THEOREM BrokerTypesHold == Spec => []TypeOK
<1>1. BrokerInv => TypeOK
  BY DEF BrokerInv
<1> QED
  BY <1>1, BrokerHolds, PTL

\* The quotes of shares change in update_marks alone.
LEMMA QuotesOfShares ==
  ASSUME BrokerInv, [Next]_vars, NEW s \in Symbol, quote'[s] # quote[s]
  PROVE  \E mark \in [Symbol -> Mark] : UpdateMarks(mark)
<1>1. ASSUME NEW c \in Contract, NEW quoted \in OptionQuote, UpdateOptionQuotes(c, quoted) PROVE FALSE
  <2>1. s # c
    BY MarketAssumption
  <2> QED
    BY <1>1, <2>1 DEF UpdateOptionQuotes, BrokerInv, TypeOK
<1>2. ASSUME NEW r \in Review, NEW q \in Request, ReviewOrder(r, q) \/ Rest(r, q) \/ Buy(r, q) \/ Sell(r, q)
      PROVE  FALSE
  BY <1>2 DEF ReviewOrder, Rest, Buy, Sell
<1>3. ASSUME NEW r \in Review, CancelOrder(r) PROVE FALSE
  BY <1>3 DEF CancelOrder
<1>4. ASSUME NEW endDay, SettleExpired(endDay) PROVE FALSE
  BY <1>4 DEF SettleExpired
<1>5. CASE UNCHANGED vars
  BY <1>5 DEF vars
<1> QED
  BY <1>1, <1>2, <1>3, <1>4, <1>5 DEF Next

\* When update_marks returns with no exit refused, no open bracket is one the new
\* marks touch, however many brackets there are.
THEOREM TouchedBracketsLeave == Spec => TouchedBracketsExit
<1> DEFINE Exits == (\E s \in Symbol : quote'[s] # quote[s]) /\ strays' = strays => \A r \in Review : ~Touched(r)'
<1>1. BrokerInv /\ [Next]_vars => Exits
  <2> SUFFICES ASSUME BrokerInv, [Next]_vars, NEW s \in Symbol, quote'[s] # quote[s], strays' = strays,
                      NEW r \in Review
               PROVE  ~Touched(r)'
    OBVIOUS
  <2>1. PICK mark \in [Symbol -> Mark] : UpdateMarks(mark)
    BY QuotesOfShares
  <2> DEFINE a == Sweep(mark)
  <2>2. /\ SweptTo(Len(book), a, mark)
        /\ \A u \in Review : /\ order'[u].request = order[u].request
                             /\ order'[u].bracket = IF u \in Out(a) THEN LegAt(mark, u) ELSE order[u].bracket
        /\ \A u \in Out(a) : LegAt(mark, u) \in {"stop", "target"}
    BY <2>1, MarksWritten
  <2>3. /\ quote' = [i \in Instrument |-> IF i \in Symbol THEN Marked(mark[i]) ELSE quote[i]]
        /\ strays' = IF a.refused THEN strays + 1 ELSE strays
    BY <2>1 DEF UpdateMarks
  <2> HIDE DEF a
  <2>4. ~a.refused
    <3>1. a.refused \in BOOLEAN /\ strays \in Int
      BY <2>2 DEF SweptTo, Account, BrokerInv, TypeOK
    <3> QED
      BY <2>3, <3>1
  <2>5. SUFFICES ASSUME order'[r].bracket = "open", Leg(order'[r].request, quote'[order'[r].request.on].bid) # "open"
                 PROVE  FALSE
    BY DEF Touched
  <2>6. r \notin Out(a) /\ order[r].bracket = "open" /\ order'[r].request = order[r].request
    BY <2>2, <2>5
  <2>7. order[r].request.on \in Symbol
    BY <2>6, OnTheBook
  <2>8. quote'[order[r].request.on].bid = mark[order[r].request.on]
    BY <2>3, <2>7 DEF Marked, Instrument
  <2>9. Hit(mark, r)
    BY <2>5, <2>6, <2>8 DEF Hit, LegAt
  <2>10. PICK i \in 1 .. Len(book) : book[i] = r
    BY <2>6 DEF BrokerInv, BookFine
  <2>11. <<r, LegAt(mark, r)>> \in a.exits
    BY <2>2, <2>4, <2>9, <2>10 DEF SweptTo
  <2> QED
    BY <2>6, <2>11 DEF Out
<1>2. BrokerInv /\ [Next]_vars => [Exits]_vars
  BY <1>1
<1> QED
  BY <1>2, BrokerHolds, PTL DEF Spec, TouchedBracketsExit
-----------------------------------------------------------------------------
(* The desk's components side by side.                                       *)

\* What TLC explores of the desk (MCSimBroker) is what its four modules allow,
\* so the theorems above speak of it: SimulationBroker, the options programs,
\* the rules of execute_purchase and RiskEngine, and the debates are modelled
\* apart, each over state of its own.
THEOREM DeskIsItsParts == MCSpec => Spec /\ OptionsSpec /\ RulesSpec /\ DebateSpec
<1>1. MCInit => Init /\ OptionsInit /\ RulesInit /\ DebateInit
  BY DEF MCInit
<1>2. [MCNext]_allVars => [Next]_vars /\ [OptionsNext]_optionVars /\ [RulesNext]_ruleVars /\ [DebateNext]_debateVars
  <2>1. CASE UNCHANGED allVars
    BY <2>1 DEF allVars
  <2> QED
    BY <2>1 DEF MCNext
<1> QED
  BY <1>1, <1>2, PTL DEF MCSpec, Spec, OptionsSpec, RulesSpec, DebateSpec

\* No program of the desk writes anything that leaves its type, for any orders,
\* contracts, proposals and debates.
THEOREM DeskTypesKeep == MCSpec => []MCTypeOK
<1>1. TypeOK /\ OptionsTypeOK /\ RulesTypeOK /\ DebateTypeOK => MCTypeOK
  BY DEF MCTypeOK
<1> QED
  BY <1>1, DeskIsItsParts, BrokerTypesHold, OptionsTypesHold, RulesTypesHold, DebateTypesHold, PTL
=============================================================================
