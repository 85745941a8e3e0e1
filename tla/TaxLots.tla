------------------------------ MODULE TaxLots ------------------------------
(***************************************************************************)
(* Which lots a sale is charged to (account_for_sale) and in what order     *)
(* (rank_lots_for_tax_aware_sale): losses first, then long-term gains, then *)
(* short-term ones, the smaller gain before the larger.                     *)
(***************************************************************************)
EXTENDS Integers, FiniteSets, FiniteSetsExt

CONSTANTS
    MaxLots,     \* bound: lots of a position
    MaxShares,   \* bound: shares of a lot
    Gain         \* unrealised gains of a lot that are told apart

ASSUME TaxLotAssumption == MaxLots \in Nat /\ MaxShares \in Nat /\ Gain \subseteq Int

VARIABLE
    sale  \* the last sale that was accounted for

TaxLot == [shares : 1 .. MaxShares, gain : Gain, longTerm : BOOLEAN]

NoSale == [lots |-> <<>>, wanted |-> 0, used |-> <<>>]

\* The key of the sort: False comes before True.
Before(l, m) ==
    \/ l.gain < 0 /\ m.gain >= 0
    \/ (l.gain >= 0) = (m.gain >= 0) /\ l.longTerm /\ ~m.longTerm
    \/ (l.gain >= 0) = (m.gain >= 0) /\ l.longTerm = m.longTerm /\ l.gain < m.gain

\* bug: the rank is turned round
RankedLast(lots, m, l) ==
    Before(lots[l], lots[m]) \/ (~Before(lots[m], lots[l]) /\ m < l)

\* Lot m comes before lot l; the sort is stable.
RankedFirst(lots, m, l) ==
    Before(lots[m], lots[l]) \/ (~Before(lots[l], lots[m]) /\ m < l)

Shares(lots, S) == MapThenSumSet(LAMBDA i : lots[i].shares, S)

\* What the loop has left of the sale when it comes to a lot, at the most: a
\* lot gives all it has until the sale is covered, then the rest.
Remaining(lots, wanted, l) ==
    wanted - Shares(lots, {m \in DOMAIN lots : RankedFirst(lots, m, l)})

Used(lots, wanted) ==
    [l \in DOMAIN lots |-> Max({0, Min({lots[l].shares, Remaining(lots, wanted, l)})})]

\* A sale of more than the lots hold is refused.
AccountForSale(lots, wanted) ==
    /\ wanted > 0
    /\ wanted <= Shares(lots, DOMAIN lots)
    /\ sale' = [lots |-> lots, wanted |-> wanted, used |-> Used(lots, wanted)]

TaxInit == sale = NoSale

TaxNext ==
    \E n \in 1 .. MaxLots : \E lots \in [1 .. n -> TaxLot] :
        \E wanted \in 1 .. MaxLots * MaxShares : AccountForSale(lots, wanted)

TaxSpec == TaxInit /\ [][TaxNext]_sale

-----------------------------------------------------------------------------
(* The lots a sale is charged to add up to it, none gives more than it has,  *)
(* and no gain is realised while a loss is left, nor a short-term gain while *)
(* a long-term one is (docstring of rank_lots_for_tax_aware_sale).           *)
SaleIsCovered ==
    LET gain(i) == sale.lots[i].gain >= 0
        spare(i) == sale.used[i] < sale.lots[i].shares
    IN  /\ MapThenSumSet(LAMBDA i : sale.used[i], DOMAIN sale.used) = sale.wanted
        /\ \A i \in DOMAIN sale.used : sale.used[i] \in 0 .. sale.lots[i].shares
        /\ \A i, j \in DOMAIN sale.used :
               sale.used[i] > 0 /\ gain(i) /\ spare(j) =>
                   gain(j) /\ (sale.lots[j].longTerm => sale.lots[i].longTerm)
=============================================================================
