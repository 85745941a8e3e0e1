---------------------------- MODULE SumTheorems ----------------------------
(***************************************************************************)
(* What MapThenSumSet of the community modules computes, for every finite   *)
(* set: the facts the other proofs cite about the sums of the models.       *)
(*                                                                          *)
(* The fold is a recursive function, so what it computes is shown by        *)
(* induction over the sets it is applied to: the strict subsets of a finite *)
(* set are well founded, and a smallest set for which a claim fails is led  *)
(* to a contradiction.                                                      *)
(***************************************************************************)
EXTENDS Integers, FiniteSetsExt, FiniteSetTheorems, TLAPS

\* The sum of F over S.
SumOver(F, S) == MapThenSumSet(LAMBDA x : F[x], S)

\* The element the fold takes out of s.
Pick(s) == CHOOSE x \in s : TRUE

\* g is the recursive function that the fold unfolds to, over the subsets of S.
IsSum(g, F, S) ==
    g = [s \in SUBSET S |-> IF s = {} THEN 0 ELSE F[Pick(s)] + g[s \ {Pick(s)}]]

-----------------------------------------------------------------------------
\* A set of finite sets has a member that no other member is part of: a claim
\* that fails for some finite set fails for a smallest one.
LEMMA SmallestSet ==
  ASSUME NEW D, NEW B, B \subseteq FiniteSubsetsOf(D), B # {}
  PROVE  \E T \in B : \A U \in B : U \subseteq T => U = T
<1>1. PICK T \in B : \A U \in B : ~(<<U, T>> \in StrictSubsetOrdering(D))
  BY FS_StrictSubsetOrderingWellFounded, WFMin, Zenon
<1>2. ASSUME NEW U \in B, U \subseteq T, U # T PROVE FALSE
  <2>1. <<U, T>> \in (SUBSET D) \X (SUBSET D)
    BY DEF FiniteSubsetsOf
  <2> QED
    BY <1>1, <1>2, <2>1 DEF StrictSubsetOrdering
<1> QED
  BY <1>2

\* MapThenSumSet with its fold unfolded.
LEMMA SumIsChosen ==
  ASSUME NEW F, NEW S
  PROVE  SumOver(F, S) = (CHOOSE g : IsSum(g, F, S))[S]
BY DEF SumOver, MapThenSumSet, MapThenFoldSet, IsSum, Pick

\* The fold takes out an element that is there.
LEMMA PickInside ==
  ASSUME NEW s, s # {}
  PROVE  Pick(s) \in s
BY DEF Pick

\* The recursions over two sets agree on what the sets share.
LEMMA SumsAgree ==
  ASSUME NEW D, IsFiniteSet(D), NEW F, NEW S \in SUBSET D, NEW T \in SUBSET D,
         NEW g, NEW h, IsSum(g, F, S), IsSum(h, F, T)
  PROVE  \A s \in SUBSET (S \cap T) : g[s] = h[s]
<1> DEFINE Bad == {s \in SUBSET (S \cap T) : g[s] # h[s]}
<1> SUFFICES ASSUME Bad # {} PROVE FALSE
  OBVIOUS
<1>1. Bad \subseteq FiniteSubsetsOf(D)
  BY FS_Subset DEF FiniteSubsetsOf
<1>2. PICK s \in Bad : \A u \in Bad : u \subseteq s => u = s
  <2> HIDE DEF Bad
  <2> QED
    BY <1>1, SmallestSet
<1>3. s # {}
  BY <1>2 DEF IsSum
<1>4. Pick(s) \in s
  BY <1>3, PickInside
<1>5. s \ {Pick(s)} \notin Bad /\ s \ {Pick(s)} \in SUBSET (S \cap T)
  BY <1>2, <1>4
<1>6. g[s \ {Pick(s)}] = h[s \ {Pick(s)}]
  BY <1>5
<1>7. g[s] = F[Pick(s)] + g[s \ {Pick(s)}] /\ h[s] = F[Pick(s)] + h[s \ {Pick(s)}]
  BY <1>2, <1>3 DEF IsSum
<1> QED
  BY <1>2, <1>6, <1>7

\* A sum exists: the recursion comes down to smaller sets.
LEMMA SumExists ==
  ASSUME NEW D, IsFiniteSet(D), NEW F
  PROVE  \A S \in SUBSET D : \E g : IsSum(g, F, S)
<1> DEFINE Bad == {S \in SUBSET D : ~ \E g : IsSum(g, F, S)}
<1> SUFFICES ASSUME Bad # {} PROVE FALSE
  OBVIOUS
<1>1. Bad \subseteq FiniteSubsetsOf(D)
  BY FS_Subset DEF FiniteSubsetsOf
<1>2. PICK T \in Bad : \A U \in Bad : U \subseteq T => U = T
  <2> HIDE DEF Bad
  <2> QED
    BY <1>1, SmallestSet
<1> DEFINE total(U) == CHOOSE g : IsSum(g, F, U)
           step(s) == IF s = {} THEN 0 ELSE F[Pick(s)] + total(s \ {Pick(s)})[s \ {Pick(s)}]
           all == [s \in SUBSET T |-> step(s)]
<1>3. ASSUME NEW U \in SUBSET T, U # T PROVE IsSum(total(U), F, U)
  BY <1>2, <1>3
<1>4. ASSUME NEW s \in SUBSET T, s # {} PROVE all[s \ {Pick(s)}] = total(s \ {Pick(s)})[s \ {Pick(s)}]
  <2> DEFINE U == s \ {Pick(s)}
             V == U \ {Pick(U)}
  <2>1. Pick(s) \in s
    BY <1>4, PickInside
  <2>2. U \in SUBSET T /\ U # T
    BY <2>1
  <2>3. IsSum(total(U), F, U)
    BY <1>3, <2>2
  <2>4. CASE U = {}
    <3>1. total(U)[U] = 0
      BY <2>3, <2>4 DEF IsSum
    <3> QED
      BY <2>4, <3>1
  <2>5. CASE U # {}
    <3>1. Pick(U) \in U
      BY <2>5, PickInside
    <3>2. V \in SUBSET T /\ V # T
      BY <2>2, <3>1
    <3>3. IsSum(total(V), F, V)
      BY <1>3, <3>2
    <3>4. V \in SUBSET (U \cap V) /\ U \in SUBSET D /\ V \in SUBSET D
      BY <1>2, <2>2, <3>2
    <3>5. total(U)[V] = total(V)[V]
      <4> HIDE DEF total, U, V
      <4> QED
        BY <2>3, <3>3, <3>4, SumsAgree
    <3>6. total(U)[U] = F[Pick(U)] + total(U)[V]
      <4> HIDE DEF total
      <4> QED
        BY <2>3, <2>5 DEF IsSum
    <3>7. all[U] = F[Pick(U)] + total(V)[V]
      <4> HIDE DEF total
      <4> QED
        BY <2>2, <2>5
    <3> QED
      BY <3>5, <3>6, <3>7
  <2> QED
    BY <2>4, <2>5
<1>5. IsSum(all, F, T)
  <2>1. ASSUME NEW s \in SUBSET T
        PROVE  all[s] = IF s = {} THEN 0 ELSE F[Pick(s)] + all[s \ {Pick(s)}]
    <3> HIDE DEF total
    <3> QED
      BY <1>4
  <2> HIDE DEF all, total, step
  <2>2. all = [s \in SUBSET T |-> all[s]]
    BY DEF all
  <2> QED
    BY <2>1, <2>2 DEF IsSum
<1> QED
  BY <1>2, <1>5

\* The recursion that MapThenSumSet unfolds to.
LEMMA SumUnfolds ==
  ASSUME NEW S, IsFiniteSet(S), S # {}, NEW F
  PROVE  SumOver(F, S) = F[Pick(S)] + SumOver(F, S \ {Pick(S)})
<1> DEFINE g == CHOOSE f : IsSum(f, F, S)
           U == S \ {Pick(S)}
           h == CHOOSE f : IsSum(f, F, U)
<1>1. IsSum(g, F, S) /\ IsSum(h, F, U)
  BY SumExists
<1>2. g[S] = F[Pick(S)] + g[U]
  <2> HIDE DEF g
  <2> QED
    BY <1>1 DEF IsSum
<1>3. g[U] = h[U]
  <2> HIDE DEF g, h
  <2>1. S \in SUBSET S /\ U \in SUBSET S /\ U \in SUBSET (S \cap U)
    OBVIOUS
  <2> HIDE DEF U
  <2> QED
    BY <1>1, <2>1, SumsAgree
<1> QED
  BY <1>2, <1>3, SumIsChosen

\* Nothing adds up to zero.
LEMMA SumOfNone ==
  ASSUME NEW F
  PROVE  SumOver(F, {}) = 0
<1>1. IsFiniteSet({})
  BY FS_EmptySet
<1>2. \E g : IsSum(g, F, {})
  BY <1>1, SumExists
<1>3. IsSum(CHOOSE g : IsSum(g, F, {}), F, {})
  BY <1>2
<1> QED
  BY <1>3, SumIsChosen DEF IsSum

\* Whatever element is taken out first, the rest is the same.
LEMMA SumTakesOne ==
  ASSUME NEW S, IsFiniteSet(S), NEW F, \A x \in S : F[x] \in Int
  PROVE  SumOver(F, S) \in Int /\ \A y \in S : SumOver(F, S) = F[y] + SumOver(F, S \ {y})
<1> DEFINE Good(T) == /\ SumOver(F, T) \in Int
                      /\ \A y \in T : SumOver(F, T) = F[y] + SumOver(F, T \ {y})
           Bad == {T \in SUBSET S : ~Good(T)}
<1> SUFFICES ASSUME Bad # {} PROVE FALSE
  OBVIOUS
<1>1. Bad \subseteq FiniteSubsetsOf(S)
  BY FS_Subset DEF FiniteSubsetsOf
<1>2. PICK T \in Bad : \A U \in Bad : U \subseteq T => U = T
  <2> HIDE DEF Bad
  <2> QED
    BY <1>1, SmallestSet
<1>3. ASSUME NEW U \in SUBSET T, U # T PROVE Good(U)
  BY <1>2, <1>3
<1>4. T # {}
  <2>1. Good({})
    BY SumOfNone
  <2> QED
    BY <1>2, <2>1
<1> DEFINE x == Pick(T)
<1>5. x \in T /\ IsFiniteSet(T)
  BY <1>2, <1>4, PickInside, FS_Subset
<1>6. SumOver(F, T) = F[x] + SumOver(F, T \ {x})
  BY <1>4, <1>5, SumUnfolds
<1>7. SumOver(F, T) \in Int
  BY <1>2, <1>3, <1>5, <1>6
<1>8. ASSUME NEW y \in T, y # x PROVE SumOver(F, T) = F[y] + SumOver(F, T \ {y})
  <2>1. SumOver(F, T \ {x}) = F[y] + SumOver(F, (T \ {x}) \ {y})
    BY <1>3, <1>5, <1>8
  <2>2. SumOver(F, T \ {y}) = F[x] + SumOver(F, (T \ {y}) \ {x})
    BY <1>3, <1>5, <1>8
  <2>3. (T \ {x}) \ {y} = (T \ {y}) \ {x}
    OBVIOUS
  <2>4. F[x] \in Int /\ F[y] \in Int
    BY <1>2, <1>5
  <2>5. SumOver(F, (T \ {y}) \ {x}) \in Int
    BY <1>3, <1>5
  <2> HIDE DEF x, Bad
  <2> DEFINE rest == SumOver(F, (T \ {y}) \ {x})
  <2>6. SumOver(F, T \ {x}) = F[y] + rest /\ SumOver(F, T \ {y}) = F[x] + rest /\ rest \in Int
    BY <2>1, <2>2, <2>3, <2>5
  <2> HIDE DEF rest
  <2> QED
    BY <1>6, <2>4, <2>6
<1> QED
  BY <1>2, <1>6, <1>7, <1>8

-----------------------------------------------------------------------------
\* A sum of integers is one.
THEOREM SumType ==
  ASSUME NEW S, IsFiniteSet(S), NEW F, \A x \in S : F[x] \in Int
  PROVE  SumOver(F, S) \in Int
BY SumTakesOne

\* One element more adds its value.
THEOREM SumAdds ==
  ASSUME NEW S, IsFiniteSet(S), NEW y, y \notin S, NEW F, \A x \in S \cup {y} : F[x] \in Int
  PROVE  SumOver(F, S \cup {y}) = SumOver(F, S) + F[y]
<1>1. IsFiniteSet(S \cup {y}) /\ (S \cup {y}) \ {y} = S
  BY FS_AddElement
<1>2. SumOver(F, S \cup {y}) = F[y] + SumOver(F, S)
  <2>1. \A z \in S \cup {y} : SumOver(F, S \cup {y}) = F[z] + SumOver(F, (S \cup {y}) \ {z})
    BY <1>1, SumTakesOne
  <2> QED
    BY <1>1, <2>1
<1> QED
  BY <1>2, SumType

\* The sum is a matter of the values on the set alone.
THEOREM SumSame ==
  ASSUME NEW S, NEW F, NEW G, \A x \in S : F[x] = G[x]
  PROVE  SumOver(F, S) = SumOver(G, S)
<1>1. ASSUME NEW g PROVE IsSum(g, F, S) <=> IsSum(g, G, S)
  <2>1. \A s \in SUBSET S : s # {} => F[Pick(s)] = G[Pick(s)]
    BY PickInside
  <2> QED
    BY <2>1 DEF IsSum
<1>2. (CHOOSE g : IsSum(g, F, S)) = (CHOOSE g : IsSum(g, G, S))
  BY <1>1, Zenon
<1> QED
  BY <1>2, SumIsChosen

\* A sum of naturals is one.
THEOREM SumNat ==
  ASSUME NEW S, IsFiniteSet(S), NEW F, \A x \in S : F[x] \in Nat
  PROVE  SumOver(F, S) \in Nat
<1> DEFINE Bad == {T \in SUBSET S : SumOver(F, T) \notin Nat}
<1> SUFFICES ASSUME Bad # {} PROVE FALSE
  OBVIOUS
<1>1. Bad \subseteq FiniteSubsetsOf(S)
  BY FS_Subset DEF FiniteSubsetsOf
<1>2. PICK T \in Bad : \A U \in Bad : U \subseteq T => U = T
  <2> HIDE DEF Bad
  <2> QED
    BY <1>1, SmallestSet
<1>3. T # {}
  <2>1. {} \notin Bad
    BY SumOfNone
  <2> QED
    BY <1>2, <2>1
<1>4. PICK y \in T : TRUE
  BY <1>3
<1>5. SumOver(F, T) = F[y] + SumOver(F, T \ {y})
  <2>1. IsFiniteSet(T) /\ \A x \in T : F[x] \in Int
    BY <1>2, FS_Subset
  <2> QED
    BY <2>1, SumTakesOne
<1>6. SumOver(F, T \ {y}) \in Nat
  BY <1>2
<1> QED
  BY <1>2, <1>5, <1>6

\* More summands, none of them negative, do not make less.
THEOREM SumGrows ==
  ASSUME NEW S, IsFiniteSet(S), NEW T, T \subseteq S, NEW F, \A x \in S : F[x] \in Nat
  PROVE  SumOver(F, T) <= SumOver(F, S)
<1> DEFINE Bad == {U \in SUBSET S : T \subseteq U /\ ~(SumOver(F, T) <= SumOver(F, U))}
<1> SUFFICES ASSUME Bad # {} PROVE FALSE
  OBVIOUS
<1>1. Bad \subseteq FiniteSubsetsOf(S)
  BY FS_Subset DEF FiniteSubsetsOf
<1>2. PICK U \in Bad : \A V \in Bad : V \subseteq U => V = U
  <2> HIDE DEF Bad
  <2> QED
    BY <1>1, SmallestSet
<1>3. \A V \in SUBSET S : SumOver(F, V) \in Nat
  BY FS_Subset, SumNat
<1>4. U # T
  BY <1>2, <1>3
<1>5. PICK y \in U \ T : TRUE
  BY <1>2, <1>4
<1>6. SumOver(F, U) = F[y] + SumOver(F, U \ {y})
  <2>1. IsFiniteSet(U) /\ \A x \in U : F[x] \in Int
    BY <1>2, FS_Subset
  <2> QED
    BY <2>1, <1>5, SumTakesOne
<1>7. SumOver(F, T) <= SumOver(F, U \ {y})
  BY <1>2, <1>5
<1>8. F[y] \in Nat /\ SumOver(F, U \ {y}) \in Nat /\ SumOver(F, T) \in Nat
  BY <1>2, <1>3, <1>5
<1> QED
  BY <1>2, <1>6, <1>7, <1>8

\* One summand changes.
THEOREM SumChanges ==
  ASSUME NEW S, IsFiniteSet(S), NEW y \in S, NEW F, NEW G,
         \A x \in S : F[x] \in Int /\ G[x] \in Int, \A x \in S \ {y} : G[x] = F[x]
  PROVE  SumOver(G, S) = SumOver(F, S) - F[y] + G[y]
<1>1. SumOver(F, S) = F[y] + SumOver(F, S \ {y}) /\ SumOver(G, S) = G[y] + SumOver(G, S \ {y})
  BY SumTakesOne
<1>2. SumOver(G, S \ {y}) = SumOver(F, S \ {y})
  BY SumSame
<1>3. SumOver(F, S \ {y}) \in Int
  BY FS_RemoveElement, SumType
<1> QED
  BY <1>1, <1>2, <1>3
\* Summands that are zero do not count.
THEOREM SumSkipsZeros ==
  ASSUME NEW S, IsFiniteSet(S), NEW T, T \subseteq S, NEW F, \A x \in S : F[x] \in Int,
         \A x \in S \ T : F[x] = 0
  PROVE  SumOver(F, S) = SumOver(F, T)
<1> DEFINE Bad == {U \in SUBSET S : T \subseteq U /\ SumOver(F, U) # SumOver(F, T)}
<1> SUFFICES ASSUME Bad # {} PROVE FALSE
  OBVIOUS
<1>1. Bad \subseteq FiniteSubsetsOf(S)
  BY FS_Subset DEF FiniteSubsetsOf
<1>2. PICK U \in Bad : \A V \in Bad : V \subseteq U => V = U
  <2> HIDE DEF Bad
  <2> QED
    BY <1>1, SmallestSet
<1>3. PICK y \in U \ T : TRUE
  <2>1. T \subseteq U /\ U # T
    BY <1>2
  <2> QED
    BY <2>1
<1>4. SumOver(F, U) = F[y] + SumOver(F, U \ {y}) /\ SumOver(F, U \ {y}) \in Int
  <2>1. IsFiniteSet(U) /\ \A x \in U : F[x] \in Int
    BY <1>2, FS_Subset
  <2>2. IsFiniteSet(U \ {y}) /\ \A x \in U \ {y} : F[x] \in Int
    BY <2>1, FS_RemoveElement
  <2> QED
    BY <2>1, <2>2, <1>3, SumTakesOne, SumType
<1>5. SumOver(F, U \ {y}) = SumOver(F, T)
  BY <1>2, <1>3
<1>6. F[y] = 0
  BY <1>2, <1>3
<1> QED
  BY <1>2, <1>4, <1>5, <1>6

\* Summands that are each at most M times others' add up to at most M times
\* as much.
THEOREM SumAtMost ==
  ASSUME NEW S, IsFiniteSet(S), NEW F, NEW G, NEW M \in Nat,
         \A x \in S : F[x] \in Int /\ G[x] \in Int /\ F[x] <= M * G[x]
  PROVE  SumOver(F, S) <= M * SumOver(G, S)
<1> DEFINE Bad == {U \in SUBSET S : ~(SumOver(F, U) <= M * SumOver(G, U))}
<1> SUFFICES ASSUME Bad # {} PROVE FALSE
  OBVIOUS
<1>1. Bad \subseteq FiniteSubsetsOf(S)
  BY FS_Subset DEF FiniteSubsetsOf
<1>2. PICK U \in Bad : \A V \in Bad : V \subseteq U => V = U
  <2> HIDE DEF Bad
  <2> QED
    BY <1>1, SmallestSet
<1>3. U # {}
  <2>1. SumOver(F, {}) = 0 /\ SumOver(G, {}) = 0 /\ 0 <= M * 0
    BY SumOfNone
  <2> QED
    BY <1>2, <2>1
<1>4. PICK y \in U : TRUE
  BY <1>3
<1>5. IsFiniteSet(U) /\ IsFiniteSet(U \ {y}) /\ U \subseteq S
  BY <1>2, FS_Subset, FS_RemoveElement
<1>6. /\ SumOver(F, U) = F[y] + SumOver(F, U \ {y})
      /\ SumOver(G, U) = G[y] + SumOver(G, U \ {y})
  BY <1>4, <1>5, SumTakesOne
<1>7. SumOver(F, U \ {y}) \in Int /\ SumOver(G, U \ {y}) \in Int
  BY <1>5, SumType
<1>8. SumOver(F, U \ {y}) <= M * SumOver(G, U \ {y})
  BY <1>2, <1>4
<1>9. ASSUME NEW f \in Int, NEW g \in Int, NEW p \in Int, NEW q \in Int, f <= M * g, p <= M * q
      PROVE  f + p <= M * (g + q)
  BY <1>9
<1> QED
  BY <1>2, <1>4, <1>5, <1>6, <1>7, <1>8, <1>9

\* A cardinality is a sum of ones.
THEOREM SumCounts ==
  ASSUME NEW S, IsFiniteSet(S), NEW F, \A x \in S : F[x] = 1
  PROVE  SumOver(F, S) = Cardinality(S)
<1> DEFINE Bad == {U \in SUBSET S : SumOver(F, U) # Cardinality(U)}
<1> SUFFICES ASSUME Bad # {} PROVE FALSE
  OBVIOUS
<1>1. Bad \subseteq FiniteSubsetsOf(S)
  BY FS_Subset DEF FiniteSubsetsOf
<1>2. PICK U \in Bad : \A V \in Bad : V \subseteq U => V = U
  <2> HIDE DEF Bad
  <2> QED
    BY <1>1, SmallestSet
<1>3. U # {}
  BY <1>2, SumOfNone, FS_EmptySet
<1>4. PICK y \in U : TRUE
  BY <1>3
<1>5. IsFiniteSet(U) /\ U \subseteq S
  BY <1>2, FS_Subset
<1>6. SumOver(F, U) = F[y] + SumOver(F, U \ {y})
  BY <1>4, <1>5, SumTakesOne
<1>7. SumOver(F, U \ {y}) = Cardinality(U \ {y})
  BY <1>2, <1>4
<1>8. Cardinality(U \ {y}) = Cardinality(U) - 1 /\ Cardinality(U) \in Nat
  BY <1>4, <1>5, FS_RemoveElement, FS_CardinalityType
<1> QED
  BY <1>2, <1>4, <1>5, <1>6, <1>7, <1>8

\* Sums add up summand by summand.
THEOREM SumPlus ==
  ASSUME NEW S, IsFiniteSet(S), NEW F, NEW G, NEW H,
         \A x \in S : F[x] \in Int /\ G[x] \in Int /\ H[x] = F[x] + G[x]
  PROVE  SumOver(H, S) = SumOver(F, S) + SumOver(G, S)
<1> DEFINE Bad == {T \in SUBSET S : SumOver(H, T) # SumOver(F, T) + SumOver(G, T)}
<1> SUFFICES ASSUME Bad # {} PROVE FALSE
  OBVIOUS
<1>1. Bad \subseteq FiniteSubsetsOf(S)
  BY FS_Subset DEF FiniteSubsetsOf
<1>2. PICK T \in Bad : \A U \in Bad : U \subseteq T => U = T
  <2> HIDE DEF Bad
  <2> QED
    BY <1>1, SmallestSet
<1>3. T # {}
  <2>1. SumOver(F, {}) = 0 /\ SumOver(G, {}) = 0 /\ SumOver(H, {}) = 0
    BY SumOfNone
  <2>2. {} \notin Bad
    BY <2>1
  <2> QED
    BY <1>2, <2>2
<1>4. PICK y \in T : TRUE
  BY <1>3
<1>5. T \in SUBSET S /\ IsFiniteSet(T) /\ IsFiniteSet(T \ {y})
  BY <1>2, FS_Subset
<1> DEFINE U == T \ {y}
<1>6. SumOver(H, U) = SumOver(F, U) + SumOver(G, U)
  BY <1>2, <1>4
<1>7. F[y] \in Int /\ G[y] \in Int /\ H[y] = F[y] + G[y]
  BY <1>4, <1>5
<1>8. /\ \A x \in T : F[x] \in Int
      /\ \A x \in T : G[x] \in Int
      /\ \A x \in T : H[x] \in Int
  BY <1>5
<1> HIDE DEF Bad
<1>9. /\ SumOver(F, T) = F[y] + SumOver(F, U)
      /\ SumOver(G, T) = G[y] + SumOver(G, U)
      /\ SumOver(H, T) = H[y] + SumOver(H, U)
  BY <1>4, <1>5, <1>8, SumTakesOne
<1>10. SumOver(F, U) \in Int /\ SumOver(G, U) \in Int
  BY <1>5, <1>8, SumType
<1>11. SumOver(H, T) = SumOver(F, T) + SumOver(G, T)
  <2> HIDE DEF U
  <2> QED
    BY <1>6, <1>7, <1>9, <1>10
<1> QED
  BY <1>2, <1>11 DEF Bad

\* A sum over two sets that share nothing is the sum of their sums.
THEOREM SumSplits ==
  ASSUME NEW S, IsFiniteSet(S), NEW T, IsFiniteSet(T), S \cap T = {},
         NEW F, \A x \in S \cup T : F[x] \in Int
  PROVE  SumOver(F, S \cup T) = SumOver(F, S) + SumOver(F, T)
<1> DEFINE A == [x \in S \cup T |-> IF x \in S THEN F[x] ELSE 0]
           B == [x \in S \cup T |-> IF x \in S THEN 0 ELSE F[x]]
<1>1. IsFiniteSet(S \cup T)
  BY FS_Union
<1>2. /\ \A x \in S \cup T : A[x] \in Int /\ B[x] \in Int /\ F[x] = A[x] + B[x]
      /\ \A x \in S : A[x] = F[x]
      /\ \A x \in T : B[x] = F[x]
      /\ \A x \in (S \cup T) \ S : A[x] = 0
      /\ \A x \in (S \cup T) \ T : B[x] = 0
  OBVIOUS
<1> HIDE DEF A, B
<1>3. SumOver(F, S \cup T) = SumOver(A, S \cup T) + SumOver(B, S \cup T)
  BY <1>1, <1>2, SumPlus
<1>4. SumOver(A, S \cup T) = SumOver(A, S) /\ SumOver(B, S \cup T) = SumOver(B, T)
  <2>1. SumOver(A, S \cup T) = SumOver(A, S)
    BY <1>1, <1>2, SumSkipsZeros
  <2>2. SumOver(B, S \cup T) = SumOver(B, T)
    BY <1>1, <1>2, SumSkipsZeros
  <2> QED
    BY <2>1, <2>2
<1>5. SumOver(A, S) = SumOver(F, S) /\ SumOver(B, T) = SumOver(F, T)
  BY <1>2, SumSame
<1> QED
  BY <1>3, <1>4, <1>5
=============================================================================
