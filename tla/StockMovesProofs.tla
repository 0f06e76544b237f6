-------------------------- MODULE StockMovesProofs --------------------------
(***************************************************************************)
(* What one stock movement returns, preserves and bounds, for every        *)
(* quantity and every row: the lemmas the proofs about the stock engine    *)
(* rest on.                                                                *)
(***************************************************************************)
EXTENDS StockMoves, Functions, FiniteSetTheorems, TLAPS

\* A movement whose quantity the callers have validated.
ValidMove(m) ==
  /\ m.kind \in Kinds
  /\ m.qty \in Int
  /\ m.kind \notin SignedKinds => m.qty \in Nat

\* The ledger tracks available alone, and a movement that does not write
\* available records a delta of zero: in every case the movement leaves
\* available on its BalanceAfter.
LEMMA WrittenAvailable ==
  ASSUME NEW m, ValidMove(m), NEW row \in Row
  PROVE  /\ Written(m, row, row).available = BalanceAfter(m, row)
         /\ BalanceAfter(m, row) \in Int
         /\ AvailableDelta(m) \in Int
<1>1. AvailableDelta(m) \in Int
  BY DEF ValidMove, AvailableDelta
<1>2. row.available \in Int
  BY DEF Row
<1>3. CASE WritesAvailable(m.kind)
  BY <1>1, <1>2, <1>3 DEF Written, BalanceAfter
<1>4. CASE ~WritesAvailable(m.kind)
  <2>1. AvailableDelta(m) = 0
    BY <1>4 DEF WritesAvailable, AvailableDelta
  <2>2. BalanceAfter(m, row) = row.available
    BY <1>2, <2>1 DEF BalanceAfter
  <2> QED
    BY <1>1, <1>2, <1>4, <2>2 DEF Written
<1> QED
  BY <1>3, <1>4

\* The clamps keep the reserved, damaged and incoming buckets at zero or
\* above, so a movement made on a row leaves a row.
LEMMA WrittenIsRow ==
  ASSUME NEW m, ValidMove(m), NEW row \in Row
  PROVE  Written(m, row, row) \in Row
<1>1. /\ row.available \in Int /\ row.reserved \in Nat
      /\ row.damaged \in Nat /\ row.incoming \in Nat
  BY DEF Row
<1> DEFINE w == Written(m, row, row)
<1>2. w.available \in Int
  BY WrittenAvailable
<1>3. w.reserved \in Nat
  BY <1>1 DEF ValidMove, Written, ReservedAfter, ClampedMinus, AtLeastZero, SignedKinds
<1>4. w.damaged \in Nat
  BY <1>1 DEF ValidMove, Written, ClampWriteOffQuantity, DamagedIn, AtLeastZero,
              Lesser, SignedKinds
<1>5. w.incoming \in Nat
  BY <1>1 DEF ValidMove, Written, ClampedMinus, AtLeastZero, SignedKinds
<1>6. w = [available |-> w.available, reserved |-> w.reserved,
           damaged |-> w.damaged, incoming |-> w.incoming]
  BY DEF Written
<1> QED
  BY <1>2, <1>3, <1>4, <1>5, <1>6 DEF Row

\* What a movement appends to the ledger continues the chain from the
\* available stock it read, and ends on the available stock it writes.
LEMMA LedgerRowsContinue ==
  ASSUME NEW m, ValidMove(m), NEW row \in Row
  PROVE  /\ LedgerRows(m, row) \in Seq(Entry)
         /\ ChainFrom(row.available, LedgerRows(m, row))
         /\ LastBalance(row.available, LedgerRows(m, row)) = BalanceAfter(m, row)
<1>1. row.available \in Int
  BY DEF Row
<1>2. /\ BalanceAfter(m, row) \in Int
      /\ AvailableDelta(m) \in Int
  BY WrittenAvailable
<1>3. CASE m.kind = "INCOMING"
  <2>1. LedgerRows(m, row) = << >>
    BY <1>3 DEF LedgerRows
  <2>2. AvailableDelta(m) = 0
    BY <1>3 DEF AvailableDelta
  <2> QED
    BY <1>1, <2>1, <2>2 DEF ChainFrom, LastBalance, BalanceAfter
<1>4. CASE m.kind # "INCOMING"
  <2> DEFINE e == [kind |-> m.kind, delta |-> AvailableDelta(m),
                   balanceAfter |-> BalanceAfter(m, row)]
  <2>1. LedgerRows(m, row) = <<e>>
    BY <1>4 DEF LedgerRows
  <2>2. e \in Entry
    BY <1>2 DEF Entry, ValidMove
  <2>3. e.balanceAfter = e.delta + row.available
    BY <1>1, <1>2 DEF BalanceAfter
  <2>4. e.balanceAfter = BalanceAfter(m, row)
    OBVIOUS
  <2> HIDE DEF e
  <2> QED
    BY <2>1, <2>2, <2>3, <2>4 DEF ChainFrom, LastBalance
<1> QED
  BY <1>3, <1>4

LEMMA LastBalanceType ==
  ASSUME NEW b \in Int, NEW s \in Seq(Entry)
  PROVE  LastBalance(b, s) \in Int
<1>1. CASE s = << >>
  BY <1>1 DEF LastBalance
<1>2. CASE s # << >>
  <2>1. s[Len(s)] \in Entry
    BY <1>2
  <2> QED
    BY <1>2, <2>1 DEF LastBalance, Entry
<1> QED
  BY <1>1, <1>2

\* Two ledgers, the second of which starts from the balance the first ends
\* on, make one ledger.
LEMMA ChainConcat ==
  ASSUME NEW b \in Int, NEW s \in Seq(Entry), NEW r \in Seq(Entry),
         ChainFrom(b, s), ChainFrom(LastBalance(b, s), r)
  PROVE  /\ s \o r \in Seq(Entry)
         /\ ChainFrom(b, s \o r)
         /\ LastBalance(b, s \o r) = LastBalance(LastBalance(b, s), r)
<1>1. /\ s \o r \in Seq(Entry)
      /\ Len(s \o r) = Len(s) + Len(r)
      /\ \A i \in 1..(Len(s) + Len(r)) :
           (s \o r)[i] = IF i <= Len(s) THEN s[i] ELSE r[i - Len(s)]
  OBVIOUS
<1>2. /\ Len(s) \in Nat /\ Len(r) \in Nat
      /\ DOMAIN s = 1..Len(s) /\ DOMAIN r = 1..Len(r)
      /\ DOMAIN (s \o r) = 1..(Len(s) + Len(r))
  BY <1>1
<1>3. /\ s = << >> <=> Len(s) = 0
      /\ r = << >> <=> Len(r) = 0
      /\ s \o r = << >> <=> Len(s) + Len(r) = 0
  BY <1>1, <1>2
<1>4. LastBalance(b, s \o r) = LastBalance(LastBalance(b, s), r)
  BY <1>1, <1>2, <1>3 DEF LastBalance
<1>5. ASSUME NEW i \in DOMAIN (s \o r)
      PROVE  (s \o r)[i].balanceAfter =
               (s \o r)[i].delta +
                 (IF i = 1 THEN b ELSE (s \o r)[i - 1].balanceAfter)
  <2>1. CASE i <= Len(s)
    BY <1>1, <1>2, <2>1 DEF ChainFrom
  <2>2. CASE i = Len(s) + 1
    <3>1. 1 \in DOMAIN r /\ (s \o r)[i] = r[1]
      BY <1>1, <1>2, <2>2
    <3>2. r[1].balanceAfter = r[1].delta + LastBalance(b, s)
      BY <3>1 DEF ChainFrom
    <3>3. LastBalance(b, s) = IF i = 1 THEN b ELSE (s \o r)[i - 1].balanceAfter
      BY <1>1, <1>2, <1>3, <2>2 DEF LastBalance
    <3> QED
      BY <3>1, <3>2, <3>3
  <2>3. CASE i > Len(s) + 1
    <3> DEFINE j == i - Len(s)
    <3>1. j \in DOMAIN r /\ j # 1 /\ (s \o r)[i] = r[j] /\ (s \o r)[i - 1] = r[j - 1]
      BY <1>1, <1>2, <2>3
    <3>2. r[j].balanceAfter = r[j].delta + r[j - 1].balanceAfter
      BY <3>1 DEF ChainFrom
    <3>3. i # 1
      BY <1>2, <2>3
    <3> QED
      BY <3>1, <3>2, <3>3
  <2> QED
    BY <1>2, <2>1, <2>2, <2>3
<1>6. ChainFrom(b, s \o r)
  BY <1>5 DEF ChainFrom
<1> QED
  BY <1>1, <1>4, <1>6

-----------------------------------------------------------------------------
(* Sums over finite sets: Functions' SumFunctionOnSet folds over a set in   *)
(* an order of its own choosing.  That it has a value at all, and that the  *)
(* order makes no difference, is proved by induction on the size of the     *)
(* set; stated for sets of numbers and sets of sets, the induction needs no *)
(* operator as a parameter.                                                 *)

\* Induction over the natural numbers, for a set of numbers.
LEMMA NatSetInduction ==
  ASSUME NEW T, 0 \in T, \A n \in Nat : n \in T => n + 1 \in T
  PROVE  \A n \in Nat : n \in T
<1> DEFINE Bad == Nat \ T
<1>1. SUFFICES ASSUME Bad # {} PROVE FALSE
  OBVIOUS
<1>2. PICK x \in Bad : \A y \in Bad : ~(<<y, x>> \in OpToRel(<, Nat))
  BY <1>1, WFMin, NatLessThanWellFounded
<1>3. x \in Nat /\ x # 0
  OBVIOUS
<1>4. x - 1 \in Nat /\ x - 1 < x
  BY <1>3
<1>5. <<x - 1, x>> \in OpToRel(<, Nat)
  BY <1>3, <1>4 DEF OpToRel
<1>6. x - 1 \notin Bad
  BY <1>2, <1>5
<1>7. x - 1 \in T
  BY <1>4, <1>6
<1>8. (x - 1) + 1 \in T
  BY <1>4, <1>7
<1>9. (x - 1) + 1 = x
  BY <1>3
<1> QED
  BY <1>8, <1>9

\* Induction over the subsets of a finite set, for a set of sets.
LEMMA SetInduction ==
  ASSUME NEW S, IsFiniteSet(S), NEW T, {} \in T,
         \A U \in SUBSET S, x \in S : U \in T /\ x \notin U => U \cup {x} \in T
  PROVE  \A U \in SUBSET S : U \in T
<1> DEFINE N == {n \in Nat : \A U \in SUBSET S : Cardinality(U) = n => U \in T}
<1>1. \A U \in SUBSET S : IsFiniteSet(U) /\ Cardinality(U) \in Nat
  BY FS_Subset, FS_CardinalityType
<1>2. 0 \in N
  BY <1>1, FS_EmptySet
<1>3. ASSUME NEW n \in Nat, n \in N PROVE n + 1 \in N
  <2>1. SUFFICES ASSUME NEW U \in SUBSET S, Cardinality(U) = n + 1 PROVE U \in T
    BY <1>3
  <2>2. U # {}
    BY <2>1, FS_EmptySet
  <2>3. PICK x : x \in U
    BY <2>2
  <2>4. Cardinality(U \ {x}) = Cardinality(U) - 1
    BY <1>1, <2>3, FS_RemoveElement
  <2>5. Cardinality(U \ {x}) = n
    BY <2>1, <2>4
  <2>6. U \ {x} \in T
    BY <1>3, <2>5
  <2>7. (U \ {x}) \cup {x} \in T
    BY <2>3, <2>6
  <2>8. (U \ {x}) \cup {x} = U
    BY <2>3
  <2> QED BY <2>7, <2>8
<1> HIDE DEF N
<1>4. \A n \in Nat : n \in N
  BY <1>2, <1>3, NatSetInduction
<1> QED
  BY <1>1, <1>4 DEF N

Chosen(S) == CHOOSE x \in S : TRUE

\* g adds up f over every subset of S, one chosen element at a time.
Adds(g, f, S) ==
  g = [s \in SUBSET S |-> IF s = {} THEN 0 ELSE f[Chosen(s)] + g[s \ {Chosen(s)}]]

LEMMA ChosenIsElement == ASSUME NEW S, S # {} PROVE Chosen(S) \in S
BY DEF Chosen

LEMMA SumIsFold ==
  ASSUME NEW f, NEW S
  PROVE  SumFunctionOnSet(f, S) = (CHOOSE g : Adds(g, f, S))[S]
BY Zenon DEF SumFunctionOnSet, FoldFunctionOnSet, MapThenFoldSet, Adds, Chosen

\* f has an integer for every element of S.
Integral(f, S) == \A x \in S : f[x] \in Int

\* A function that adds up f over the subsets with at most n elements.
AddsUpTo(g, f, S, n) ==
  \A s \in SUBSET S : Cardinality(s) <= n =>
     g[s] = IF s = {} THEN 0 ELSE f[Chosen(s)] + g[s \ {Chosen(s)}]

LEMMA SubsetsAreFinite ==
  ASSUME NEW S, IsFiniteSet(S), NEW s \in SUBSET S
  PROVE  /\ IsFiniteSet(s) /\ Cardinality(s) \in Nat
         /\ Cardinality(s) <= Cardinality(S)
         /\ Cardinality(s) = 0 <=> s = {}
         /\ \A x \in s : /\ s \ {x} \in SUBSET S
                         /\ Cardinality(s \ {x}) = Cardinality(s) - 1
<1>1. IsFiniteSet(s) /\ Cardinality(s) <= Cardinality(S)
  BY FS_Subset
<1>2. Cardinality(s) \in Nat
  BY <1>1, FS_CardinalityType
<1>3. Cardinality(s) = 0 <=> s = {}
  BY <1>1, FS_EmptySet
<1>4. ASSUME NEW x \in s PROVE Cardinality(s \ {x}) = Cardinality(s) - 1
  BY <1>1, FS_RemoveElement
<1> QED
  BY <1>1, <1>2, <1>3, <1>4

LEMMA AddingExists ==
  ASSUME NEW f, NEW S, IsFiniteSet(S), Integral(f, S)
  PROVE  \E g \in [SUBSET S -> Int] : Adds(g, f, S)
<1> DEFINE N == {n \in Nat : \E g \in [SUBSET S -> Int] : AddsUpTo(g, f, S, n)}
<1>1. 0 \in N
  <2>1. [s \in SUBSET S |-> 0] \in [SUBSET S -> Int]
    OBVIOUS
  <2>2. ASSUME NEW s \in SUBSET S, Cardinality(s) <= 0
        PROVE  s = {}
    BY <2>2, SubsetsAreFinite
  <2>3. AddsUpTo([s \in SUBSET S |-> 0], f, S, 0)
    BY <2>2 DEF AddsUpTo
  <2> QED
    BY <2>1, <2>3
<1>2. ASSUME NEW n \in Nat, n \in N PROVE n + 1 \in N
  <2>1. PICK g \in [SUBSET S -> Int] : AddsUpTo(g, f, S, n)
    BY <1>2
  <2> DEFINE h == [s \in SUBSET S |->
                     IF s = {} THEN 0 ELSE f[Chosen(s)] + g[s \ {Chosen(s)}]]
  <2>2. ASSUME NEW s \in SUBSET S, s # {}
        PROVE  /\ Chosen(s) \in s /\ f[Chosen(s)] \in Int
               /\ s \ {Chosen(s)} \in SUBSET S
               /\ Cardinality(s \ {Chosen(s)}) = Cardinality(s) - 1
    BY <2>2, ChosenIsElement, SubsetsAreFinite DEF Integral
  <2>3. h \in [SUBSET S -> Int]
    BY <2>2
  <2>4. \A s \in SUBSET S : Cardinality(s) \in Nat
    BY SubsetsAreFinite
  <2>5. \A s \in SUBSET S : Cardinality(s) <= n => h[s] = g[s]
    BY <2>1 DEF AddsUpTo
  <2>6. ASSUME NEW s \in SUBSET S, Cardinality(s) <= n + 1, s # {}
        PROVE  h[s \ {Chosen(s)}] = g[s \ {Chosen(s)}]
    <3>1. Cardinality(s \ {Chosen(s)}) <= n
      BY <2>2, <2>4, <2>6
    <3> QED
      BY <3>1, <2>2, <2>5, <2>6
  <2>7. AddsUpTo(h, f, S, n + 1)
    <3>1. SUFFICES ASSUME NEW s \in SUBSET S, Cardinality(s) <= n + 1
                   PROVE  h[s] = IF s = {} THEN 0 ELSE f[Chosen(s)] + h[s \ {Chosen(s)}]
      BY DEF AddsUpTo
    <3>2. h[s] = IF s = {} THEN 0 ELSE f[Chosen(s)] + g[s \ {Chosen(s)}]
      OBVIOUS
    <3> HIDE DEF h
    <3> QED
      BY <3>1, <3>2, <2>6
  <2> HIDE DEF h
  <2> QED
    BY <2>3, <2>7
<1> HIDE DEF N
<1>3. \A n \in Nat : n \in N
  BY <1>1, <1>2, NatSetInduction
<1>4. Cardinality(S) \in Nat
  BY FS_CardinalityType
<1>5. PICK g \in [SUBSET S -> Int] : AddsUpTo(g, f, S, Cardinality(S))
  BY <1>3, <1>4 DEF N
<1>6. Adds(g, f, S)
  BY <1>5, SubsetsAreFinite DEF AddsUpTo, Adds
<1> QED
  BY <1>6

LEMMA SumAdds ==
  ASSUME NEW f, NEW S, IsFiniteSet(S), Integral(f, S)
  PROVE  \E g \in [SUBSET S -> Int] : Adds(g, f, S) /\ SumFunctionOnSet(f, S) = g[S]
<1> DEFINE g == CHOOSE h : Adds(h, f, S)
<1>1. \E h : Adds(h, f, S)
  BY AddingExists
<1>2. Adds(g, f, S)
  BY <1>1
<1>3. SumFunctionOnSet(f, S) = g[S]
  BY SumIsFold
<1> HIDE DEF g
<1>4. \A s \in SUBSET S :
        g[s] = IF s = {} THEN 0 ELSE f[Chosen(s)] + g[s \ {Chosen(s)}]
  BY <1>2 DEF Adds
<1>0. g[{}] = 0 /\ g[{}] \in Int
  <2>1. {} \in SUBSET S
    OBVIOUS
  <2>2. g[{}] = IF {} = {} THEN 0 ELSE f[Chosen({})] + g[{} \ {Chosen({})}]
    BY <1>4, <2>1, Zenon
  <2>3. g[{}] = 0
    BY <2>2, Zenon
  <2> QED
    BY <2>3
<1> DEFINE N == {n \in Nat : \A s \in SUBSET S : Cardinality(s) <= n => g[s] \in Int}
<1>5. 0 \in N
  <2>1. \A s \in SUBSET S : Cardinality(s) <= 0 => s = {}
    BY SubsetsAreFinite
  <2> QED
    BY <2>1, <1>0
<1>6. ASSUME NEW n \in Nat, n \in N PROVE n + 1 \in N
  <2>1. SUFFICES ASSUME NEW s \in SUBSET S, Cardinality(s) <= n + 1 PROVE g[s] \in Int
    OBVIOUS
  <2>2. CASE s = {}
    BY <2>2, <1>0
  <2>3. CASE s # {}
    <3>1. Chosen(s) \in s /\ f[Chosen(s)] \in Int
      BY <2>3, ChosenIsElement DEF Integral
    <3>2. s \ {Chosen(s)} \in SUBSET S /\ Cardinality(s) \in Nat
          /\ Cardinality(s \ {Chosen(s)}) = Cardinality(s) - 1
      BY <3>1, SubsetsAreFinite
    <3>3. Cardinality(s \ {Chosen(s)}) <= n
      BY <2>1, <3>2
    <3>4. g[s \ {Chosen(s)}] \in Int
      BY <1>6, <3>2, <3>3
    <3>5. g[s] = f[Chosen(s)] + g[s \ {Chosen(s)}]
      BY <1>4, <2>3
    <3> QED
      BY <3>1, <3>4, <3>5
  <2> QED
    BY <2>2, <2>3
<1> HIDE DEF N
<1>7. \A n \in Nat : n \in N
  BY <1>5, <1>6, NatSetInduction
<1>8. \A s \in SUBSET S : g[s] \in Int
  BY <1>7, SubsetsAreFinite DEF N
<1>9. g = [s \in SUBSET S |-> g[s]]
  BY <1>2 DEF Adds
<1>10. g \in [SUBSET S -> Int]
  BY <1>8, <1>9
<1> QED
  BY <1>2, <1>3, <1>10

\* Two functions that add up f agree wherever both are defined.
LEMMA AddsAgree ==
  ASSUME NEW f, NEW S, NEW S2, IsFiniteSet(S), S2 \subseteq S,
         NEW g, Adds(g, f, S), NEW h, Adds(h, f, S2)
  PROVE  \A s \in SUBSET S2 : g[s] = h[s]
<1> DEFINE N == {n \in Nat : \A s \in SUBSET S2 : Cardinality(s) <= n => g[s] = h[s]}
<1>1. \A s \in SUBSET S2 :
        /\ g[s] = IF s = {} THEN 0 ELSE f[Chosen(s)] + g[s \ {Chosen(s)}]
        /\ h[s] = IF s = {} THEN 0 ELSE f[Chosen(s)] + h[s \ {Chosen(s)}]
  BY DEF Adds
<1>2. 0 \in N
  <2>1. \A s \in SUBSET S2 : Cardinality(s) <= 0 => s = {}
    BY SubsetsAreFinite
  <2> QED
    BY <2>1, <1>1
<1>3. ASSUME NEW n \in Nat, n \in N PROVE n + 1 \in N
  <2>1. SUFFICES ASSUME NEW s \in SUBSET S2, Cardinality(s) <= n + 1 PROVE g[s] = h[s]
    OBVIOUS
  <2>2. CASE s = {}
    BY <2>2, <1>1
  <2>3. CASE s # {}
    <3>1. Chosen(s) \in s
      BY <2>3, ChosenIsElement
    <3>2. s \ {Chosen(s)} \in SUBSET S2 /\ Cardinality(s) \in Nat
          /\ Cardinality(s \ {Chosen(s)}) = Cardinality(s) - 1
      BY <3>1, SubsetsAreFinite
    <3>3. Cardinality(s \ {Chosen(s)}) <= n
      BY <2>1, <3>2
    <3>4. g[s \ {Chosen(s)}] = h[s \ {Chosen(s)}]
      BY <1>3, <3>2, <3>3
    <3> QED
      BY <1>1, <2>3, <3>4
  <2> QED
    BY <2>2, <2>3
<1> HIDE DEF N
<1>4. \A n \in Nat : n \in N
  BY <1>2, <1>3, NatSetInduction
<1>5. ASSUME NEW s \in SUBSET S2 PROVE Cardinality(s) \in Nat
  BY SubsetsAreFinite
<1> QED
  BY <1>4, <1>5 DEF N

LEMMA SumEmpty == ASSUME NEW f PROVE SumFunctionOnSet(f, {}) = 0
<1>1. IsFiniteSet({}) /\ Integral(f, {})
  BY FS_EmptySet DEF Integral
<1>2. PICK g \in [SUBSET {} -> Int] : Adds(g, f, {}) /\ SumFunctionOnSet(f, {}) = g[{}]
  BY <1>1, SumAdds
<1>3. {} \in SUBSET {}
  OBVIOUS
<1>4. \A s \in SUBSET {} :
        g[s] = IF s = {} THEN 0 ELSE f[Chosen(s)] + g[s \ {Chosen(s)}]
  BY <1>2 DEF Adds
<1>5. g[{}] = IF {} = {} THEN 0 ELSE f[Chosen({})] + g[{} \ {Chosen({})}]
  BY <1>3, <1>4, Zenon
<1> QED
  BY <1>2, <1>5, Zenon

LEMMA SumType ==
  ASSUME NEW f, NEW S, IsFiniteSet(S), Integral(f, S)
  PROVE  SumFunctionOnSet(f, S) \in Int
<1>1. PICK g \in [SUBSET S -> Int] : Adds(g, f, S) /\ SumFunctionOnSet(f, S) = g[S]
  BY SumAdds
<1>2. g[S] \in Int
  OBVIOUS
<1> QED
  BY <1>1, <1>2

LEMMA SumChosen ==
  ASSUME NEW f, NEW S, IsFiniteSet(S), Integral(f, S), S # {}
  PROVE  SumFunctionOnSet(f, S)
           = f[Chosen(S)] + SumFunctionOnSet(f, S \ {Chosen(S)})
<1> DEFINE R == S \ {Chosen(S)}
<1>1. IsFiniteSet(R) /\ Integral(f, R) /\ R \subseteq S
  BY FS_RemoveElement DEF Integral
<1>2. PICK g \in [SUBSET S -> Int] : Adds(g, f, S) /\ SumFunctionOnSet(f, S) = g[S]
  BY SumAdds
<1>3. PICK h \in [SUBSET R -> Int] : Adds(h, f, R) /\ SumFunctionOnSet(f, R) = h[R]
  BY <1>1, SumAdds
<1>4. g[R] = h[R]
  BY <1>1, <1>2, <1>3, AddsAgree
<1>5. g[S] = f[Chosen(S)] + g[R]
  BY <1>2 DEF Adds
<1> QED
  BY <1>2, <1>3, <1>4, <1>5

\* The order in which elements are added makes no difference.
LEMMA SumRemove ==
  ASSUME NEW f, NEW S, IsFiniteSet(S), Integral(f, S), NEW x \in S
  PROVE  SumFunctionOnSet(f, S) = f[x] + SumFunctionOnSet(f, S \ {x})
<1> DEFINE N == {n \in Nat : \A s \in SUBSET S : \A y \in s : Cardinality(s) <= n =>
                  SumFunctionOnSet(f, s) = f[y] + SumFunctionOnSet(f, s \ {y})}
<1>1. ASSUME NEW s \in SUBSET S
      PROVE  IsFiniteSet(s) /\ Integral(f, s) /\ SumFunctionOnSet(f, s) \in Int
  BY SubsetsAreFinite, SumType DEF Integral
<1>2. 0 \in N
  BY SubsetsAreFinite
<1>3. ASSUME NEW n \in Nat, n \in N PROVE n + 1 \in N
  <2>1. SUFFICES ASSUME NEW s \in SUBSET S, NEW y \in s, Cardinality(s) <= n + 1
                 PROVE  SumFunctionOnSet(f, s) = f[y] + SumFunctionOnSet(f, s \ {y})
    OBVIOUS
  <2> DEFINE c == Chosen(s)
  <2>2. c \in s
    BY ChosenIsElement
  <2>3. SumFunctionOnSet(f, s) = f[c] + SumFunctionOnSet(f, s \ {c})
    BY <1>1, <2>2, SumChosen
  <2>4. CASE y = c
    BY <2>3, <2>4
  <2>5. CASE y # c
    <3>1. /\ s \ {c} \in SUBSET S /\ Cardinality(s \ {c}) = Cardinality(s) - 1
          /\ s \ {y} \in SUBSET S /\ Cardinality(s \ {y}) = Cardinality(s) - 1
          /\ Cardinality(s) \in Nat
      BY <2>2, SubsetsAreFinite
    <3>2. Cardinality(s \ {c}) <= n /\ Cardinality(s \ {y}) <= n
      BY <2>1, <3>1
    <3>3. y \in s \ {c} /\ c \in s \ {y}
      BY <2>2, <2>5
    <3>4. SumFunctionOnSet(f, s \ {c}) = f[y] + SumFunctionOnSet(f, (s \ {c}) \ {y})
      BY <1>3, <3>1, <3>2, <3>3
    <3>5. SumFunctionOnSet(f, s \ {y}) = f[c] + SumFunctionOnSet(f, (s \ {y}) \ {c})
      BY <1>3, <3>1, <3>2, <3>3
    <3>6. (s \ {c}) \ {y} = (s \ {y}) \ {c} /\ (s \ {y}) \ {c} \in SUBSET S
      OBVIOUS
    <3>7. f[c] \in Int /\ f[y] \in Int /\ SumFunctionOnSet(f, (s \ {y}) \ {c}) \in Int
      BY <1>1, <2>2, <3>6 DEF Integral
    <3> DEFINE rest == SumFunctionOnSet(f, (s \ {y}) \ {c})
    <3>8. SumFunctionOnSet(f, s \ {c}) = f[y] + rest
      BY <3>4, <3>6, Zenon
    <3>9. SumFunctionOnSet(f, s \ {y}) = f[c] + rest
      BY <3>5, Zenon
    <3>10. rest \in Int
      BY <3>7
    <3> HIDE DEF c, rest
    <3> QED
      BY <2>3, <3>7, <3>8, <3>9, <3>10
  <2> QED
    BY <2>4, <2>5
<1> HIDE DEF N
<1>4. \A n \in Nat : n \in N
  BY <1>2, <1>3, NatSetInduction
<1>5. S \in SUBSET S /\ Cardinality(S) \in Nat
  BY FS_CardinalityType
<1> QED
  BY <1>4, <1>5 DEF N

LEMMA SumInsert ==
  ASSUME NEW f, NEW S, IsFiniteSet(S), Integral(f, S), NEW x, x \notin S, f[x] \in Int
  PROVE  SumFunctionOnSet(f, S \cup {x}) = f[x] + SumFunctionOnSet(f, S)
<1>1. IsFiniteSet(S \cup {x}) /\ Integral(f, S \cup {x})
  BY FS_AddElement DEF Integral
<1>2. (S \cup {x}) \ {x} = S
  OBVIOUS
<1> QED
  BY <1>1, <1>2, SumRemove

\* A sum term by term.
LEMMA SumPlus ==
  ASSUME NEW S, IsFiniteSet(S), NEW f, Integral(f, S), NEW g, Integral(g, S),
         NEW h, \A x \in S : h[x] = f[x] + g[x]
  PROVE  SumFunctionOnSet(h, S) = SumFunctionOnSet(f, S) + SumFunctionOnSet(g, S)
<1> DEFINE T == {s \in SUBSET S :
        SumFunctionOnSet(h, s) = SumFunctionOnSet(f, s) + SumFunctionOnSet(g, s)}
<1>1. {} \in T
  BY SumEmpty
<1>2. ASSUME NEW s \in SUBSET S, NEW x \in S, s \in T, x \notin s
      PROVE  s \cup {x} \in T
  <2>1. IsFiniteSet(s)
    BY SubsetsAreFinite
  <2>2. Integral(f, s) /\ Integral(g, s) /\ Integral(h, s)
    BY DEF Integral
  <2>3. f[x] \in Int /\ g[x] \in Int /\ h[x] = f[x] + g[x] /\ h[x] \in Int
    BY DEF Integral
  <2>4. /\ SumFunctionOnSet(f, s \cup {x}) = f[x] + SumFunctionOnSet(f, s)
        /\ SumFunctionOnSet(g, s \cup {x}) = g[x] + SumFunctionOnSet(g, s)
        /\ SumFunctionOnSet(h, s \cup {x}) = h[x] + SumFunctionOnSet(h, s)
    BY <1>2, <2>1, <2>2, <2>3, SumInsert
  <2>5. SumFunctionOnSet(f, s) \in Int /\ SumFunctionOnSet(g, s) \in Int
    BY <2>1, <2>2, SumType
  <2>6. SumFunctionOnSet(h, s) = SumFunctionOnSet(f, s) + SumFunctionOnSet(g, s)
    BY <1>2
  <2>7. SumFunctionOnSet(h, s \cup {x})
          = SumFunctionOnSet(f, s \cup {x}) + SumFunctionOnSet(g, s \cup {x})
    BY <2>3, <2>4, <2>5, <2>6
  <2> QED
    BY <2>7
<1> HIDE DEF T
<1>3. \A s \in SUBSET S : s \in T
  BY <1>1, <1>2, SetInduction
<1> QED
  BY <1>3 DEF T

LEMMA SumZero ==
  ASSUME NEW S, IsFiniteSet(S), NEW f, \A x \in S : f[x] = 0
  PROVE  SumFunctionOnSet(f, S) = 0
<1>1. Integral(f, S)
  BY DEF Integral
<1>2. \A x \in S : f[x] = f[x] + f[x]
  OBVIOUS
<1>3. SumFunctionOnSet(f, S) = SumFunctionOnSet(f, S) + SumFunctionOnSet(f, S)
  BY <1>1, <1>2, SumPlus
<1> QED
  BY <1>1, <1>3, SumType

\* The sum depends on nothing but the terms.
LEMMA SumSame ==
  ASSUME NEW S, IsFiniteSet(S), NEW f, Integral(f, S), NEW g, \A x \in S : g[x] = f[x]
  PROVE  SumFunctionOnSet(g, S) = SumFunctionOnSet(f, S)
<1> DEFINE zero == [x \in S |-> 0]
<1>1. SumFunctionOnSet(zero, S) = 0
  BY SumZero
<1>2. Integral(zero, S)
  BY DEF Integral
<1>3. \A x \in S : g[x] = f[x] + zero[x]
  BY DEF Integral
<1> HIDE DEF zero
<1>4. SumFunctionOnSet(g, S) = SumFunctionOnSet(f, S) + SumFunctionOnSet(zero, S)
  BY <1>2, <1>3, SumPlus
<1> QED
  BY <1>1, <1>4, SumType

LEMMA SumMinus ==
  ASSUME NEW S, IsFiniteSet(S), NEW f, Integral(f, S), NEW g, Integral(g, S),
         NEW h, \A x \in S : h[x] = f[x] - g[x]
  PROVE  SumFunctionOnSet(h, S) = SumFunctionOnSet(f, S) - SumFunctionOnSet(g, S)
<1>1. Integral(h, S)
  BY DEF Integral
<1>2. \A x \in S : f[x] = h[x] + g[x]
  BY DEF Integral
<1>3. SumFunctionOnSet(f, S) = SumFunctionOnSet(h, S) + SumFunctionOnSet(g, S)
  BY <1>1, <1>2, SumPlus
<1> QED
  BY <1>1, <1>3, SumType

LEMMA SumNat ==
  ASSUME NEW S, IsFiniteSet(S), NEW f, \A x \in S : f[x] \in Nat
  PROVE  SumFunctionOnSet(f, S) \in Nat
<1> DEFINE T == {s \in SUBSET S : SumFunctionOnSet(f, s) \in Nat}
<1>1. {} \in T
  BY SumEmpty
<1>2. ASSUME NEW s \in SUBSET S, NEW x \in S, s \in T, x \notin s
      PROVE  s \cup {x} \in T
  <2>1. IsFiniteSet(s)
    BY SubsetsAreFinite
  <2>2. Integral(f, s) /\ f[x] \in Int
    BY DEF Integral
  <2>3. SumFunctionOnSet(f, s \cup {x}) = f[x] + SumFunctionOnSet(f, s)
    BY <1>2, <2>1, <2>2, SumInsert
  <2> QED
    BY <1>2, <2>3
<1> HIDE DEF T
<1>3. \A s \in SUBSET S : s \in T
  BY <1>1, <1>2, SetInduction
<1> QED
  BY <1>3 DEF T

LEMMA SumAtMost ==
  ASSUME NEW S, IsFiniteSet(S), NEW f, Integral(f, S), NEW g, Integral(g, S),
         \A x \in S : f[x] <= g[x]
  PROVE  SumFunctionOnSet(f, S) <= SumFunctionOnSet(g, S)
<1> DEFINE gap == [x \in S |-> g[x] - f[x]]
<1>1. \A x \in S : gap[x] \in Nat /\ gap[x] = g[x] - f[x]
  BY DEF Integral
<1> HIDE DEF gap
<1>2. SumFunctionOnSet(gap, S) = SumFunctionOnSet(g, S) - SumFunctionOnSet(f, S)
  BY <1>1, SumMinus
<1>3. SumFunctionOnSet(gap, S) \in Nat
  BY <1>1, SumNat
<1> QED
  BY <1>2, <1>3, SumType

\* One term changes.
LEMMA SumChange ==
  ASSUME NEW S, IsFiniteSet(S), NEW f, Integral(f, S), NEW g, NEW x \in S,
         g[x] \in Int, \A y \in S \ {x} : g[y] = f[y]
  PROVE  SumFunctionOnSet(g, S) = SumFunctionOnSet(f, S) - f[x] + g[x]
<1>1. IsFiniteSet(S \ {x}) /\ Integral(f, S \ {x}) /\ Integral(g, S) /\ f[x] \in Int
  BY FS_RemoveElement DEF Integral
<1>2. SumFunctionOnSet(g, S \ {x}) = SumFunctionOnSet(f, S \ {x})
  BY <1>1, SumSame
<1>3. SumFunctionOnSet(g, S) = g[x] + SumFunctionOnSet(g, S \ {x})
  BY <1>1, SumRemove
<1>4. SumFunctionOnSet(f, S) = f[x] + SumFunctionOnSet(f, S \ {x})
  BY <1>1, SumRemove
<1>5. SumFunctionOnSet(f, S \ {x}) \in Int
  BY <1>1, SumType
<1> QED
  BY <1>1, <1>2, <1>3, <1>4, <1>5

\* One term of a total changes.
LEMMA TotalChange ==
  ASSUME NEW D, IsFiniteSet(D), NEW f \in [D -> Int], NEW g \in [D -> Int],
         NEW x \in D, \A y \in D \ {x} : g[y] = f[y]
  PROVE  /\ SumFunction(f) \in Int
         /\ SumFunction(g) = SumFunction(f) - f[x] + g[x]
<1>1. Integral(f, D) /\ g[x] \in Int /\ DOMAIN f = D /\ DOMAIN g = D
  BY DEF Integral
<1>2. SumFunctionOnSet(g, D) = SumFunctionOnSet(f, D) - f[x] + g[x]
  BY <1>1, SumChange
<1>3. SumFunctionOnSet(f, D) \in Int
  BY <1>1, SumType
<1> QED
  BY <1>1, <1>2, <1>3 DEF SumFunction

LEMMA TotalAtLeast ==
  ASSUME NEW D, IsFiniteSet(D), NEW f \in [D -> Nat], NEW x \in D
  PROVE  SumFunction(f) \in Nat /\ f[x] <= SumFunction(f)
<1>1. Integral(f, D) /\ IsFiniteSet(D \ {x}) /\ DOMAIN f = D
  BY FS_RemoveElement DEF Integral
<1>2. SumFunctionOnSet(f, D) = f[x] + SumFunctionOnSet(f, D \ {x})
  BY <1>1, SumRemove
<1>3. SumFunctionOnSet(f, D \ {x}) \in Nat
  BY <1>1, SumNat
<1> QED
  BY <1>1, <1>2, <1>3 DEF SumFunction
=============================================================================
